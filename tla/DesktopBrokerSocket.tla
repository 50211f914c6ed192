------------------------ MODULE DesktopBrokerSocket ------------------------
(***************************************************************************)
(* The desktop session broker on its socket transport                      *)
(* (src/src/desktop_session_broker/transport.rs): an accept loop, one      *)
(* reader thread per connection, the owner thread behind a bounded         *)
(* channel, and the clients of session-call, each of which sends one       *)
(* request over one connection and reports what became of it.              *)
(***************************************************************************)
EXTENDS RequestSemantics

CONSTANTS Calls,                 \* the client calls, one connection each
          Frames,                \* what each call may send; None is a malformed frame
          ConnectionLimit,       \* CONNECTION_LIMIT
          MaximumPendingFrames,  \* MAXIMUM_PENDING_FRAMES
          Wake,                  \* the connection serve_socket makes to wake accept
          QueueFull,             \* the frame BROKER_QUEUE_FULL
          ProtocolFailed,        \* the frame BROKER_PROTOCOL_FAILED
          Failed,                \* ClientFailure: nothing was dispatched
          Unknown                \* ClientFailure: dispatched, outcome unknown

ASSUME SocketAssumption ==
    /\ Frames \in [Calls -> SUBSET (Requests \cup {None})]
    /\ ConnectionLimit \in Nat \ {0}
    /\ MaximumPendingFrames \in Nat \ {0}
    /\ None \notin Calls
    /\ Wake \notin Calls \cup {None}
    /\ {QueueFull, ProtocolFailed, Failed, Unknown} \cap (Response \cup {None}) = {}

VARIABLES
    call,        \* where each client is
    asked,       \* the request it sent; None also stands for a malformed frame
    result,      \* what the client reports
    conn,        \* where the broker is with the connection
    answer,      \* what the broker wrote to it
    backlog,     \* connections the kernel holds for accept
    acceptor,    \* where the accept loop is
    accepted,    \* the connection it has in hand
    queue,       \* the channel from the readers to the owner
    serving,     \* the connection of the current request
    stopping,    \* the flag of serve_socket
    turnedAway   \* history: calls refused by a full channel after they were judged

clientVars == <<call, asked, result>>

transportVars == <<conn, answer, backlog, acceptor, accepted, queue, serving, stopping,
                   turnedAway>>

semanticsVars == <<fingerprints, readerReserve>>

vars == <<entries, ownerVars, semanticsVars, clientVars, transportVars>>

OwnerStates == HandlingStates \cup {"ready", "receive", "stop", "wake", "join", "exited"}

TerminalErrors == {QueueFull, ProtocolFailed}

TypeOK ==
    /\ OwnerTypeOK(OwnerStates)
    /\ SemanticsTypeOK
    /\ call \in [Calls -> {"new", "sent", "done"}]
    /\ asked \in [Calls -> Requests \cup {None}]
    /\ result \in [Calls -> Response \cup {None, Failed, Unknown}]
    /\ conn \in [Calls -> {"none", "backlog", "accepted", "reading", "judged", "queued",
                           "serving", "closed"}]
    /\ answer \in [Calls -> Response \cup TerminalErrors \cup {None}]
    /\ backlog \in Seq(Calls \cup {Wake})
    /\ acceptor \in {"check", "accept", "admit", "done"}
    /\ accepted \in Calls \cup {Wake, None}
    /\ queue \in Seq(Calls)
    /\ Len(queue) <= MaximumPendingFrames
    /\ Cardinality({c \in Calls : conn[c] \in {"reading", "judged"}}) <= ConnectionLimit
    /\ serving \in Calls \cup {None}
    /\ owner \in HandlingStates => serving \in Calls /\ asked[serving] = current
    /\ stopping \in BOOLEAN
    /\ turnedAway \subseteq Calls

Init ==
    /\ OwnerInit("ready")
    /\ SemanticsInit
    /\ call = [c \in Calls |-> "new"]
    /\ asked = [c \in Calls |-> None]
    /\ result = [c \in Calls |-> None]
    /\ conn = [c \in Calls |-> "none"]
    /\ answer = [c \in Calls |-> None]
    /\ backlog = <<>>
    /\ acceptor = "check"
    /\ accepted = None
    /\ queue = <<>>
    /\ serving = None
    /\ stopping = FALSE
    /\ turnedAway = {}

----------------------------------------------------------------------------
(* The client: exchange and run_socket_client.                             *)

Report(c, r) == call' = [call EXCEPT ![c] = "done"] /\ result' = [result EXCEPT ![c] = r]

\* exchange up to read_response.  Once the listener is gone the call fails with nothing
\* dispatched; else it counts as dispatched from here on.  The socket holds what is
\* written until a reader takes it.  A frame that is none stands for a client that
\* dies before it has written, and for another program on the socket.
Exchange(c) ==
    /\ call[c] = "new"
    /\ IF acceptor # "done"
       THEN /\ call' = [call EXCEPT ![c] = "sent"]
            /\ \E frame \in Frames[c] : asked' = [asked EXCEPT ![c] = frame]
            /\ conn' = [conn EXCEPT ![c] = "backlog"]
            /\ backlog' = Append(backlog, c)
            /\ UNCHANGED result
       ELSE Report(c, Failed) /\ UNCHANGED <<asked, conn, backlog>>
    /\ UNCHANGED <<entries, ownerVars, semanticsVars, answer, acceptor, accepted, queue,
                   serving, stopping, turnedAway>>

\* read_response.  A complete response is the result; an error frame, a closed connection
\* or the client's timeout is an unknown outcome.  The broker goes on with a request
\* that the client has given up, so when the client did so is left open.
ReadResponse(c) ==
    /\ call[c] = "sent"
    /\ conn[c] = "closed"
    /\ \/ answer[c] \in Response /\ Report(c, answer[c])
       \/ Report(c, Unknown)
    /\ UNCHANGED <<entries, ownerVars, semanticsVars, asked, transportVars>>

ClientNext == \E c \in Calls : Exchange(c) \/ ReadResponse(c)

----------------------------------------------------------------------------
(* The accept loop: accept_connections.                                    *)

\* The listener goes out of scope: the connections nobody accepted are closed.
CloseListener ==
    /\ acceptor' = "done"
    /\ accepted' = None
    /\ conn' = [c \in Calls |-> IF conn[c] \in {"backlog", "accepted"} THEN "closed" ELSE conn[c]]
    /\ backlog' = <<>>

AcceptLoop ==
    /\ acceptor = "check"
    /\ IF stopping
       THEN CloseListener
       ELSE acceptor' = "accept" /\ UNCHANGED <<accepted, conn, backlog>>
    /\ UNCHANGED <<entries, ownerVars, semanticsVars, clientVars, answer, queue, serving,
                   stopping, turnedAway>>

Accept1 ==
    /\ acceptor = "accept"
    /\ backlog # <<>>
    /\ accepted' = Head(backlog)
    /\ backlog' = Tail(backlog)
    /\ conn' = [c \in Calls |-> IF c = Head(backlog) THEN "accepted" ELSE conn[c]]
    /\ acceptor' = "admit"
    /\ UNCHANGED <<entries, ownerVars, semanticsVars, clientVars, answer, queue, serving,
                   stopping, turnedAway>>

\* An error of accept ends the loop for good.
AcceptFails ==
    /\ acceptor = "accept"
    /\ CloseListener
    /\ UNCHANGED <<entries, ownerVars, semanticsVars, clientVars, answer, queue, serving,
                   stopping, turnedAway>>

Readers == {c \in Calls : conn[c] \in {"reading", "judged"}}

\* Mutant of AtLimit: one reader too many.
AboveLimit == Cardinality(Readers) > ConnectionLimit

\* The count of running readers, one atomic counter in the code.
AtLimit == Cardinality(Readers) >= ConnectionLimit

\* The flag again, then the limit of readers, then a thread of its own.
AdmitConnection ==
    /\ acceptor = "admit"
    /\ IF stopping
       THEN CloseListener /\ UNCHANGED answer
       ELSE /\ IF AtLimit
               THEN /\ conn' = [conn EXCEPT ![accepted] = "closed"]
                    /\ answer' = [answer EXCEPT ![accepted] = QueueFull]
               ELSE /\ conn' = [conn EXCEPT ![accepted] = "reading"]
                    /\ UNCHANGED answer
            /\ acceptor' = "check"
            /\ accepted' = None
            /\ UNCHANGED backlog
    /\ UNCHANGED <<entries, ownerVars, semanticsVars, clientVars, queue, serving, stopping,
                   turnedAway>>

AcceptorNext == AcceptLoop \/ Accept1 \/ AcceptFails \/ AdmitConnection

----------------------------------------------------------------------------
(* The reader thread of a connection: receive_request.                     *)

\* No frame within the timeout, end of file, a malformed frame or more than one.
ReadFails(c) ==
    /\ conn[c] = "reading"
    /\ asked[c] = None
    /\ conn' = [conn EXCEPT ![c] = "closed"]
    /\ answer' = [answer EXCEPT ![c] = ProtocolFailed]
    /\ UNCHANGED <<entries, ownerVars, semanticsVars, clientVars, backlog, acceptor, accepted,
                   queue, serving, stopping, turnedAway>>

\* Mutant of SemanticsFree: the table is locked for the judgement alone.
SemanticsUnlocked == TRUE

\* The semantics mutex, held from the judgement to the end of try_send.
SemanticsFree == \A c \in Calls : conn[c] # "judged"

Judge(c) ==
    /\ conn[c] = "reading"
    /\ asked[c] # None
    /\ SemanticsFree
    /\ PrepareControlRequest(asked[c])
    /\ conn' = [conn EXCEPT ![c] = "judged"]
    /\ UNCHANGED <<ownerVars, clientVars, answer, backlog, acceptor, accepted, queue, serving,
                   stopping, turnedAway>>

\* try_send.  A request that a full channel turns away stays in the table, and the
\* cancel it may carry stays applied.
TrySend(c) ==
    /\ conn[c] = "judged"
    /\ IF Len(queue) < MaximumPendingFrames
       THEN /\ queue' = Append(queue, c)
            /\ conn' = [conn EXCEPT ![c] = "queued"]
            /\ UNCHANGED <<answer, turnedAway>>
       ELSE /\ conn' = [conn EXCEPT ![c] = "closed"]
            /\ answer' = [answer EXCEPT ![c] = QueueFull]
            /\ turnedAway' = turnedAway \cup {c}
            /\ UNCHANGED queue
    /\ UNCHANGED <<entries, ownerVars, semanticsVars, clientVars, backlog, acceptor, accepted,
                   serving, stopping>>

ReaderNext == \E c \in Calls : ReadFails(c) \/ Judge(c) \/ TrySend(c)

----------------------------------------------------------------------------
(* The owner: serve_socket.                                                *)

handlingVars == <<ledger, ledgerReserve, registered, progress, response, effects, releases,
                  late, down, tombstoned, replies>>

\* The ready line; a broken pipe ends the broker before it served anything.
WriteReady ==
    /\ owner = "ready"
    /\ owner' \in {"receive", "stop"}
    /\ UNCHANGED <<entries, handlingVars, current, semanticsVars, clientVars, transportVars>>

Receive ==
    /\ owner = "receive"
    /\ queue # <<>>
    /\ serving' = Head(queue)
    /\ current' = asked[Head(queue)]
    /\ queue' = Tail(queue)
    /\ conn' = [conn EXCEPT ![Head(queue)] = "serving"]
    /\ owner' = "handle"
    /\ UNCHANGED <<entries, handlingVars, semanticsVars, clientVars, answer, backlog, acceptor,
                   accepted, stopping, turnedAway>>

\* recv fails when the accept loop and every reader have dropped their senders.
SendersGone ==
    /\ owner = "receive"
    /\ queue = <<>> /\ acceptor = "done" /\ Readers = {}
    /\ owner' = "stop"
    /\ UNCHANGED <<entries, handlingVars, current, semanticsVars, clientVars, transportVars>>

\* The response is written; whether it arrived does not matter to the broker.
Respond ==
    /\ owner = "respond"
    /\ answer' = [answer EXCEPT ![serving] = response]
    /\ conn' = [conn EXCEPT ![serving] = "closed"]
    /\ replies' = replies \cup {<<current, response>>}
    /\ owner' = IF current.operation = "shutdown" /\ response.outcome \notin Refusals
                THEN "stop" ELSE "receive"
    /\ current' = None
    /\ serving' = None
    /\ response' = None
    /\ registered' = FALSE
    /\ progress' = NoProgress
    /\ UNCHANGED <<entries, ledger, ledgerReserve, effects, releases, late, down,
                   tombstoned, semanticsVars, clientVars, backlog, acceptor, accepted,
                   queue, stopping, turnedAway>>

SetStopping ==
    /\ owner = "stop"
    /\ stopping' = TRUE
    /\ owner' = "wake"
    /\ UNCHANGED <<entries, handlingVars, current, semanticsVars, clientVars, conn, answer,
                   backlog, acceptor, accepted, queue, serving, turnedAway>>

\* Mutant of WakeListener: the owner joins an accept loop that may be blocked.
SilentListener == UNCHANGED backlog

\* The connection that gets accept to return, unless the listener is closed.
WakeListener == backlog' = IF acceptor # "done" THEN Append(backlog, Wake) ELSE backlog

WakeAcceptor ==
    /\ owner = "wake"
    /\ WakeListener
    /\ owner' = "join"
    /\ UNCHANGED <<entries, handlingVars, current, semanticsVars, clientVars, conn, answer,
                   acceptor, accepted, queue, serving, stopping, turnedAway>>

\* The accept loop has ended and so does the process, with every connection it holds.
Join ==
    /\ owner = "join"
    /\ acceptor = "done"
    /\ owner' = "exited"
    /\ conn' = [c \in Calls |-> IF conn[c] = "none" THEN "none" ELSE "closed"]
    /\ UNCHANGED <<entries, handlingVars, current, semanticsVars, clientVars, answer, backlog,
                   acceptor, accepted, queue, serving, stopping, turnedAway>>

OwnerNext ==
    \/ WriteReady \/ Receive \/ SendersGone \/ Respond
    \/ SetStopping \/ WakeAcceptor \/ Join
    \/ HandleStep /\ UNCHANGED <<semanticsVars, clientVars, transportVars>>

ServerNext == AcceptorNext \/ ReaderNext \/ OwnerNext


Next == ClientNext \/ ServerNext

(***************************************************************************)
(* The threads of the broker are scheduled: the accept loop when there is  *)
(* a connection, a reader until its socket timeout at the latest, and the  *)
(* owner.  Nothing is assumed of the clients.                              *)
(***************************************************************************)
Spec ==
    /\ Init /\ [][Next]_vars
    /\ WF_vars(AcceptLoop \/ Accept1 \/ AdmitConnection)
    /\ \A c \in Calls : WF_vars(ReadFails(c)) /\ WF_vars(Judge(c)) /\ WF_vars(TrySend(c))
    /\ WF_vars(OwnerNext)

----------------------------------------------------------------------------
InHand == IF owner = "handle" THEN <<current>> ELSE <<>>

Waiting == [i \in DOMAIN queue |-> asked[queue[i]]]

Judging == {c \in Calls : conn[c] = "judged"}

JustJudged == IF Judging = {} THEN <<>> ELSE <<asked[CHOOSE c \in Judging : TRUE]>>

\* The requests the readers have judged and the owner has not, oldest first.
Pending == InHand \o Waiting \o JustJudged

\* The semantics mutex covers try_send, so requests are queued in the order of their
\* judgement: the shared table is the ledger with the pending requests judged in turn,
\* as long as no request was turned away by a full channel.
ReadersAgreeWithOwner ==
    turnedAway = {} /\ owner # "exited" =>
        JudgeAll(OwnerJudged, Pending)
            = [known |-> fingerprints, reserve |-> readerReserve]

\* What a client reports is what the ledger holds for exactly its request, whoever
\* else sent the same nonce and whenever the broker was stopped: a response is never
\* delivered to another call, and a repeated call gets the first response.
ResultsMatchLedger ==
    \A c \in Calls :
        result[c] \in Response /\ result[c].outcome \notin Refusals =>
            ledger[asked[c].nonce] = [fingerprint |-> asked[c], response |-> result[c]]

\* Every connection is closed in the end, whatever its client and the others do: it is
\* answered, refused, timed out, or cut off by the end of the broker.
ConnectionsEnd == \A c \in Calls : (conn[c] = "backlog") ~> (conn[c] = "closed")
============================================================================
