-------------------------- MODULE McpBrokerClient --------------------------
(***************************************************************************)
(* The MCP service's connection to a desktop session broker of its own     *)
(* (src/src/mcp/broker.rs): a child process, a writer and a reader thread, *)
(* a request channel of one place and a response channel of two.  A call   *)
(* sends one request and waits for its response; a cancellation that comes *)
(* meanwhile sends an input-cancel and waits for its answer too.  Whatever *)
(* goes wrong in between kills the child, and the outcome is unknown.      *)
(*                                                                         *)
(* The nonce of a call is random.  Here it is one bit that alternates:     *)
(* NothingLeftBehind shows that no older frame is ever about to confuse.   *)
(* The child is the broker of DesktopBroker, reduced to what it promises   *)
(* on its pipes.                                                           *)
(***************************************************************************)
EXTENDS Naturals, Sequences

CONSTANTS None,
          RequestPlaces,    \* places of the request channel
          ResponsePlaces    \* places of the response channel

ASSUME ClientAssumption ==
    /\ RequestPlaces \in Nat \ {0}
    /\ ResponsePlaces \in Nat \ {0}

InputOps == {"input-pointer", "interact"}

Ops == InputOps \cup {"sessions", "close", "open", "observe", "shutdown",
                        "authorization-status", "forget-authorization"}

\* What a cancelled token does not keep from being sent.
UncancellableOps == {"shutdown", "close", "sessions"}

Request == [kind : {"call", "cancel"}, op : Ops, nonce : {0, 1}]

\* What the child writes: an answer to a call or to a cancel.  One that is not completed
\* is failed, cancelled or unknown, and accepted says whether its input may have been
\* accepted.  "frame": a frameId comes with it.
Response ==
    [kind : {"answer", "ack"}, op : Ops, nonce : {0, 1}, completed : BOOLEAN,
     accepted : BOOLEAN, frame : BOOLEAN]

\* An Err in the response channel, and a line of more than 64 KiB.
Broken == [kind |-> "broken"]

\* What call returns.
Reply == [result : {"ok", "failed"}, accepted : BOOLEAN, frame : BOOLEAN]

ASSUME NoneAssumption == None \notin Request \cup Response \cup Reply \cup {Broken}

VARIABLES
    child,       \* the broker process
    job,         \* the request it is executing
    stdin, stdout,          \* the pipes
    sender,      \* Broker.requests is still there
    requests, responses,    \* the channels
    writer, writing,        \* the writer thread and the frame it has in hand
    reader,      \* the reader thread
    closed,      \* Broker.closed
    line,        \* where call is
    op, nonce,   \* its request
    original, cancelSent, cancelAck,   \* its locals
    reply,       \* what it returns
    cancelled,   \* the token of the current tool call
    signalled,   \* the process was told to stop
    moved,       \* history: an input event left since the child's last observation
    callMoved    \* history: ... during the current call

childVars == <<child, job, stdin, stdout, moved, callMoved>>

threadVars == <<requests, responses, writer, writing, reader>>

callVars == <<line, op, nonce, original, cancelSent, cancelAck, reply>>

clientVars == <<childVars, threadVars, callVars, sender, closed>>

ClientTypeOK ==
    /\ child \in {"none", "idle", "busy", "dead"}
    /\ job \in Request \cup {None}
    /\ child = "busy" <=> job # None
    /\ stdin \in Seq(Request)
    /\ stdout \in Seq(Response \cup {Broken})
    /\ sender \in BOOLEAN
    /\ requests \in Seq(Request) /\ Len(requests) <= RequestPlaces
    /\ responses \in Seq(Response \cup {Broken}) /\ Len(responses) <= ResponsePlaces
    /\ writer \in {"off", "running", "gone"}
    /\ writing \in Request \cup {None}
    /\ reader \in {"off", "running", "gone"}
    /\ closed \in BOOLEAN
    /\ line \in {"idle", "send", "loop", "kill", "join", "returned"}
    /\ op \in Ops
    /\ nonce \in {0, 1}
    /\ original \in Response \cup {None}
    /\ cancelSent \in BOOLEAN /\ cancelAck \in BOOLEAN
    /\ reply \in Reply \cup {None}
    /\ cancelled \in BOOLEAN /\ signalled \in BOOLEAN
    /\ moved \in BOOLEAN /\ callMoved \in BOOLEAN

ClientInit ==
    /\ child = "none" /\ job = None
    /\ stdin = <<>> /\ stdout = <<>>
    /\ sender = FALSE /\ requests = <<>> /\ responses = <<>>
    /\ writer = "off" /\ writing = None /\ reader = "off"
    /\ closed = FALSE
    /\ line = "idle" /\ op = "sessions" /\ nonce = 0
    /\ original = None /\ cancelSent = FALSE /\ cancelAck = FALSE /\ reply = None
    /\ cancelled = FALSE /\ signalled = FALSE
    /\ moved = FALSE /\ callMoved = FALSE

----------------------------------------------------------------------------
(* Broker::start and Broker::call, called by the service.                  *)

\* start: a child that has written a good ready frame, and the threads.
StartBroker ==
    /\ child' = "idle" /\ job' = None
    /\ stdin' = <<>> /\ stdout' = <<>>
    /\ sender' = TRUE /\ requests' = <<>> /\ responses' = <<>>
    /\ writer' = "running" /\ writing' = None /\ reader' = "running"
    /\ closed' = FALSE
    /\ UNCHANGED <<callVars, moved, callMoved>>

Returns(result, accepted, frame) ==
    reply' = [result |-> result, accepted |-> accepted, frame |-> frame]

\* The failures before anything is sent: a closed broker, a set token, and fields that
\* make no request or too long a one.
RefusedBeforeDispatch(o, token) ==
    \/ closed
    \/ token /\ o \notin UncancellableOps
    \/ o \in InputOps

\* call with the token that set_cancellation has given the broker.
BeginCall(o, token) ==
    /\ op' = o
    /\ nonce' = 1 - nonce
    /\ original' = None /\ cancelSent' = FALSE /\ cancelAck' = FALSE
    /\ callMoved' = FALSE
    /\ \/ /\ RefusedBeforeDispatch(o, token)
          /\ line' = "returned"
          /\ Returns("failed", FALSE, FALSE)
       \/ /\ ~closed
          /\ ~(token /\ o \notin UncancellableOps)
          /\ line' = "send"
          /\ reply' = None
    /\ UNCHANGED <<child, job, stdin, stdout, moved, threadVars, sender, closed>>

\* terminate, called with no call under way.
BeginTerminate ==
    /\ line' = "kill"
    /\ reply' = None
    /\ UNCHANGED <<op, nonce, original, cancelSent, cancelAck, childVars, threadVars, sender,
                   closed>>

----------------------------------------------------------------------------
(* The steps of call.                                                      *)

\* Mutant of TransportFailed: a failure of the transport passes for a refusal.
TransportRefused == line' = "kill" /\ Returns("failed", FALSE, FALSE)

\* An error inside the closure: terminate, then an unknown outcome.
TransportFailed == line' = "kill" /\ Returns("failed", TRUE, FALSE)

RequestOf(kind) == [kind |-> kind, op |-> op, nonce |-> nonce]

TrySend(request, goOn) ==
    IF writer = "running" /\ Len(requests) < RequestPlaces
    THEN requests' = Append(requests, request) /\ goOn
    ELSE TransportFailed /\ UNCHANGED <<requests, cancelSent>>

Dispatch ==
    /\ line = "send"
    /\ TrySend(RequestOf("call"), line' = "loop" /\ UNCHANGED <<reply, cancelSent>>)
    /\ UNCHANGED <<op, nonce, original, cancelAck, childVars, responses, writer, writing,
                   reader, sender, closed>>

\* A set token is noticed at the top of the loop, once.
SendCancel ==
    /\ line = "loop"
    /\ ~cancelSent
    /\ op \in InputOps
    /\ cancelled \/ signalled
    /\ TrySend(RequestOf("cancel"), cancelSent' = TRUE /\ UNCHANGED <<line, reply>>)
    /\ UNCHANGED <<op, nonce, original, cancelAck, childVars, responses, writer, writing,
                   reader, sender, closed>>

\* Mutant of IsComplete: the answer is enough.
IsCompleteUnacknowledged(answer, ack) == answer # None

IsComplete(answer, ack) == answer # None /\ (cancelSent => ack)

\* validate_response of the original: a business failure leaves the broker alive.
Settle(answer) ==
    Returns(IF answer.completed THEN "ok" ELSE "failed",
            answer.accepted, answer.frame)

\* What the loop does with its locals once a good frame has updated them.
Continue(answer, ack) ==
    /\ original' = answer
    /\ cancelAck' = ack
    /\ IF IsComplete(answer, ack)
       THEN line' = "returned" /\ Settle(answer)
       ELSE UNCHANGED <<line, reply>>

\* validate_correlation, and the checks against a second answer of either kind.
IsAck(r) == cancelSent /\ r.kind = "ack" /\ r.nonce = nonce

IsAnswer(r) == r.kind = "answer" /\ r.nonce = nonce /\ r.op = op

ReceiveResponse ==
    /\ line = "loop"
    /\ responses # <<>>
    /\ responses' = Tail(responses)
    /\ LET r == Head(responses)
       IN  IF r # Broken /\ IsAck(r) /\ ~cancelAck /\ r.completed
           THEN Continue(original, TRUE)
           ELSE IF r # Broken /\ IsAnswer(r) /\ original = None
           THEN Continue(r, cancelAck)
           ELSE TransportFailed /\ UNCHANGED <<original, cancelAck>>
    /\ UNCHANGED <<op, nonce, cancelSent, childVars, requests, writer, writing, reader, sender,
                   closed>>

\* The deadline passes, or both threads have dropped their ends of the channel.
GiveUp ==
    /\ line = "loop"
    /\ TransportFailed
    /\ UNCHANGED <<op, nonce, original, cancelSent, cancelAck, childVars, threadVars, sender,
                   closed>>

----------------------------------------------------------------------------
(* terminate: close the request channel, kill the child and wait for it,   *)
(* then join the threads.                                                  *)

\* The first operator is a mutant: the child is left to notice its closed input.
KillLater == UNCHANGED <<child, job, stdin>>

KillChild == child' = "dead" /\ job' = None /\ stdin' = <<>>

\* The first operator is a mutant: the writer keeps waiting for requests.
KeepRequests == UNCHANGED sender

TakeRequests == sender' = FALSE

Kill ==
    /\ line = "kill"
    /\ closed' = TRUE
    /\ TakeRequests
    /\ KillChild
    /\ line' = "join"
    /\ UNCHANGED <<op, nonce, original, cancelSent, cancelAck, reply, stdout, moved, callMoved,
                   threadVars>>

\* Nobody reads what is left in the response channel of a closed broker.
Join ==
    /\ line = "join"
    /\ writer = "gone" /\ reader = "gone"
    /\ line' = "returned"
    /\ responses' = <<>> /\ stdout' = <<>>
    /\ UNCHANGED <<op, nonce, original, cancelSent, cancelAck, reply, child, job, stdin, moved,
                   callMoved, requests, writer, writing, reader, sender, closed>>

\* The locals of call go out of scope.
ForgetCall ==
    /\ line' = "idle" /\ op' = "sessions"
    /\ original' = None /\ cancelSent' = FALSE /\ cancelAck' = FALSE /\ reply' = None
    /\ callMoved' = FALSE
    /\ UNCHANGED <<nonce, child, job, stdin, stdout, moved, threadVars, sender, closed>>

CallStep == Dispatch \/ SendCancel \/ ReceiveResponse \/ GiveUp \/ Kill \/ Join

----------------------------------------------------------------------------
(* The writer and the reader thread.                                       *)

PushResponse(r) ==
    responses' = IF Len(responses) < ResponsePlaces THEN Append(responses, r) ELSE responses

WriterTakes ==
    /\ writer = "running" /\ writing = None
    /\ requests # <<>>
    /\ writing' = Head(requests)
    /\ requests' = Tail(requests)
    /\ UNCHANGED <<responses, writer, reader, stdin>>

\* write_all and flush; a dead child breaks the pipe.
WriterWrites ==
    /\ writing # None
    /\ writing' = None
    /\ IF child # "dead"
       THEN stdin' = Append(stdin, writing) /\ UNCHANGED <<requests, responses, writer>>
       ELSE /\ PushResponse(Broken)
            /\ writer' = "gone"
            /\ requests' = <<>>
            /\ UNCHANGED stdin
    /\ UNCHANGED reader

WriterEnds ==
    /\ writer = "running" /\ writing = None
    /\ requests = <<>> /\ ~sender
    /\ writer' = "gone"
    /\ UNCHANGED <<requests, responses, writing, reader, stdin>>

WriterStep ==
    /\ WriterTakes \/ WriterWrites \/ WriterEnds
    /\ UNCHANGED <<child, job, stdout, moved, callMoved, callVars, sender, closed>>

\* A line that is too long ends the thread, and so does a full channel.
ReaderReads ==
    /\ reader = "running"
    /\ stdout # <<>>
    /\ stdout' = Tail(stdout)
    /\ PushResponse(Head(stdout))
    /\ reader' = IF Head(stdout) = Broken \/ Len(responses) = ResponsePlaces
                 THEN "gone" ELSE "running"

ReaderEof ==
    /\ reader = "running"
    /\ stdout = <<>> /\ child = "dead"
    /\ reader' = "gone"
    /\ UNCHANGED <<stdout, responses>>

ReaderStep ==
    /\ ReaderReads \/ ReaderEof
    /\ UNCHANGED <<child, job, stdin, moved, callMoved, requests, writer, writing,
                   callVars, sender, closed>>

----------------------------------------------------------------------------
(* The child.                                                              *)

ChildWrites(r) == stdout' = Append(stdout, r)

ChildTakes ==
    /\ child = "idle"
    /\ stdin # <<>>
    /\ stdin' = Tail(stdin)
    /\ LET r == Head(stdin)
       IN  IF r.kind = "call"
           THEN child' = "busy" /\ job' = r /\ UNCHANGED stdout
           ELSE /\ ChildWrites([kind |-> "ack", op |-> r.op, nonce |-> r.nonce,
                                completed |-> TRUE, accepted |-> FALSE, frame |-> FALSE])
                /\ UNCHANGED <<child, job>>
    /\ UNCHANGED <<moved, callMoved>>

ChildEvent ==
    /\ child = "busy"
    /\ job.op \in InputOps
    /\ moved' = TRUE /\ callMoved' = TRUE
    /\ UNCHANGED <<child, job, stdin, stdout>>

\* The answer of a job.  A failed one never denies an event that left, a good interact
\* or observe brings a new frame, and a shutdown ends the child.  An answer of more
\* than 64 KiB is broken for the client.
ChildAnswers ==
    /\ child = "busy"
    /\ \E completed \in BOOLEAN, accepted \in BOOLEAN, frame \in BOOLEAN :
          /\ job.op = "shutdown" => completed
          /\ IF completed THEN ~accepted ELSE callMoved => accepted
          /\ frame = (completed /\ job.op \in {"interact", "observe"})
          /\ moved' = (moved /\ ~frame)
          /\ \/ ChildWrites([kind |-> "answer", op |-> job.op, nonce |-> job.nonce,
                             completed |-> completed, accepted |-> accepted, frame |-> frame])
             \/ ChildWrites(Broken)
    /\ child' = IF job.op = "shutdown" THEN "dead" ELSE "idle"
    /\ job' = None
    /\ UNCHANGED <<stdin, callMoved>>

\* The child crashes, or ends because its input is closed.
ChildDies ==
    /\ child \in {"idle", "busy"}
    /\ child' = "dead"
    /\ job' = None /\ stdin' = <<>>
    /\ UNCHANGED <<stdout, moved, callMoved>>

ChildStep ==
    /\ ChildTakes \/ ChildEvent \/ ChildAnswers \/ ChildDies
    /\ UNCHANGED <<threadVars, callVars, sender, closed>>

----------------------------------------------------------------------------
\* Between two calls nothing of the last one is left on a live connection: no request
\* that could still be executed, no answer that could be taken for the next call's.
\* After a failure of the transport the child is dead.
NothingLeftBehind ==
    line \in {"idle", "returned"} =>
        /\ child # "busy"
        /\ closed => child = "dead"
        /\ ~closed => /\ stdin = <<>> /\ requests = <<>> /\ writing = None
                      /\ stdout = <<>> /\ responses = <<>>

\* A call that fails and denies that its input may have been accepted tells the
\* truth: no event of it has left.
CallTruthful ==
    line = "returned" /\ reply # None /\ reply.result = "failed" /\ ~reply.accepted => ~callMoved
============================================================================
