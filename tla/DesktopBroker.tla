--------------------------- MODULE DesktopBroker ---------------------------
(***************************************************************************)
(* The desktop session broker on its stdio transport                       *)
(* (src/src/desktop_session_broker.rs, run_stdio): a reader thread parses  *)
(* frames, applies cancels ahead of the owner and queues requests in a     *)
(* bounded channel; the owner thread takes them out one by one.  A frame   *)
(* the reader cannot accept sets the terminal code, which the owner looks  *)
(* at before and after it receives a request.                              *)
(***************************************************************************)
EXTENDS RequestSemantics, SequencesExt

CONSTANTS MaximumPendingFrames,  \* MAXIMUM_PENDING_FRAMES
          MaximumFrames,         \* bound of the model: frames a client sends
          Eof                    \* InboundFrame::Eof

ASSUME TransportAssumption ==
    /\ MaximumPendingFrames \in Nat \ {0}
    /\ MaximumFrames \in Nat
    /\ Eof \notin Requests

VARIABLES
    reader,        \* where the reader thread is
    held,          \* the request it has parsed and not queued yet
    queue,         \* the channel from reader to owner
    terminal,      \* the terminal code, 0 for none
    exit,          \* how serve_inbound returned
    frames         \* bound of the model: frames read so far

readerVars == <<reader, held, fingerprints, readerReserve, frames>>

vars == <<entries, ownerVars, readerVars, queue, terminal, exit>>

ReaderStates == {"read", "enqueue", "stop-all", "eof", "done"}

OwnerStates == HandlingStates \cup {"ready", "check", "receive", "recheck", "exited"}

Exits == {"running", "terminal-error", "input-closed", "write-failed", "shutdown"}

TypeOK ==
    /\ OwnerTypeOK(OwnerStates)
    /\ owner = "recheck" => current \in Requests
    /\ reader \in ReaderStates
    /\ held \in Requests \cup {None}
    /\ reader = "enqueue" => held \in Requests
    /\ SemanticsTypeOK
    /\ queue \in Seq(Requests \cup {Eof})
    /\ terminal \in 0..3
    /\ exit \in Exits
    /\ frames \in Nat

Init ==
    /\ OwnerInit("ready")
    /\ reader = "read"
    /\ held = None
    /\ SemanticsInit
    /\ queue = <<>>
    /\ terminal = 0
    /\ exit = "running"
    /\ frames = 0

----------------------------------------------------------------------------
(* The reader: read_inbound_frames.                                        *)

ReadRequest(request) ==
    /\ reader = "read"
    /\ frames < MaximumFrames
    /\ frames' = frames + 1
    /\ PrepareControlRequest(request)
    /\ held' = request
    /\ reader' = "enqueue"
    /\ UNCHANGED <<ownerVars, queue, terminal, exit>>

\* try_send: queued, refused by a full channel, or refused because the owner is gone.
Enqueue ==
    /\ reader = "enqueue"
    /\ \/ /\ owner # "exited"
          /\ Len(queue) < MaximumPendingFrames
          /\ queue' = Append(queue, held)
          /\ reader' = "read"
          /\ UNCHANGED terminal
       \/ /\ owner # "exited"
          /\ Len(queue) >= MaximumPendingFrames
          /\ terminal' = 3
          /\ reader' = "stop-all"
          /\ UNCHANGED queue
       \/ /\ owner = "exited"
          /\ reader' = "done"
          /\ UNCHANGED <<queue, terminal>>
    /\ held' = None
    /\ UNCHANGED <<entries, ownerVars, fingerprints, readerReserve, exit, frames>>

\* A frame that is too long or not UTF-8 (1), or that is not a request (2).
ReadBadFrame(code) ==
    /\ reader = "read"
    /\ frames < MaximumFrames
    /\ frames' = frames + 1
    /\ terminal' = code
    /\ reader' = "stop-all"
    /\ UNCHANGED <<entries, ownerVars, held, fingerprints, readerReserve, queue, exit>>

\* After it stored the terminal code the reader stops the running input and ends.
StopAll ==
    /\ reader = "stop-all"
    /\ entries' = CancelAllActive(entries)
    /\ reader' = "done"
    /\ UNCHANGED <<ownerVars, held, fingerprints, readerReserve, queue, terminal, exit, frames>>

ReadEof ==
    /\ reader = "read"
    /\ reader' = "eof"
    /\ UNCHANGED <<entries, ownerVars, held, fingerprints, readerReserve, queue,
                   terminal, exit, frames>>

\* The blocking send of Eof, which fails when the owner is gone.
SendEof ==
    /\ reader = "eof"
    /\ \/ /\ owner # "exited"
          /\ Len(queue) < MaximumPendingFrames
          /\ queue' = Append(queue, Eof)
       \/ /\ owner = "exited"
          /\ UNCHANGED queue
    /\ reader' = "done"
    /\ UNCHANGED <<entries, ownerVars, held, fingerprints, readerReserve, terminal, exit, frames>>

----------------------------------------------------------------------------
(* The owner: serve_inbound.                                               *)

Leave(reason) == owner' = "exited" /\ exit' = reason

\* The greeting; a client that is gone already ends the owner.
WriteReady ==
    /\ owner = "ready"
    /\ \/ owner' = "check" /\ UNCHANGED exit
       \/ Leave("write-failed")
    /\ UNCHANGED <<entries, ledger, ledgerReserve, current, registered, progress, response,
                   effects, releases, late, down, tombstoned, replies, readerVars, queue, terminal>>

\* The terminal check at the head of the loop.
CheckTerminal ==
    /\ owner = "check"
    /\ IF terminal = 0
       THEN owner' = "receive" /\ UNCHANGED exit
       ELSE Leave("terminal-error")
    /\ UNCHANGED <<entries, ledger, ledgerReserve, current, registered, progress, response,
                   effects, releases, late, down, tombstoned, replies, readerVars, queue, terminal>>

ReceiveRequest ==
    /\ owner = "receive"
    /\ queue # <<>>
    /\ Head(queue) # Eof
    /\ current' = Head(queue)
    /\ queue' = Tail(queue)
    /\ owner' = "recheck"
    /\ UNCHANGED <<entries, ledger, ledgerReserve, registered, progress, response,
                   effects, releases, late, down, tombstoned, replies, readerVars, terminal, exit>>

\* Mutant of ReceiverEnds: the owner does not notice that the reader is gone.
ReceiverEndsAtEof == queue # <<>> /\ Head(queue) = Eof

\* recv gives Eof, or fails because the queue is empty and the reader has ended.
ReceiverEnds ==
    \/ queue # <<>> /\ Head(queue) = Eof
    \/ queue = <<>> /\ reader = "done"

ReceiveEnd ==
    /\ owner = "receive"
    /\ ReceiverEnds
    /\ Leave("input-closed")
    /\ UNCHANGED <<entries, ledger, ledgerReserve, current, registered, progress, response,
                   effects, releases, late, down, tombstoned, replies, readerVars, queue, terminal>>

\* The second terminal check, with the request in hand.
RecheckTerminal ==
    /\ owner = "recheck"
    /\ IF terminal = 0
       THEN owner' = "handle" /\ UNCHANGED exit
       ELSE Leave("terminal-error")
    /\ UNCHANGED <<entries, ledger, ledgerReserve, current, registered, progress, response,
                   effects, releases, late, down, tombstoned, replies, readerVars, queue, terminal>>

\* handle tells serve_inbound to stop for an admitted or replayed shutdown.
IsShutdown(request, answer) ==
    request.operation = "shutdown" /\ answer.outcome \notin Refusals

\* The response is written; a failed write or a shutdown ends the owner.
Respond ==
    /\ owner = "respond"
    /\ \/ /\ replies' = replies \cup {<<current, response>>}
          /\ IF IsShutdown(current, response)
             THEN Leave("shutdown")
             ELSE owner' = "check" /\ UNCHANGED exit
       \/ /\ Leave("write-failed")
          /\ UNCHANGED replies
    /\ current' = None
    /\ response' = None
    /\ registered' = FALSE
    /\ progress' = NoProgress
    /\ UNCHANGED <<entries, ledger, ledgerReserve, effects, releases, late, down, tombstoned,
                   readerVars, queue, terminal>>

HandleRequest == HandleStep /\ UNCHANGED <<readerVars, queue, terminal, exit>>

OwnerNext ==
    \/ WriteReady \/ CheckTerminal \/ ReceiveRequest \/ ReceiveEnd \/ RecheckTerminal
    \/ HandleRequest \/ Respond

ReaderNext ==
    \/ \E request \in Requests : ReadRequest(request)
    \/ \E code \in {1, 2} : ReadBadFrame(code)
    \/ Enqueue \/ StopAll \/ ReadEof \/ SendEof

\* The owner has returned: the process ends, whatever its reader was doing.
Exited == owner = "exited" /\ UNCHANGED vars

Next == ReaderNext \/ OwnerNext \/ Exited

Spec == Init /\ [][Next]_vars

(***************************************************************************)
(* Both threads are scheduled.  The reader need not read: a client may     *)
(* keep its end open and send nothing.  A step that has read a frame goes  *)
(* on without waiting for the client.                                      *)
(***************************************************************************)
FairSpec ==
    /\ Spec
    /\ WF_vars(OwnerNext)
    /\ WF_vars(Enqueue \/ StopAll \/ SendEof)

----------------------------------------------------------------------------
InHand == IF owner \in {"recheck", "handle"} THEN <<current>> ELSE <<>>

Waiting == IF queue # <<>> /\ Last(queue) = Eof THEN Front(queue) ELSE queue

JustJudged == IF reader = "enqueue" THEN <<held>> ELSE <<>>

\* The requests the reader has judged and the owner has not, oldest first.
Pending == InHand \o Waiting \o JustJudged

\* The reader's judgement of a request (prepare_control_request) is the one the owner
\* will reach: its semantics table is the ledger with the pending requests judged in
\* order.  So a cancel applied ahead of the owner is one the owner accepts.
\* A frame the full queue turned away ends the reader and is the one exception.
ReaderAgreesWithOwner ==
    terminal # 3 /\ owner # "exited" =>
        JudgeAll(OwnerJudged, Pending)
            = [known |-> fingerprints, reserve |-> readerReserve]

\* Once the reader has ended (end of input, bad frame or full queue) the owner drains
\* what it still takes and returns: neither thread waits for the other for ever.
OwnerFollowsReader == (reader = "done") ~> (owner = "exited")
============================================================================
