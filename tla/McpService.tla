----------------------------- MODULE McpService ----------------------------
(***************************************************************************)
(* The MCP service (src/src/mcp/server.rs and src/src/mcp/desktop.rs): a   *)
(* reader thread that registers one tool call at a time and routes         *)
(* cancellations to it, and the owner, which runs the tools over the       *)
(* broker connection of McpBrokerClient.  A tool is a sequence of calls;   *)
(* stage says what the owner does when the call under way has returned.    *)
(* The consent fields, the capture directory and the text of results are   *)
(* left out: a tool may be refused before it does anything.                *)
(***************************************************************************)
EXTENDS McpBrokerClient

CONSTANT MaximumRunBatches    \* MAXIMUM_RUN_BATCHES

Tools == {"status", "connect", "disconnect", "observe", "interact", "pointer", "run",
          "authorization", "forget"}

ASSUME RunAssumption == MaximumRunBatches \in Nat \ {0} /\ None \notin Tools

\* ToolOutcome: is_error, and acceptedMayHaveOccurred of an error.
ToolOutcome == [error : BOOLEAN, accepted : BOOLEAN]

VARIABLES
    peer,        \* the service still reads requests
    active,      \* the registered tool call: reader_active
    queued,      \* the tool on its way to the owner
    queuedToken, \* its token
    tool,        \* the tool the owner runs
    stage,       \* where the owner is
    outcome,     \* what the tool is going to answer
    connected,   \* Desktop.broker is set, and session with it
    frame,       \* Desktop.frame is set
    batch,       \* batches that a run has sent
    toolMoved    \* history: an input event left during the tool call

serverVars == <<peer, active, queued, queuedToken>>

deskVars == <<tool, stage, outcome, connected, frame, batch>>

vars == <<clientVars, cancelled, signalled, serverVars, deskVars, toolMoved>>

Stages ==
    {"recv", "tool", "single", "started", "opening", "unopening", "closing", "listing", "observing",
     "interacting", "pointing", "pointed", "authorizing", "borrowed",
     "borrowing", "filling", "batch", "batching", "dropping",
     "stop", "stopping", "stopWait", "stopped", "release", "emit", "dispose", "exited"}

TypeOK ==
    /\ ClientTypeOK
    /\ peer \in BOOLEAN
    /\ active \in {"none", "queued", "running", "lost"}
    /\ queued \in Tools \cup {None}
    /\ active = "queued" <=> queued # None
    /\ queuedToken \in BOOLEAN
    /\ tool \in Tools
    /\ stage \in Stages
    /\ outcome \in ToolOutcome
    /\ connected \in BOOLEAN /\ frame \in BOOLEAN
    /\ batch \in 0..MaximumRunBatches
    /\ toolMoved \in BOOLEAN

Init ==
    /\ ClientInit
    /\ peer = TRUE /\ active = "none" /\ queued = None /\ queuedToken = FALSE
    /\ tool = "status" /\ stage = "recv"
    /\ outcome = [error |-> FALSE, accepted |-> FALSE]
    /\ connected = FALSE /\ frame = FALSE /\ batch = 0
    /\ toolMoved = FALSE

----------------------------------------------------------------------------
(* The reader thread of run_stdio.  A call that comes while another is     *)
(* registered is answered BUSY and changes nothing.                        *)

\* Mutant of RegisterCall: a call under way is not looked at.
RegisterAlways ==
    /\ peer
    /\ \E t \in Tools : queued' = t
    /\ active' = "queued"
    /\ queuedToken' = FALSE
    /\ UNCHANGED <<peer, cancelled>>

RegisterCall ==
    /\ peer /\ active = "none"
    /\ \E t \in Tools : queued' = t
    /\ active' = "queued"
    /\ queuedToken' = FALSE
    /\ UNCHANGED <<peer, cancelled>>

\* cancel of the registered call, whether the owner has it yet or not.
CancelActive ==
    /\ cancelled' = (cancelled \/ active = "running")
    /\ queuedToken' = (queuedToken \/ active = "queued")

RouteCancel ==
    /\ peer
    /\ active \in {"queued", "running"}
    /\ CancelActive
    /\ UNCHANGED <<peer, active, queued>>

\* End of input, or a frame that ends the thread: the running input is cancelled.
EndOfInput ==
    /\ peer
    /\ peer' = FALSE
    /\ CancelActive
    /\ UNCHANGED <<active, queued>>

\* A call is registered and the channel to the owner is full of other requests.
ChannelFull ==
    /\ peer /\ active = "none"
    /\ peer' = FALSE
    /\ active' = "lost"
    /\ UNCHANGED <<queued, queuedToken, cancelled>>

ServerReader ==
    /\ RegisterCall \/ RouteCancel \/ EndOfInput \/ ChannelFull
    /\ UNCHANGED <<clientVars, signalled, deskVars, toolMoved>>

Signal ==
    /\ ~signalled
    /\ signalled' = TRUE
    /\ UNCHANGED <<clientVars, cancelled, serverVars, deskVars, toolMoved>>

----------------------------------------------------------------------------
(* Ways to go on.                                                          *)

NoCall == UNCHANGED clientVars

Call(o, next) == BeginCall(o, cancelled) /\ stage' = next /\ UNCHANGED outcome

\* A broker call has returned to this stage.
Returned(s) == stage = s /\ line = "returned"

Ok == reply.result = "ok"

Finish(error, accepted) ==
    /\ stage' = "release"
    /\ outcome' = [error |-> error, accepted |-> accepted]
    /\ NoCall

FinishLikeReply == Finish(~Ok, reply.accepted)

\* stop, after which the tool answers this.
StopThen(error, accepted) ==
    /\ stage' = "stop"
    /\ outcome' = [error |-> error, accepted |-> accepted]
    /\ NoCall

\* image_result: a picture that cannot be read makes its frame untrustworthy.
ImageResult ==
    \/ frame' = reply.frame /\ Finish(FALSE, FALSE)
    \/ frame' = FALSE /\ Finish(TRUE, TRUE)

\* Broker::start: a broker that is ready, or one that lacks a feature and is stopped.
StartThen(next) ==
    /\ StartBroker
    /\ \/ stage' = next /\ UNCHANGED outcome
       \/ stage' = "stop" /\ outcome' = [error |-> TRUE, accepted |-> FALSE]

\* Mutant of RestoreUndelivered: any failed input gives the frame back.
RestoreAlways == frame' = TRUE

\* restore_undelivered_frame
RestoreUndelivered == frame' = ~reply.accepted

----------------------------------------------------------------------------
(* The owner's loop.                                                       *)

\* The owner takes a tool call and hands its token to the desktop and its broker.
Take ==
    /\ stage = "recv" /\ ~signalled
    /\ queued # None
    /\ tool' = queued
    /\ cancelled' = queuedToken
    /\ queued' = None
    /\ queuedToken' = FALSE
    /\ active' = "running"
    /\ stage' = "tool"
    /\ toolMoved' = FALSE
    /\ UNCHANGED <<clientVars, signalled, peer, outcome, connected, frame, batch>>

\* A signal cancels the registered call; an ended reader disconnects the channel.
LeaveLoop ==
    /\ stage = "recv"
    /\ signalled \/ (~peer /\ queued = None)
    /\ IF signalled THEN CancelActive ELSE UNCHANGED <<cancelled, queuedToken>>
    /\ stage' = "dispose"
    /\ UNCHANGED <<clientVars, signalled, peer, active, queued, tool, outcome, connected, frame,
                   batch, toolMoved>>

Release ==
    /\ stage = "release"
    /\ active' = "none"
    /\ stage' = "emit"
    /\ ForgetCall
    /\ UNCHANGED <<cancelled, signalled, peer, queued, queuedToken, tool, outcome,
                   connected, frame, batch, toolMoved>>

\* A closed pipe to the client ends the service.  What the tool call leaves behind (its
\* token, too) means nothing from here on.
Emit ==
    /\ stage = "emit"
    /\ stage' \in {"recv", "dispose"}
    /\ outcome' = [error |-> FALSE, accepted |-> FALSE]
    /\ tool' = "status" /\ batch' = 0 /\ cancelled' = FALSE /\ toolMoved' = FALSE
    /\ UNCHANGED <<clientVars, signalled, serverVars, connected, frame>>

Dispose ==
    /\ stage = "dispose"
    /\ frame' = FALSE /\ connected' = FALSE
    /\ stage' = IF connected THEN "stop" ELSE "exited"
    /\ UNCHANGED <<clientVars, cancelled, signalled, serverVars, tool, outcome, batch, toolMoved>>

----------------------------------------------------------------------------
(* The tools: dispatch and what it calls.                                  *)

\* A set token, bad arguments, missing consent, no capture directory, a session or a
\* frame that is not this client's latest.
Refuse ==
    /\ stage = "tool"
    /\ tool # "status" \/ cancelled
    /\ Finish(TRUE, FALSE)
    /\ UNCHANGED <<connected, frame, batch>>

Status ==
    /\ stage = "tool" /\ tool = "status" /\ ~cancelled
    /\ IF connected THEN Call("sessions", "single") ELSE Finish(FALSE, FALSE)
    /\ UNCHANGED <<connected, frame, batch>>

StatusReturned ==
    /\ Returned("single")
    /\ FinishLikeReply
    /\ UNCHANGED <<connected, frame, batch>>

\* connect; a broker that does not start is a refusal.
Connect ==
    /\ stage = "tool" /\ tool = "connect" /\ ~cancelled
    /\ ~connected
    /\ StartThen("started")
    /\ UNCHANGED <<connected, frame, batch>>

Open ==
    /\ stage = "started"
    /\ Call("open", "opening")
    /\ UNCHANGED <<connected, frame, batch>>

\* An answer without a sessionId drops the broker; a token that was set meanwhile closes
\* the session again.
OpenReturned ==
    /\ Returned("opening")
    /\ \/ ~Ok /\ StopThen(TRUE, reply.accepted) /\ UNCHANGED connected
       \/ Ok /\ stage' = "dropping" /\ outcome' = [error |-> TRUE, accepted |-> FALSE]
             /\ BeginTerminate /\ UNCHANGED connected
       \/ Ok /\ cancelled /\ Call("close", "unopening") /\ UNCHANGED connected
       \/ Ok /\ ~cancelled /\ Finish(FALSE, FALSE) /\ connected' = TRUE
    /\ UNCHANGED <<frame, batch>>

DropReturned ==
    /\ Returned("dropping")
    /\ stage' = "release"
    /\ NoCall
    /\ UNCHANGED <<outcome, connected, frame, batch>>

CloseAgainReturned ==
    /\ Returned("unopening")
    /\ StopThen(TRUE, FALSE)
    /\ UNCHANGED <<connected, frame, batch>>

Disconnect ==
    /\ stage = "tool" /\ tool = "disconnect" /\ ~cancelled
    /\ connected
    /\ Call("close", "closing")
    /\ connected' = FALSE
    /\ UNCHANGED <<frame, batch>>

CloseReturned ==
    /\ Returned("closing")
    /\ IF Ok THEN Call("sessions", "listing") /\ UNCHANGED frame
       ELSE StopThen(TRUE, reply.accepted) /\ frame' = FALSE
    /\ UNCHANGED <<connected, batch>>

\* The list of sessions must be empty.
ListReturned ==
    /\ Returned("listing")
    /\ \/ Ok /\ StopThen(FALSE, FALSE)
       \/ StopThen(TRUE, ~Ok /\ reply.accepted)
    /\ frame' = FALSE
    /\ UNCHANGED <<connected, batch>>

\* authorization: over the connection there is, or over a broker of its own, which has no
\* token.
AuthorizationOp == IF tool = "forget" THEN "forget-authorization" ELSE "authorization-status"

Authorization ==
    /\ stage = "tool" /\ tool \in {"authorization", "forget"} /\ ~cancelled
    /\ IF connected THEN Call(AuthorizationOp, "authorizing") ELSE StartThen("borrowed")
    /\ UNCHANGED <<connected, frame, batch>>

Borrow ==
    /\ stage = "borrowed"
    /\ BeginCall(AuthorizationOp, FALSE)
    /\ stage' = "borrowing"
    /\ UNCHANGED <<outcome, connected, frame, batch>>

BorrowReturned ==
    /\ Returned("borrowing")
    /\ StopThen(~Ok, reply.accepted)
    /\ frame' = (frame /\ ~(Ok /\ tool = "forget"))
    /\ UNCHANGED <<connected, batch>>

\* A forget that succeeds ends this client's session too.
AuthorizationReturned ==
    /\ Returned("authorizing")
    /\ IF Ok /\ tool = "forget"
       THEN StopThen(FALSE, FALSE) /\ connected' = FALSE /\ frame' = FALSE
       ELSE FinishLikeReply /\ UNCHANGED <<connected, frame>>
    /\ UNCHANGED batch

Observe ==
    /\ stage = "tool" /\ tool = "observe" /\ ~cancelled
    /\ connected
    /\ frame' = FALSE
    /\ Call("observe", "observing")
    /\ UNCHANGED <<connected, batch>>

ObserveReturned ==
    /\ Returned("observing")
    /\ IF Ok THEN ImageResult ELSE FinishLikeReply /\ UNCHANGED frame
    /\ UNCHANGED <<connected, batch>>

\* input: the latest frame is used up before anything is sent.
Input ==
    /\ stage = "tool" /\ tool \in {"interact", "pointer"} /\ ~cancelled
    /\ connected /\ frame
    /\ frame' = FALSE
    /\ IF tool = "interact" THEN Call("interact", "interacting")
                            ELSE Call("input-pointer", "pointing")
    /\ UNCHANGED <<connected, batch>>

InteractReturned ==
    /\ Returned("interacting")
    /\ IF Ok THEN ImageResult ELSE FinishLikeReply /\ RestoreUndelivered
    /\ UNCHANGED <<connected, batch>>

PointerReturned ==
    /\ Returned("pointing")
    /\ IF Ok THEN Call("observe", "pointed") /\ UNCHANGED frame
       ELSE FinishLikeReply /\ RestoreUndelivered
    /\ UNCHANGED <<connected, batch>>

\* Mutant of ObservationFailed: the failure of the observation is passed on.
ObservationFailedPlain == FinishLikeReply

\* OBSERVATION_FAILED_AFTER_INPUT
ObservationFailed == Finish(TRUE, TRUE)

PointerObserved ==
    /\ Returned("pointed")
    /\ IF Ok THEN ImageResult ELSE ObservationFailed /\ UNCHANGED frame
    /\ UNCHANGED <<connected, batch>>

----------------------------------------------------------------------------
(* run: batches with a frame observed before each of them.                 *)

Run ==
    /\ stage = "tool" /\ tool = "run" /\ ~cancelled
    /\ connected
    /\ frame' = FALSE
    /\ batch' = 0
    /\ Call("observe", "filling")
    /\ UNCHANGED connected

\* observe_frame; its errors are run's.
FillReturned ==
    /\ Returned("filling")
    /\ IF Ok /\ reply.frame
       THEN stage' = "batch" /\ frame' = TRUE /\ UNCHANGED outcome /\ NoCall
       ELSE Finish(TRUE, ~Ok /\ reply.accepted) /\ UNCHANGED frame
    /\ UNCHANGED <<connected, batch>>

\* The last batch, a set token or the total timeout end the loop with a summary; the
\* timeout may have passed before the first batch.
RunEnds ==
    /\ stage = "batch"
    /\ Finish(FALSE, FALSE)
    /\ UNCHANGED <<connected, frame, batch>>

SendBatch ==
    /\ stage = "batch" /\ ~cancelled
    /\ batch < MaximumRunBatches
    /\ batch' = batch + 1
    /\ Call("interact", "batching")
    /\ UNCHANGED <<connected, frame>>

\* A failed batch that may have been accepted, or stopOnError, ends the run; another
\* one is skipped and a new frame observed.
BatchReturned ==
    /\ Returned("batching")
    /\ \/ ~Ok /\ frame' = FALSE /\ Finish(FALSE, FALSE)
       \/ ~Ok /\ ~reply.accepted /\ frame' = FALSE /\ Call("observe", "filling")
       \/ /\ Ok
          /\ frame' = reply.frame
          /\ IF reply.frame
             THEN stage' = "batch" /\ UNCHANGED outcome /\ NoCall
             ELSE Call("observe", "filling")
    /\ UNCHANGED <<connected, batch>>

----------------------------------------------------------------------------
(* Broker::stop: a shutdown call, time for the child to end, terminate.    *)

Stop ==
    /\ stage = "stop"
    /\ IF closed
       THEN BeginTerminate /\ stage' = "stopped" /\ UNCHANGED outcome
       ELSE Call("shutdown", "stopping")
    /\ UNCHANGED <<connected, frame, batch>>

StopReturned ==
    /\ Returned("stopping")
    /\ stage' = "stopWait"
    /\ NoCall
    /\ UNCHANGED <<outcome, connected, frame, batch>>

\* The child has ended, or five seconds have passed.
StopWaited ==
    /\ stage = "stopWait"
    /\ BeginTerminate
    /\ stage' = "stopped"
    /\ UNCHANGED <<outcome, connected, frame, batch>>

Stopped ==
    /\ Returned("stopped")
    /\ stage' = IF active = "running" THEN "release" ELSE "exited"
    /\ NoCall
    /\ UNCHANGED <<outcome, connected, frame, batch>>

----------------------------------------------------------------------------
DeskStep ==
    \/ Refuse \/ Status \/ StatusReturned
    \/ Connect \/ Open \/ OpenReturned \/ DropReturned \/ CloseAgainReturned
    \/ Disconnect \/ CloseReturned \/ ListReturned
    \/ Authorization \/ Borrow \/ BorrowReturned \/ AuthorizationReturned
    \/ Observe \/ ObserveReturned
    \/ Input \/ InteractReturned \/ PointerReturned \/ PointerObserved
    \/ Run \/ FillReturned \/ RunEnds \/ SendBatch \/ BatchReturned
    \/ Stop \/ StopReturned \/ StopWaited \/ Stopped

Owner ==
    \/ Take \/ LeaveLoop \/ Release \/ Emit \/ Dispose
    \/ DeskStep /\ UNCHANGED <<cancelled, signalled, serverVars, tool, toolMoved>>
    \/ CallStep /\ UNCHANGED <<cancelled, signalled, serverVars, deskVars, toolMoved>>

Writer == WriterStep /\ UNCHANGED <<cancelled, signalled, serverVars, deskVars, toolMoved>>

Reader == ReaderStep /\ UNCHANGED <<cancelled, signalled, serverVars, deskVars, toolMoved>>

Child ==
    /\ ChildStep
    /\ toolMoved' = (toolMoved \/ (callMoved' /\ ~callMoved))
    /\ UNCHANGED <<cancelled, signalled, serverVars, deskVars>>

Next == ServerReader \/ Signal \/ Owner \/ Writer \/ Reader \/ Child

\* The threads of the service are scheduled and its deadlines pass; nothing is assumed
\* of the child, of the client or of signals.
Spec ==
    /\ Init /\ [][Next]_vars
    /\ WF_vars(Owner) /\ WF_vars(Writer) /\ WF_vars(Reader)

----------------------------------------------------------------------------
\* A frame that the desktop still accepts shows the screen as the inputs left it: no
\* event has left since it was observed, whichever of the tools failed meanwhile.
FrameCurrent == stage \in {"recv", "tool", "release", "emit"} /\ frame => ~moved

\* A tool that fails and says that nothing was accepted tells the truth.
ToolTruthful ==
    stage \in {"release", "emit"} /\ outcome.error /\ ~outcome.accepted => ~toolMoved

\* The tools that send one input do so.
InputTruthful == tool # "run" => ToolTruthful

\* Once the client has gone the service ends, and its broker with it.
EofReleases == ~peer ~> (stage = "exited" /\ child \in {"none", "dead"})
============================================================================
