---------------------------- MODULE BrokerOwner ----------------------------
(***************************************************************************)
(* What the owner thread of a desktop session broker does with one         *)
(* request, whichever transport brought it: Broker::handle and             *)
(* Broker::execute (src/src/desktop_session_broker.rs,                     *)
(* src/src/desktop_session_broker/interaction.rs).  The broker keeps a     *)
(* ledger from request nonces to the response first given, so that a       *)
(* repeated frame is answered from the ledger and never executed again.    *)
(*                                                                         *)
(* An input request is a sequence of writes, each a single event or the    *)
(* keys of one chord, with a check of its cancellation token, its deadline *)
(* and the session before each of them and after the last                  *)
(* (src/src/adapters/linux/desktop_input_eis.rs and the step loop of       *)
(* src/src/modules/desktop_interaction.rs).  A check and the write that    *)
(* follows are two steps: the reader thread may set the token between      *)
(* them.  An input that is cut short releases the keys and buttons it      *)
(* still holds before it answers.  What the session module decides about a *)
(* request is a choice here; module DesktopSession has it in full.         *)
(***************************************************************************)
EXTENDS InputCancellation, Integers

CONSTANTS Requests,              \* the requests that clients send
          MaximumLedgerEntries,  \* MAXIMUM_LEDGER_ENTRIES
          ReserveLimit,          \* the quota of each reserve class once the ledger is full
          MaximumEvents,         \* most events in one input request
          MaximumChord,          \* most keys of one chord, pressed or released by one write
          None                   \* no request, no response, no ledger record

InputOperations == {"input-key", "input-pointer", "interact"}

ReserveClasses == {"cancellations", "closes", "queries", "shutdowns",
                   "subscription_stops", "authorization_forgets"}

Operations == InputOperations \cup
    {"input-cancel", "close", "sessions", "authorization-status", "shutdown",
     "observe-unsubscribe", "forget-authorization", "open", "inspect",
     "observe", "observe-subscribe", "observe-next", "capture-frame"}

(***************************************************************************)
(* BrokerRequest.  "valid" is what validate answers (canonical nonces, the *)
(* contract version, the current broker epoch); "target" matters for       *)
(* input-cancel alone, "steps" for the input operations and "observation"  *)
(* (a post-input observation is asked for) for interact.  The fingerprint  *)
(* is the request's whole content, hence the record itself.                *)
(***************************************************************************)
BrokerRequest ==
    [nonce : Nonces, operation : Operations, target : Nonces, valid : BOOLEAN,
     steps : 0..MaximumEvents, observation : BOOLEAN]

ASSUME OwnerAssumption ==
    /\ Requests \subseteq BrokerRequest
    /\ MaximumEvents \in Nat
    /\ MaximumChord \in Nat \ {0}
    /\ MaximumLedgerEntries \in Nat
    /\ ReserveLimit \in [ReserveClasses -> Nat]
    /\ ReserveLimit["shutdowns"] > 0

Refusals == {"invalid-request", "nonce-conflict", "ledger-full"}

Outcomes == {"ok", "failed"} \cup CancelStatuses \cup Refusals

\* A response: its outcome, acceptedMayHaveOccurred, inputEventsSent and
\* releasesConfirmed; where there was nothing to release it counts as confirmed, as
\* for an input that succeeded and answers keysHeldAfterReturn 0.
Response == [outcome : Outcomes, accepted : BOOLEAN, events : 0..MaximumEvents,
             released : BOOLEAN]

LedgerRecord == [fingerprint : Requests, response : Response]

ASSUME NoneAssumption ==
    /\ None \notin Requests
    /\ None \notin Response
    /\ None \notin LedgerRecord

VARIABLES
    entries,        \* the cancellation registry, shared with the reader
    ledger,         \* Broker.ledger
    ledgerReserve,  \* Broker.ledger_reserve
    owner,          \* where the owner thread is
    current,        \* the request being handled
    registered,     \* the token of the running input is the registry's
    progress,       \* DispatchProgress of the running input, and its failed write
    response,       \* the response about to be recorded or written
    effects,        \* history: events of its steps that left on behalf of each nonce
    releases,       \* history: releases that left when its input was stopped
    late,           \* history: writes of its steps that left with the token already set
    down,           \* history: keys that flushed writes put down and none released
    tombstoned,     \* history: inputs whose token was set before they began
    replies         \* history: <<request, response>> pairs written to clients

ownerVars == <<ledger, ledgerReserve, owner, current, registered, progress, response,
               effects, releases, late, down, tombstoned, replies>>

HandlingStates ==
    {"handle", "execute", "checkpoint", "emit", "release", "observe", "record", "respond"}

\* Events counted as sent, keys and buttons held, and the events of a write whose
\* flush failed, which may still leave.
Progress == [sent : 0..MaximumEvents, held : 0..MaximumEvents, unflushed : 0..MaximumChord]

NoProgress == [sent |-> 0, held |-> 0, unflushed |-> 0]

OwnerTypeOK(states) ==
    /\ entries \in Registries
    /\ ledger \in [Nonces -> LedgerRecord \cup {None}]
    /\ ledgerReserve \in [ReserveClasses -> Nat]
    /\ owner \in states
    /\ current \in Requests \cup {None}
    /\ owner \in HandlingStates => current \in Requests
    /\ registered \in BOOLEAN
    /\ progress \in Progress
    /\ response \in Response \cup {None}
    /\ owner \in {"release", "record", "respond"} => response \in Response
    /\ effects \in [Nonces -> Nat]
    /\ releases \in [Nonces -> Nat]
    /\ late \in [Nonces -> Nat]
    /\ down \in [Nonces -> Nat]
    /\ tombstoned \subseteq Nonces
    /\ replies \subseteq Requests \X Response

OwnerInit(start) ==
    /\ entries = EmptyRegistry
    /\ ledger = [n \in Nonces |-> None]
    /\ ledgerReserve = [c \in ReserveClasses |-> 0]
    /\ owner = start
    /\ current = None
    /\ registered = FALSE
    /\ progress = NoProgress
    /\ response = None
    /\ effects = [n \in Nonces |-> 0]
    /\ releases = [n \in Nonces |-> 0]
    /\ late = [n \in Nonces |-> 0]
    /\ down = [n \in Nonces |-> 0]
    /\ tombstoned = {}
    /\ replies = {}

----------------------------------------------------------------------------
(***************************************************************************)
(* LedgerReserve::admit.  Below the limit everything is admitted; above it *)
(* only the operations that wind a session down, each class against a      *)
(* quota of its own.                                                       *)
(***************************************************************************)
\* The first operator is a mutant of the second: no reserve is kept for shutdown.
ReserveWithoutShutdown ==
    {"input-cancel", "close", "sessions", "authorization-status",
     "observe-unsubscribe", "forget-authorization"}

ReserveOperations ==
    {"input-cancel", "close", "sessions", "authorization-status", "shutdown",
     "observe-unsubscribe", "forget-authorization"}

ReserveClassOf ==
    [op \in ReserveOperations |->
        CASE op = "input-cancel"                          -> "cancellations"
          [] op = "close"                                 -> "closes"
          [] op \in {"sessions", "authorization-status"}  -> "queries"
          [] op = "shutdown"                              -> "shutdowns"
          [] op = "observe-unsubscribe"                   -> "subscription_stops"
          [] op = "forget-authorization"                  -> "authorization_forgets"]

Admits(reserve, request, recorded) ==
    \/ recorded < MaximumLedgerEntries
    \/ /\ request.operation \in ReserveOperations
       /\ LET class == ReserveClassOf[request.operation]
          IN  reserve[class] < ReserveLimit[class]

Admit(reserve, request, recorded) ==
    IF recorded < MaximumLedgerEntries
    THEN reserve
    ELSE [reserve EXCEPT ![ReserveClassOf[request.operation]] = @ + 1]

IsInput(request) == request.operation \in InputOperations

CancellationTarget(request) ==
    IF request.operation = "input-cancel" THEN {request.target} ELSE {}

Recorded == {n \in Nonces : ledger[n] # None}

Answer(outcome, accepted, events) ==
    [outcome |-> outcome, accepted |-> accepted, events |-> events, released |-> TRUE]

Refusal(outcome) == Answer(outcome, FALSE, 0)

\* A response that leaves the ledger as it is.
Reply(answer) ==
    /\ response' = answer
    /\ owner' = "respond"
    /\ UNCHANGED <<entries, ledger, ledgerReserve>>

Invalid ==
    /\ ~current.valid
    /\ Reply(Refusal("invalid-request"))

\* Mutant of Replay: the nonce alone decides, whatever the frame says.
ReplayByNonce ==
    /\ current.valid
    /\ ledger[current.nonce] # None
    /\ Reply(ledger[current.nonce].response)

Replay ==
    /\ current.valid
    /\ ledger[current.nonce] # None
    /\ ledger[current.nonce].fingerprint = current
    /\ Reply(ledger[current.nonce].response)

Conflict ==
    /\ current.valid
    /\ ledger[current.nonce] # None
    /\ ledger[current.nonce].fingerprint # current
    /\ Reply(Refusal("nonce-conflict"))

LedgerFull ==
    /\ current.valid
    /\ ledger[current.nonce] = None
    /\ ~Admits(ledgerReserve, current, Cardinality(Recorded))
    /\ Reply(Refusal("ledger-full"))

\* The request is new: count it, apply a cancel to its target, and execute it.
Accept ==
    /\ current.valid
    /\ ledger[current.nonce] = None
    /\ Admits(ledgerReserve, current, Cardinality(Recorded))
    /\ ledgerReserve' = Admit(ledgerReserve, current, Cardinality(Recorded))
    /\ entries' = IF CancellationTarget(current) = {}
                  THEN entries
                  ELSE RequestCancel(entries, current.target)
    /\ owner' = "execute"
    /\ UNCHANGED <<ledger, response>>

\* Broker::handle up to the call of execute.
Handle ==
    /\ owner = "handle"
    /\ Invalid \/ Replay \/ Conflict \/ LedgerFull \/ Accept
    /\ UNCHANGED <<current, registered, progress, effects, releases, late, down,
                   tombstoned, replies>>

----------------------------------------------------------------------------
\* The execution of the current request ends with this answer.
Conclude(answer) ==
    /\ response' = answer
    /\ owner' = "record"

\* execute of input-cancel: the status of the target as the registry has it now.
ExecuteCancel ==
    /\ owner = "execute"
    /\ current.operation = "input-cancel"
    /\ Conclude(Answer(Status(entries, current.target), TRUE, 0))
    /\ UNCHANGED <<entries, ledger, ledgerReserve, current, registered, progress,
                   effects, releases, late, down, tombstoned, replies>>

\* execute of the operations on sessions, which succeed or fail.  One that fails may
\* have been accepted: an open whose session existed already, a close, a capture.
ExecuteOther ==
    /\ owner = "execute"
    /\ ~IsInput(current)
    /\ current.operation # "input-cancel"
    /\ \/ Conclude(Answer("ok", TRUE, 0))
       \/ /\ current.operation \notin {"sessions", "authorization-status", "shutdown"}
          /\ \E accepted \in BOOLEAN : Conclude(Answer("failed", accepted, 0))
    /\ UNCHANGED <<entries, ledger, ledgerReserve, current, registered, progress,
                   effects, releases, late, down, tombstoned, replies>>

\* execute of interact: preflight_observation fails before prepare_input is called.
PreflightFails ==
    /\ owner = "execute"
    /\ current.operation = "interact"
    /\ current.observation
    /\ Conclude(Answer("failed", FALSE, 0))
    /\ UNCHANGED <<entries, ledger, ledgerReserve, current, registered, progress,
                   effects, releases, late, down, tombstoned, replies>>

\* execute of an input operation: take the token, then enter the session module.
BeginInput ==
    /\ owner = "execute"
    /\ IsInput(current)
    /\ entries' = PrepareInput(entries, current.nonce)
    /\ registered' = IsRegistered(entries', current.nonce)
    /\ progress' = NoProgress
    /\ tombstoned' = IF IsCancelled(entries, current.nonce)
                     THEN tombstoned \cup {current.nonce}
                     ELSE tombstoned
    /\ owner' = "checkpoint"
    /\ UNCHANGED <<ledger, ledgerReserve, current, response, effects, releases, late,
                   down, replies>>

\* What the running input reads from its token.
TokenSet == registered /\ IsCancelled(entries, current.nonce)

MoreToSend == progress.sent < current.steps

\* The input is cut short: it answers this once it has released what it holds.
CutShort(answer) ==
    /\ response' = answer
    /\ owner' = IF progress'.held = 0 /\ progress'.unflushed = 0 THEN "record" ELSE "release"

(***************************************************************************)
(* The check before every write and after the last: the token first, then  *)
(* deadline and session.  With nothing sent yet, "failed" also stands for  *)
(* a refusal by consent, by parsing or of a stale session (accepted is     *)
(* FALSE) and for a failure to start emulating (accepted is TRUE).         *)
(***************************************************************************)
Checkpoint ==
    /\ owner = "checkpoint"
    /\ UNCHANGED progress
    /\ \/ /\ TokenSet
          /\ CutShort(Answer("cancelled", progress.sent > 0, progress.sent))
       \/ /\ progress.sent = 0 \/ ~TokenSet
          /\ \E accepted \in BOOLEAN :
                /\ progress.sent > 0 => accepted
                /\ CutShort(Answer("failed", accepted, progress.sent))
       \/ /\ ~TokenSet
          /\ MoreToSend
          /\ owner' = "emit"
          /\ UNCHANGED response
       \/ /\ ~TokenSet
          /\ ~MoreToSend
          /\ IF current.operation = "interact" /\ current.observation
             THEN owner' = "observe" /\ UNCHANGED response
             ELSE Conclude(Answer("ok", TRUE, progress.sent))
    /\ UNCHANGED <<entries, ledger, ledgerReserve, current, registered,
                   effects, releases, late, down, tombstoned, replies>>

----------------------------------------------------------------------------
(***************************************************************************)
(* A write of input events is represented by what it does to the keys and  *)
(* buttons held: it puts down or releases some of them (several for a      *)
(* chord), or is a motion or a scroll and leaves them alone.  How the      *)
(* events of a request fall into writes is a choice; what a request puts   *)
(* down it also releases.                                                  *)
(***************************************************************************)
EventsOf(keys) == IF keys = 0 THEN 1 ELSE IF keys > 0 THEN keys ELSE -keys

\* Mutant of Writes: off by one, so that a key put down may be left down.
UnbalancedWrites ==
    {keys \in -MaximumChord..MaximumChord :
        /\ progress.held + keys >= 0
        /\ progress.held + keys <= current.steps - progress.sent - EventsOf(keys) + 1}

Writes ==
    {keys \in -MaximumChord..MaximumChord :
        /\ progress.held + keys >= 0
        /\ progress.held + keys <= current.steps - progress.sent - EventsOf(keys)}

\* So many events of the running input's own steps reach the desktop in one write.
EventsLeave(count) ==
    /\ effects' = [effects EXCEPT ![current.nonce] = @ + count]
    /\ late' = IF count > 0 /\ TokenSet
               THEN [late EXCEPT ![current.nonce] = @ + 1]
               ELSE late

\* emit: the events of a write are flushed, and counted after that.
Emit ==
    /\ owner = "emit"
    /\ \E keys \in Writes :
          /\ EventsLeave(EventsOf(keys))
          /\ down' = [down EXCEPT ![current.nonce] = @ + keys]
          /\ progress' = [progress EXCEPT !.sent = @ + EventsOf(keys), !.held = @ + keys]
    /\ owner' = "checkpoint"
    /\ UNCHANGED <<entries, ledger, ledgerReserve, current, registered, response,
                   releases, tombstoned, replies>>

\* Mutant of FlushFailure: only flushed events count as possibly accepted.
FlushFailureSilent(counted) == Answer("failed", progress.sent > 0, counted)

\* What an input admits to when the flush of a write failed: after_dispatch.
FlushFailure(counted) == Answer("failed", TRUE, counted)

(***************************************************************************)
(* emit: the flush fails, and some events of the write may have left or be *)
(* in the buffer of the connection.  They are not counted as sent and keys *)
(* put down are not held.  An absolute pointer event of interact is        *)
(* counted, and its button held, before the flush.                         *)
(***************************************************************************)
EmitFails ==
    /\ owner = "emit"
    /\ \E keys \in Writes :
          \/ /\ progress' = [progress EXCEPT !.unflushed = EventsOf(keys)]
             /\ CutShort(FlushFailure(progress.sent))
          \/ /\ current.operation = "interact"
             /\ EventsOf(keys) = 1
             /\ progress' = [progress EXCEPT !.unflushed = 1,
                                             !.held = IF keys = 1 THEN @ + 1 ELSE @]
             /\ CutShort(FlushFailure(progress.sent + 1))
    /\ UNCHANGED <<entries, ledger, ledgerReserve, current, registered, effects,
                   releases, late, down, tombstoned, replies>>

\* So many releases reach the desktop; a key that is up is not affected by one.
ReleasesLeave(count) ==
    /\ releases' = [releases EXCEPT ![current.nonce] = @ + count]
    /\ down' = [down EXCEPT ![current.nonce] = IF @ > count THEN @ - count ELSE 0]

(***************************************************************************)
(* best_effort_stop and best_effort_pointer_stop, and the end of           *)
(* send_frame_point: an input that is cut short releases what it holds,    *)
(* whatever its token says.  A device that is gone is neutral by itself    *)
(* and gets nothing.  When the flush fails, some of the releases may have  *)
(* left.  Events of a failed write may leave until now.  The progress is   *)
(* local to the input and ends with it.                                    *)
(***************************************************************************)
Release ==
    /\ owner = "release"
    /\ \E count \in 0..progress.unflushed : EventsLeave(count)
    /\ \/ /\ down' = [down EXCEPT ![current.nonce] = 0]
          /\ UNCHANGED <<releases, response>>
       \/ /\ ReleasesLeave(progress.held)
          /\ UNCHANGED response
       \/ /\ progress.held > 0
          /\ \E count \in 0..progress.held : ReleasesLeave(count)
          /\ response' = [response EXCEPT !.released = FALSE]
    /\ progress' = NoProgress
    /\ owner' = "record"
    /\ UNCHANGED <<entries, ledger, ledgerReserve, current, registered, tombstoned, replies>>

----------------------------------------------------------------------------
\* The observation after the last step, skipped when the token is set by now.
PostObserve ==
    /\ owner = "observe"
    /\ \E outcome \in IF TokenSet THEN {"cancelled"} ELSE {"ok", "failed"} :
          Conclude(Answer(outcome, TRUE, progress.sent))
    /\ UNCHANGED <<entries, ledger, ledgerReserve, current, registered, progress,
                   effects, releases, late, down, tombstoned, replies>>

\* The end of Broker::handle: settle the token of an input, record the response.
Record ==
    /\ owner = "record"
    /\ entries' = IF IsInput(current)
                  THEN Finish(entries, current.nonce, response.outcome = "cancelled")
                  ELSE entries
    /\ ledger' = [ledger EXCEPT ![current.nonce] =
                    [fingerprint |-> current, response |-> response]]
    /\ owner' = "respond"
    /\ UNCHANGED <<ledgerReserve, current, registered, progress, response,
                   effects, releases, late, down, tombstoned, replies>>

\* The steps of the owner inside Broker::handle.
HandleStep ==
    \/ Handle \/ ExecuteCancel \/ ExecuteOther \/ PreflightFails \/ BeginInput
    \/ Checkpoint \/ Emit \/ EmitFails \/ Release \/ PostObserve \/ Record
============================================================================
