-------------------------- MODULE BrokerOwnerProofs -------------------------
(***************************************************************************)
(* What holds of the owner of a desktop session broker on either           *)
(* transport, for any set of requests and any sizes of ledger and          *)
(* registry.  The argument rests on five facts: a nonce has no events      *)
(* before its own execution; a set token stays set while its input runs;   *)
(* an entry of the registry that an input has seen is active exactly while *)
(* that input runs; a cancel that a reader accepted has left its token     *)
(* wherever its target may still run; and the quota of shutdowns is        *)
(* untouched until the one shutdown that ends the broker.                  *)
(*                                                                         *)
(* One lemma for each kind of step says what it keeps: a step of           *)
(* Broker::handle, a cancel by a reader, a move of the owner between two   *)
(* requests, and the answer to a request.  A transport's proof sorts its   *)
(* actions into these kinds.                                               *)
(*                                                                         *)
(* The last part is about the line of requests that a reader has judged    *)
(* and the owner has not: judged in turn, they lead from the ledger to the *)
(* reader's table.  A request that joins the line and one that leaves it   *)
(* keep this, by induction on the line (the least place where two          *)
(* judgements of it differ).                                               *)
(***************************************************************************)
EXTENDS RequestSemantics, FiniteSetTheorems, SequenceTheorems, WellFoundedInduction,
        TLAPS

Input == {"checkpoint", "emit", "observe"}

Running == Input \cup {"release", "record"}

Executing == Running \cup {"execute"}

\* A response is recorded once, for a nonce that had none, and written from the ledger.
LedgerInv ==
    /\ owner \in Executing => ledger[current.nonce] = None
    /\ owner \in Input \cup {"release"} => IsInput(current)
    /\ owner \in {"release", "record"} => response.outcome \notin Refusals
    /\ \A n \in Recorded : ledger[n].response.outcome \notin Refusals
    /\ owner = "respond" =>
          \/ response.outcome \in Refusals
          \/ ledger[current.nonce] = [fingerprint |-> current, response |-> response]

\* Of a nonce that has not begun nothing has left.
Unbegun(n) == effects[n] = 0 /\ releases[n] = 0 /\ late[n] = 0 /\ down[n] = 0

\* The running input counts what it sent and holds what it put down, and it holds no
\* more than the rest of its steps can release.
Counted(n) ==
    /\ effects[n] = progress.sent /\ releases[n] = 0 /\ down[n] = progress.held
    /\ progress.held <= progress.sent /\ progress.held + progress.sent <= current.steps
    /\ progress.unflushed = 0

\* An input that was cut short holds every key that is down, and holds no key that its
\* response does not count.
Stopping(n) ==
    /\ response.accepted
    /\ effects[n] <= response.events /\ response.events <= effects[n] + 1
    /\ releases[n] = 0
    /\ down[n] <= progress.held /\ progress.held <= response.events

\* What the response of an execution says of what happened.
Concluded(n) ==
    /\ Abstract!Honest(response, effects[n], releases[n])
    /\ response.released => down[n] = 0

\* Events happen during the execution of their nonce, and are counted.
EffectInv ==
    /\ \A n \in Nonces :
          ledger[n] = None /\ ~(owner \in Running /\ current.nonce = n) => Unbegun(n)
    /\ owner \in Input => Counted(current.nonce)
    /\ owner = "emit" => progress.sent < current.steps
    /\ owner = "observe" => progress.sent = current.steps
    /\ owner = "release" => Stopping(current.nonce)
    /\ owner = "record" => Concluded(current.nonce)

\* A token that is set stays set, and the running input finds it at its next check.
TokenInv ==
    /\ \A n \in Nonces : entries[n].requested => entries[n].state # "absent"
    /\ owner = "checkpoint" /\ (late[current.nonce] # 0 \/ current.nonce \in tombstoned) =>
          TokenSet
    /\ owner = "emit" => late[current.nonce] = 0 /\ current.nonce \notin tombstoned
    /\ owner = "release" =>
          /\ progress.unflushed > 0 => late[current.nonce] = 0
          /\ current.nonce \notin tombstoned
    /\ \A n \in tombstoned : ledger[n] # None \/ (owner \in Running /\ current.nonce = n)

\* What a cancel response with this outcome says of the record of its target.
Truthful(outcome, target) ==
    /\ outcome # "cancellation-requested"
    /\ outcome = "cancelled" => target # None /\ target.response.outcome = "cancelled"
    /\ outcome = "too-late" => target # None /\ target.response.outcome # "cancelled"

\* An input that has begun is either running and active, or settled as recorded.
StatusInv ==
    /\ \A n \in Nonces :
          /\ ledger[n] = None => entries[n].state \in {"absent", "active"}
          /\ entries[n].seen =>
                \/ /\ owner \in Running /\ current.nonce = n /\ IsInput(current)
                   /\ entries[n].state = "active"
                \/ /\ ledger[n] # None
                   /\ entries[n].state \in {"completed", "cancelled"}
                   /\ entries[n].state = "cancelled"
                         <=> ledger[n].response.outcome = "cancelled"
    /\ owner = "record" /\ current.operation = "input-cancel" =>
          Truthful(response.outcome, ledger[current.target])

\* A cancel that the readers accepted has set the token of its target, unless the
\* target is settled, or the registry has no room for it now and ever after.
HeardInv ==
    /\ \A n \in Nonces :
          fingerprints[n] # None =>
              \A m \in CancellationTarget(fingerprints[n]) :
                  \/ entries[m].requested
                  \/ ledger[m] # None
                  \/ entries[m].state = "absent" /\ ~HasRoom(entries)
    /\ owner \in Input /\ registered => entries[current.nonce].state # "absent"

\* The quota of shutdowns is only drawn on by the shutdown that ends the broker; "over"
\* are the states of an owner that takes no more requests.
ShutdownInv(over) ==
    /\ ledgerReserve["shutdowns"] > 0 =>
          \/ owner \in over
          \/ /\ owner \in {"execute", "record", "respond"}
             /\ current.operation = "shutdown"
             /\ owner = "respond" => response.outcome \notin Refusals
    /\ owner = "respond" /\ current.operation = "shutdown" =>
          response.outcome # "ledger-full"

\* The types of what the owner works on, wherever it is.
OwnerTypes == OwnerTypeOK({owner})

OwnerInv ==
    /\ OwnerTypes
    /\ LedgerInv
    /\ EffectInv
    /\ TokenInv
    /\ CancelStopsInput
    /\ StatusInv
    /\ CancelStatusTruthful

\* What the owner and the readers keep together.
SharedInv(over) ==
    /\ OwnerInv
    /\ SemanticsTypeOK
    /\ HeardInv
    /\ ShutdownInv(over)
    /\ ShutdownAlwaysAdmitted

----------------------------------------------------------------------------
\* What cancels do to a registry: tokens are set, tombstones inserted, and nothing
\* else changes.
CancelsOnly(e, f) ==
    /\ f \in Registries
    /\ \A n \in Nonces :
          /\ f[n].seen => e[n].seen
          /\ e[n].requested => f[n].requested
          /\ e[n].state # "absent" => f[n].state = e[n].state
          /\ e[n].state = "absent" => f[n].state \in {"absent", "active"}
          /\ f[n].requested => e[n].requested \/ f[n].state # "absent"


\* The fields of a request that is sent.
LEMMA RequestFacts ==
    ASSUME NEW r \in Requests
    PROVE  /\ r.nonce \in Nonces /\ r.target \in Nonces
           /\ r.operation \in Operations /\ r.steps \in 0..MaximumEvents
BY OwnerAssumption DEF BrokerRequest

\* A registry left as it is.
LEMMA NoCancel ==
    ASSUME NEW e \in Registries
    PROVE  CancelsOnly(e, e)
BY DEF CancelsOnly, Registries, CancellationEntry, FinalStates

\* request_cancel sets a token or inserts a tombstone, and does no more.
LEMMA RequestCancelOnly ==
    ASSUME NEW e \in Registries, NEW m \in Nonces
    PROVE  CancelsOnly(e, RequestCancel(e, m))
<1> USE DEF Registries, CancellationEntry, FinalStates
<1>1. CASE e[m].state # "absent"
  <2> DEFINE f == [e EXCEPT ![m].requested = @ \/ e[m].state = "active"]
  <2>1. RequestCancel(e, m) = f
    BY <1>1 DEF RequestCancel
  <2>2. /\ f[m].state = e[m].state /\ f[m].seen = e[m].seen
        /\ f[m].requested = (e[m].requested \/ e[m].state = "active")
        /\ \A n \in Nonces \ {m} : f[n] = e[n]
    OBVIOUS
  <2>3. (e[m].requested \/ e[m].state = "active") \in BOOLEAN
    OBVIOUS
  <2>4. f \in Registries
    BY <2>3
  <2> HIDE DEF f
  <2> QED
    BY <1>1, <2>1, <2>2, <2>4 DEF CancelsOnly
<1>2. CASE e[m].state = "absent"
  <2>1. CASE HasRoom(e)
    <3>1. RequestCancel(e, m) =
             [e EXCEPT ![m] = [state |-> "active", seen |-> FALSE, requested |-> TRUE]]
      BY <1>2, <2>1 DEF RequestCancel
    <3> QED
      BY <1>2, <3>1 DEF CancelsOnly
  <2>2. CASE ~HasRoom(e)
    BY <1>2, <2>2, NoCancel DEF RequestCancel
  <2> QED
    BY <2>1, <2>2
<1> QED
  BY <1>1, <1>2

\* prepare_input marks its own entry as seen, and leaves states and tokens alone.
LEMMA PrepareInputOnly ==
    ASSUME NEW e \in Registries, NEW m \in Nonces
    PROVE  /\ PrepareInput(e, m) \in Registries
           /\ \A n \in Nonces \ {m} : PrepareInput(e, m)[n] = e[n]
           /\ PrepareInput(e, m)[m].state \in {"absent", "active", e[m].state}
           /\ e[m].state # "absent" => PrepareInput(e, m)[m].state = e[m].state
           /\ PrepareInput(e, m)[m].state = "absent" => PrepareInput(e, m)[m] = e[m]
<1> USE DEF Registries, CancellationEntry, FinalStates
<1>1. CASE e[m].state # "absent"
  <2>1. PrepareInput(e, m) = [e EXCEPT ![m].seen = TRUE]
    BY <1>1 DEF PrepareInput
  <2> QED
    BY <1>1, <2>1
<1>2. CASE e[m].state = "absent" /\ HasRoom(e)
  <2>1. PrepareInput(e, m) =
           [e EXCEPT ![m] = [state |-> "active", seen |-> TRUE, requested |-> FALSE]]
    BY <1>2 DEF PrepareInput
  <2> QED
    BY <1>2, <2>1
<1>3. CASE e[m].state = "absent" /\ ~HasRoom(e)
  BY <1>3 DEF PrepareInput
<1> QED
  BY <1>1, <1>2, <1>3

\* cancel_all_active sets tokens, and does no more.
LEMMA CancelAllActiveOnly ==
    ASSUME NEW e \in Registries
    PROVE  CancelsOnly(e, CancelAllActive(e))
BY DEF CancelsOnly, CancelAllActive, Registries, CancellationEntry, FinalStates

\* A write has events, no more than a chord, and puts down no more keys than it has events.
LEMMA EventsOfFacts ==
    ASSUME NEW keys \in -MaximumChord..MaximumChord
    PROVE  EventsOf(keys) \in 1..MaximumChord /\ keys <= EventsOf(keys)
BY OwnerAssumption DEF EventsOf

\* Releases that leave take as many keys up, and none twice.
LEMMA ReleasesFacts ==
    ASSUME releases \in [Nonces -> Nat], down \in [Nonces -> Nat],
           current.nonce \in Nonces, NEW count \in Nat, ReleasesLeave(count)
    PROVE  /\ releases' = [releases EXCEPT ![current.nonce] = releases[current.nonce] + count]
           /\ \A n \in Nonces \ {current.nonce} : down'[n] = down[n]
           /\ down' \in [Nonces -> Nat]
           /\ down[current.nonce] <= count => down'[current.nonce] = 0
<1> DEFINE left == IF down[current.nonce] > count THEN down[current.nonce] - count ELSE 0
<1>1. left \in Nat /\ (down[current.nonce] <= count => left = 0)
  OBVIOUS
<1>2. down' = [down EXCEPT ![current.nonce] = left]
  BY DEF ReleasesLeave
<1> HIDE DEF left
<1> QED
  BY <1>1, <1>2 DEF ReleasesLeave

\* Release in parts: what it does with the events of a failed write, with the keys held,
\* and what it leaves alone.
LEMMA ReleaseParts ==
    ASSUME Release, progress \in Progress, current.nonce \in Nonces,
           releases \in [Nonces -> Nat], down \in [Nonces -> Nat]
    PROVE  /\ owner = "release" /\ owner' = "record" /\ progress' = NoProgress
           /\ UNCHANGED <<entries, ledger, ledgerReserve, current, registered, tombstoned,
                          replies>>
           /\ \E count \in 0..progress.unflushed : EventsLeave(count)
           /\ \E count \in 0..progress.held :
                 releases' = [releases EXCEPT ![current.nonce] = releases[current.nonce] + count]
           /\ down' \in [Nonces -> Nat]
           /\ \A n \in Nonces \ {current.nonce} : down'[n] = down[n]
           /\ \/ /\ response' = response
                 /\ down[current.nonce] <= progress.held => down'[current.nonce] = 0
              \/ response' = [response EXCEPT !.released = FALSE]
<1>1. progress.held \in Nat /\ 0 \in 0..progress.held
  BY OwnerAssumption DEF Progress
<1>2. \/ down' = [down EXCEPT ![current.nonce] = 0] /\ UNCHANGED <<releases, response>>
      \/ ReleasesLeave(progress.held) /\ UNCHANGED response
      \/ \E count \in 0..progress.held :
            ReleasesLeave(count) /\ response' = [response EXCEPT !.released = FALSE]
  BY Zenon DEF Release
<1>3. /\ \E count \in 0..progress.held :
            releases' = [releases EXCEPT ![current.nonce] = releases[current.nonce] + count]
      /\ down' \in [Nonces -> Nat]
      /\ \A n \in Nonces \ {current.nonce} : down'[n] = down[n]
      /\ \/ /\ response' = response
            /\ down[current.nonce] <= progress.held => down'[current.nonce] = 0
         \/ response' = [response EXCEPT !.released = FALSE]
  <2>1. CASE down' = [down EXCEPT ![current.nonce] = 0] /\ UNCHANGED <<releases, response>>
    <3>1. releases' = [releases EXCEPT ![current.nonce] = releases[current.nonce] + 0]
      BY <2>1
    <3> QED
      BY <1>1, <2>1, <3>1
  <2>2. CASE ReleasesLeave(progress.held) /\ UNCHANGED response
    BY <1>1, <2>2, ReleasesFacts
  <2>3. ASSUME NEW count \in 0..progress.held, ReleasesLeave(count),
               response' = [response EXCEPT !.released = FALSE]
        PROVE  /\ \E c \in 0..progress.held :
                     releases' = [releases EXCEPT ![current.nonce] =
                                      releases[current.nonce] + c]
               /\ down' \in [Nonces -> Nat]
               /\ \A n \in Nonces \ {current.nonce} : down'[n] = down[n]
    BY <1>1, <2>3, ReleasesFacts
  <2> QED
    BY <1>2, <2>1, <2>2, <2>3
<1> QED
  BY <1>3, Zenon DEF Release

\* Every step keeps the ledger's discipline.
LEMMA LedgerStep ==
    ASSUME OwnerInv, HandleStep PROVE LedgerInv'
<1> USE DEF OwnerInv, OwnerTypes, OwnerTypeOK, LedgerInv, Input, Running, Executing,
      HandlingStates, Recorded
<1>1. CASE Handle
  <2>1. CASE Invalid
    BY <1>1, <2>1 DEF Handle, Invalid, Reply, Refusal, Answer, Refusals
  <2>2. CASE Replay
    BY <1>1, <2>2, RequestFacts DEF Handle, Replay, Reply, LedgerRecord, Recorded
  <2>3. CASE Conflict
    BY <1>1, <2>3 DEF Handle, Conflict, Reply, Refusal, Answer, Refusals
  <2>4. CASE LedgerFull
    BY <1>1, <2>4 DEF Handle, LedgerFull, Reply, Refusal, Answer, Refusals
  <2>5. CASE Accept
    BY <1>1, <2>5 DEF Handle, Accept
  <2> QED
    BY <1>1, <2>1, <2>2, <2>3, <2>4, <2>5 DEF Handle
<1>2. CASE ExecuteCancel
  BY <1>2 DEF ExecuteCancel, Conclude, Answer, Status, Refusals
<1>3. CASE ExecuteOther
  BY <1>3 DEF ExecuteOther, Conclude, Answer, Refusals
<1>4. CASE PreflightFails
  BY <1>4 DEF PreflightFails, Conclude, Answer, Refusals
<1>5. CASE BeginInput
  BY <1>5 DEF BeginInput
<1>6. CASE Checkpoint
  BY <1>6 DEF Checkpoint, Conclude, CutShort, Answer, Refusals
<1>7. CASE Emit
  BY <1>7 DEF Emit, EventsLeave
<1>8. CASE EmitFails
  BY <1>8 DEF EmitFails, FlushFailure, CutShort, Answer, Refusals
<1>9. CASE PostObserve
  BY <1>9 DEF PostObserve, Conclude, Answer, Refusals
<1>10. CASE Record
  <2>1. current.nonce \in Nonces
    BY <1>10, RequestFacts DEF Record
  <2> QED
    BY <1>10, <2>1 DEF Record
<1>11. CASE Release
  BY <1>11 DEF Release, Response
<1> HIDE DEF OwnerInv, LedgerInv
<1> QED
  BY <1>1, <1>2, <1>3, <1>4, <1>5, <1>6, <1>7, <1>8, <1>9, <1>10, <1>11 DEF HandleStep

\* Every step keeps events within the execution of their nonce.
LEMMA EffectStep ==
    ASSUME OwnerInv, HandleStep PROVE EffectInv'
<1> USE OwnerAssumption, NoneAssumption DEF OwnerInv, OwnerTypes, OwnerTypeOK, LedgerInv,
      EffectInv, Unbegun, Counted, Stopping, Concluded, Input, Running,
      Executing, HandlingStates, Abstract!Honest
<1>1. CASE Handle
  <2>1. CASE Invalid
    BY <1>1, <2>1 DEF Handle, Invalid, Reply, Refusal, Answer, Refusals
  <2>2. CASE Replay
    BY <1>1, <2>2 DEF Handle, Replay, Reply
  <2>3. CASE Conflict
    BY <1>1, <2>3 DEF Handle, Conflict, Reply, Refusal, Answer, Refusals
  <2>4. CASE LedgerFull
    BY <1>1, <2>4 DEF Handle, LedgerFull, Reply, Refusal, Answer, Refusals
  <2>5. CASE Accept
    BY <1>1, <2>5 DEF Handle, Accept
  <2> QED
    BY <1>1, <2>1, <2>2, <2>3, <2>4, <2>5 DEF Handle
<1>2. CASE ExecuteCancel
  <2>1. current.nonce \in Nonces
    BY <1>2, RequestFacts DEF ExecuteCancel
  <2> QED
    BY <1>2, <2>1 DEF ExecuteCancel, Conclude, Answer
<1>3. CASE ExecuteOther
  <2>1. current.nonce \in Nonces
    BY <1>3, RequestFacts DEF ExecuteOther
  <2> QED
    BY <1>3, <2>1 DEF ExecuteOther, Conclude, Answer
<1>4. CASE PreflightFails
  <2>1. current.nonce \in Nonces
    BY <1>4, RequestFacts DEF PreflightFails
  <2> QED
    BY <1>4, <2>1 DEF PreflightFails, Conclude, Answer
<1>5. CASE BeginInput
  <2>1. current.nonce \in Nonces
    BY <1>5, RequestFacts DEF BeginInput
  <2> QED
    BY <1>5, <2>1, RequestFacts DEF BeginInput, IsInput, NoProgress
<1>6. CASE Checkpoint
  <2> DEFINE sent == progress.sent
  <2>1. /\ current.nonce \in Nonces /\ effects[current.nonce] = sent /\ sent \in Nat
        /\ progress.held \in Nat /\ current.steps \in Nat
    BY <1>6, RequestFacts DEF Checkpoint, Progress
  <2>2. UNCHANGED <<ledger, current, progress, effects, releases, late, down>>
    BY <1>6 DEF Checkpoint
  <2>3. owner' \in {"emit", "observe", "release", "record"}
    BY <1>6 DEF Checkpoint, Conclude, CutShort
  <2>4. \A n \in Nonces :
           ledger'[n] = None /\ ~(owner' \in Running /\ current'.nonce = n) => Unbegun(n)'
    BY <1>6, <2>2, <2>3 DEF Checkpoint
  <2>5. owner' = "emit" => progress'.sent < current'.steps
    BY <1>6, <2>2 DEF Checkpoint, Conclude, CutShort, MoreToSend
  <2>6. owner' = "observe" => progress'.sent = current'.steps
    BY <1>6, <2>1, <2>2 DEF Checkpoint, Conclude, CutShort, MoreToSend
  <2>7. CASE owner' \in {"emit", "observe"}
    BY <1>6, <2>2, <2>4, <2>5, <2>6, <2>7 DEF Checkpoint
  <2>8. CASE owner' \in {"release", "record"}
    <3>1. /\ response'.events = sent
          /\ sent > 0 => response'.accepted
      <4>1. ASSUME response' = Answer("cancelled", sent > 0, sent)
            PROVE  response'.events = sent /\ (sent > 0 => response'.accepted)
        BY <4>1 DEF Answer
      <4>2. ASSUME NEW accepted \in BOOLEAN, sent > 0 => accepted,
                   response' = Answer("failed", accepted, sent)
            PROVE  response'.events = sent /\ (sent > 0 => response'.accepted)
        BY <4>2 DEF Answer
      <4>3. ASSUME response' = Answer("ok", TRUE, sent)
            PROVE  response'.events = sent /\ (sent > 0 => response'.accepted)
        BY <4>3 DEF Answer
      <4>4. \/ response' = Answer("cancelled", sent > 0, sent)
            \/ \E accepted \in BOOLEAN : /\ sent > 0 => accepted
                                         /\ response' = Answer("failed", accepted, sent)
            \/ response' = Answer("ok", TRUE, sent)
        <5>1. owner' # "emit" /\ owner' # "observe"
          BY <2>8
        <5> QED
          BY <1>6, <5>1, Zenon DEF Checkpoint, Conclude, CutShort
      <4> QED
        BY <4>1, <4>2, <4>3, <4>4, Zenon
    <3>2. owner' = "release" => progress.held > 0
      BY <1>6, <2>1, <2>2, <2>8 DEF Checkpoint, Conclude, CutShort
    <3>3. owner' = "record" => progress.held = 0
      <4>1. progress.held + sent <= current.steps
        BY <1>6 DEF Checkpoint
      <4>2. ASSUME owner' = "record", ~MoreToSend PROVE progress.held = 0
        BY <2>1, <4>1, <4>2 DEF MoreToSend
      <4>3. ASSUME NEW answer, CutShort(answer), owner' = "record"
            PROVE  progress.held = 0
        BY <2>2, <4>3 DEF CutShort
      <4>4. owner' = "record" => ~MoreToSend \/ \E answer : CutShort(answer)
        BY <1>6, Zenon DEF Checkpoint
      <4> QED
        BY <4>2, <4>3, <4>4
    <3> HIDE DEF sent
    <3>4. /\ releases[current.nonce] = 0 /\ down[current.nonce] = progress.held
          /\ progress.held <= sent
      BY <1>6 DEF Checkpoint, sent
    <3>5. owner' = "release" => Stopping(current.nonce)'
      BY <2>1, <2>2, <3>1, <3>2, <3>4
    <3>6. owner' = "record" => Concluded(current.nonce)'
      BY <2>1, <2>2, <3>1, <3>3, <3>4
    <3> QED
      BY <2>4, <2>8, <3>5, <3>6
  <2> QED
    BY <2>3, <2>7, <2>8
<1>7. CASE Emit
  <2>1. current.nonce \in Nonces /\ current.steps \in Nat
    BY <1>7, RequestFacts DEF Emit
  <2>2. progress.sent \in Nat /\ progress.held \in Nat
    BY DEF Progress
  <2>3. PICK keys \in Writes :
           /\ EventsLeave(EventsOf(keys))
           /\ down' = [down EXCEPT ![current.nonce] = @ + keys]
           /\ progress' = [progress EXCEPT !.sent = @ + EventsOf(keys), !.held = @ + keys]
    BY <1>7 DEF Emit
  <2>4. /\ keys \in Int /\ progress.held + keys >= 0
        /\ progress.held + keys <= current.steps - progress.sent - EventsOf(keys)
        /\ EventsOf(keys) \in Nat /\ keys <= EventsOf(keys)
    BY <2>3, EventsOfFacts, OwnerAssumption DEF Writes
  <2>5. /\ progress'.sent = progress.sent + EventsOf(keys)
        /\ progress'.held = progress.held + keys
        /\ progress'.unflushed = progress.unflushed
    BY <2>3 DEF Progress
  <2>6. /\ effects' = [effects EXCEPT ![current.nonce] = @ + EventsOf(keys)]
        /\ \A n \in Nonces \ {current.nonce} : late'[n] = late[n]
    BY <2>1, <2>3 DEF EventsLeave
  <2>7. owner = "emit" /\ owner' = "checkpoint" /\ UNCHANGED <<ledger, current, releases>>
    BY <1>7 DEF Emit
  <2>8. Counted(current.nonce)'
    BY <2>1, <2>2, <2>3, <2>4, <2>5, <2>6, <2>7
  <2> HIDE DEF Counted
  <2> QED
    BY <2>1, <2>3, <2>6, <2>7, <2>8
<1>8. CASE EmitFails
  <2>1. current.nonce \in Nonces /\ progress.sent \in Nat /\ progress.held \in Nat
    BY <1>8, RequestFacts DEF EmitFails, Progress
  <2>2. PICK keys \in Writes :
          \/ /\ progress' = [progress EXCEPT !.unflushed = EventsOf(keys)]
             /\ CutShort(FlushFailure(progress.sent))
          \/ /\ current.operation = "interact"
             /\ EventsOf(keys) = 1
             /\ progress' = [progress EXCEPT !.unflushed = 1,
                                             !.held = IF keys = 1 THEN @ + 1 ELSE @]
             /\ CutShort(FlushFailure(progress.sent + 1))
    BY <1>8 DEF EmitFails
  <2>3. EventsOf(keys) # 0
    BY <2>2, EventsOfFacts, OwnerAssumption DEF Writes
  <2>4. progress'.unflushed # 0 /\ owner' = "release"
    BY <2>2, <2>3 DEF CutShort, Progress
  <2>5. /\ owner = "emit" /\ UNCHANGED <<ledger, current, effects, releases, late, down>>
    BY <1>8 DEF EmitFails
  <2>6. /\ effects[current.nonce] = progress.sent /\ releases[current.nonce] = 0
        /\ down[current.nonce] = progress.held /\ progress.held <= progress.sent
    BY <2>5
  <2>7. Stopping(current.nonce)'
    <3>1. CASE /\ progress' = [progress EXCEPT !.unflushed = EventsOf(keys)]
               /\ CutShort(FlushFailure(progress.sent))
      <4>1. /\ response'.accepted /\ response'.events = progress.sent
            /\ progress'.held = progress.held
        BY <3>1 DEF CutShort, FlushFailure, Answer, Progress
      <4> QED
        BY <2>1, <2>5, <2>6, <4>1
    <3>2. CASE /\ progress' = [progress EXCEPT !.unflushed = 1,
                                               !.held = IF keys = 1 THEN @ + 1 ELSE @]
               /\ CutShort(FlushFailure(progress.sent + 1))
      <4>1. /\ response'.accepted /\ response'.events = progress.sent + 1
            /\ progress'.held \in {progress.held, progress.held + 1}
        BY <3>2 DEF CutShort, FlushFailure, Answer, Progress
      <4> QED
        BY <2>1, <2>5, <2>6, <4>1
    <3> QED
      BY <2>2, <3>1, <3>2
  <2> HIDE DEF Stopping
  <2> QED
    BY <2>4, <2>5, <2>7
<1>9. CASE PostObserve
  <2>1. current.nonce \in Nonces
    BY <1>9, RequestFacts DEF PostObserve
  <2> QED
    BY <1>9, <2>1 DEF PostObserve, Conclude, Answer, Progress
<1>10. CASE Record
  <2>1. current.nonce \in Nonces
    BY <1>10, RequestFacts DEF Record
  <2> QED
    BY <1>10, <2>1 DEF Record, LedgerRecord
<1>11. CASE Release
  <2>1. owner = "release" /\ current.nonce \in Nonces
    BY <1>11, RequestFacts DEF Release
  <2>2. /\ owner' = "record" /\ UNCHANGED <<ledger, current>>
        /\ \A n \in Nonces \ {current.nonce} : down'[n] = down[n]
    BY <1>11, <2>1, ReleaseParts
  <2>3. PICK count \in 0..progress.unflushed : EventsLeave(count)
    BY <1>11, <2>1, ReleaseParts
  <2>4. PICK freed \in 0..progress.held :
           releases' = [releases EXCEPT ![current.nonce] = releases[current.nonce] + freed]
    BY <1>11, <2>1, ReleaseParts
  <2>5. \/ /\ response' = response
           /\ down[current.nonce] <= progress.held => down'[current.nonce] = 0
        \/ response' = [response EXCEPT !.released = FALSE]
    <3>1. progress \in Progress /\ releases \in [Nonces -> Nat] /\ down \in [Nonces -> Nat]
      OBVIOUS
    <3> QED
      BY <1>11, <2>1, <3>1, ReleaseParts, Zenon
  <2>6. /\ progress.unflushed \in 0..MaximumChord /\ progress.held \in Nat
        /\ response.events \in Nat /\ response \in Response
    BY <2>1 DEF Progress, Response
  <2>7. /\ effects' = [effects EXCEPT ![current.nonce] = @ + count]
        /\ \A n \in Nonces \ {current.nonce} : late'[n] = late[n]
    BY <2>1, <2>3 DEF EventsLeave
  <2>8. /\ response'.accepted /\ response'.events = response.events
        /\ response'.released => down'[current.nonce] = 0
    BY <2>1, <2>5, <2>6 DEF Response
  <2>9. Concluded(current.nonce)'
    BY <2>1, <2>2, <2>3, <2>4, <2>6, <2>7, <2>8
  <2> HIDE DEF Concluded
  <2> QED
    BY <2>1, <2>2, <2>4, <2>7, <2>9
<1> HIDE DEF OwnerInv, EffectInv
<1> QED
  BY <1>1, <1>2, <1>3, <1>4, <1>5, <1>6, <1>7, <1>8, <1>9, <1>10, <1>11 DEF HandleStep

\* Every step leaves the running input with its token.
LEMMA TokenStep ==
    ASSUME OwnerInv, HandleStep PROVE TokenInv' /\ CancelStopsInput'
<1> USE DEF OwnerInv, OwnerTypes, OwnerTypeOK, LedgerInv, EffectInv, TokenInv, CancelStopsInput,
      Unbegun, Counted, Stopping, Concluded, Recorded, TokenSet, IsCancelled, Input, Running,
      Executing, HandlingStates
<1>1. CASE Handle
  <2>1. CASE Invalid
    BY <1>1, <2>1 DEF Handle, Invalid, Reply, Refusal, Answer, Refusals
  <2>2. CASE Replay
    BY <1>1, <2>2 DEF Handle, Replay, Reply
  <2>3. CASE Conflict
    BY <1>1, <2>3 DEF Handle, Conflict, Reply, Refusal, Answer, Refusals
  <2>4. CASE LedgerFull
    BY <1>1, <2>4 DEF Handle, LedgerFull, Reply, Refusal, Answer, Refusals
  <2>5. CASE Accept
    <3>1. CancelsOnly(entries, entries')
      BY <1>1, <2>5, RequestFacts, RequestCancelOnly, NoCancel DEF Handle, Accept
    <3> QED
      BY <1>1, <2>5, <3>1 DEF Handle, Accept, CancelsOnly
  <2> QED
    BY <1>1, <2>1, <2>2, <2>3, <2>4, <2>5 DEF Handle
<1>2. CASE ExecuteCancel
  BY <1>2 DEF ExecuteCancel, Conclude
<1>3. CASE ExecuteOther
  BY <1>3 DEF ExecuteOther, Conclude
<1>4. CASE PreflightFails
  BY <1>4 DEF PreflightFails, Conclude
<1>5. CASE BeginInput
  <2>1. current.nonce \in Nonces
    BY <1>5, RequestFacts DEF BeginInput
  <2>2. effects[current.nonce] = 0 /\ late[current.nonce] = 0
    BY <1>5, <2>1 DEF BeginInput
  <2>3. \A n \in Nonces \ {current.nonce} : entries'[n] = entries[n]
    BY <1>5, <2>1 DEF BeginInput, PrepareInput, Registries
  <2>4. current.nonce \notin tombstoned
    BY <1>5 DEF BeginInput
  <2>5. CASE entries[current.nonce].state # "absent"
    <3>1. entries' = [entries EXCEPT ![current.nonce].seen = TRUE]
      BY <1>5, <2>5 DEF BeginInput, PrepareInput
    <3>2. /\ entries'[current.nonce].state = entries[current.nonce].state
          /\ entries'[current.nonce].requested = entries[current.nonce].requested
      BY <2>1, <3>1 DEF Registries, CancellationEntry
    <3>3. registered'
      BY <1>5, <2>5, <3>2 DEF BeginInput, IsRegistered
    <3> QED
      BY <1>5, <2>1, <2>2, <2>3, <2>4, <2>5, <3>2, <3>3 DEF BeginInput
  <2>6. CASE entries[current.nonce].state = "absent"
    <3>1. ~entries[current.nonce].requested
      BY <2>1, <2>6
    <3>2. entries'[current.nonce].requested => entries'[current.nonce].state # "absent"
      BY <1>5, <2>1, <2>6, <3>1 DEF BeginInput, PrepareInput, Registries
    <3> QED
      BY <1>5, <2>1, <2>2, <2>3, <2>4, <3>1, <3>2 DEF BeginInput
  <2> QED
    BY <2>5, <2>6
<1>6. CASE Checkpoint
  <2>1. /\ current.nonce \in Nonces /\ progress.sent \in Nat /\ progress.held \in Nat
        /\ progress.unflushed = 0
    BY <1>6, RequestFacts DEF Checkpoint, Progress
  <2>2. /\ owner = "checkpoint" /\ owner' \in {"emit", "observe", "release", "record"}
        /\ UNCHANGED <<entries, ledger, current, progress, effects, releases, late, down,
                       tombstoned>>
    BY <1>6 DEF Checkpoint, Conclude, CutShort
  <2>3. owner' = "emit" => ~TokenSet
    BY <1>6 DEF Checkpoint, Conclude, CutShort
  <2>4. owner' = "release" => progress.held # 0
    BY <1>6, <2>1, <2>2 DEF Checkpoint, Conclude, CutShort
  <2>5. owner' = "release" => current.nonce \notin tombstoned
    BY <2>1, <2>2, <2>4
  <2> QED
    BY <2>1, <2>2, <2>3, <2>5
<1>7. CASE Emit
  <2>1. current.nonce \in Nonces
    BY <1>7, RequestFacts DEF Emit
  <2>2. PICK keys \in Writes : EventsLeave(EventsOf(keys))
    BY <1>7 DEF Emit
  <2>3. EventsOf(keys) \in Nat \ {0}
    BY <2>2, EventsOfFacts, OwnerAssumption DEF Writes
  <2>4. /\ owner = "emit" /\ owner' = "checkpoint"
        /\ UNCHANGED <<entries, ledger, current, registered, releases, tombstoned>>
    BY <1>7 DEF Emit
  <2>5. /\ \A n \in Nonces \ {current.nonce} : /\ effects'[n] = effects[n]
                                               /\ late'[n] = late[n] /\ down'[n] = down[n]
        /\ late'[current.nonce] = IF TokenSet THEN 1 ELSE 0
    BY <1>7, <2>1, <2>2, <2>3, <2>4 DEF Emit, EventsLeave
  <2> QED
    BY <2>1, <2>4, <2>5
<1>8. CASE EmitFails
  <2>1. current.nonce \in Nonces
    BY <1>8, RequestFacts DEF EmitFails
  <2>2. /\ owner = "emit" /\ owner' \in {"release", "record"}
        /\ UNCHANGED <<entries, ledger, current, effects, releases, late, down, tombstoned>>
    BY <1>8 DEF EmitFails, CutShort
  <2> QED
    BY <2>1, <2>2
<1>9. CASE PostObserve
  BY <1>9 DEF PostObserve, Conclude
<1>10. CASE Record
  <2>1. current.nonce \in Nonces
    BY <1>10, RequestFacts DEF Record
  <2>2. ledger'[current.nonce] # None
    BY <1>10, <2>1, NoneAssumption DEF Record, LedgerRecord
  <2>3. \A n \in Nonces \ {current.nonce} : ledger'[n] = ledger[n]
    BY <1>10 DEF Record
  <2>4. \A n \in Nonces : entries'[n].requested => entries'[n].state # "absent"
    BY <1>10, <2>1 DEF Record, Finish, Registries, CancellationEntry
  <2> QED
    BY <1>10, <2>2, <2>3, <2>4 DEF Record
<1>11. CASE Release
  <2>1. owner = "release" /\ current.nonce \in Nonces
    BY <1>11, RequestFacts DEF Release
  <2>2. /\ owner' = "record" /\ UNCHANGED <<entries, ledger, current, tombstoned>>
        /\ \A n \in Nonces \ {current.nonce} : down'[n] = down[n]
    BY <1>11, <2>1, ReleaseParts
  <2>3. PICK count \in 0..progress.unflushed : EventsLeave(count)
    BY <1>11, <2>1, ReleaseParts
  <2>4. \A n \in Nonces \ {current.nonce} : releases'[n] = releases[n]
    BY <1>11, <2>1, ReleaseParts
  <2>5. count > 0 => progress.unflushed > 0
    BY <2>3 DEF Progress
  <2>6. /\ \A n \in Nonces \ {current.nonce} : effects'[n] = effects[n] /\ late'[n] = late[n]
        /\ late'[current.nonce] <= 1
    BY <2>1, <2>3, <2>5 DEF EventsLeave
  <2> QED
    BY <2>1, <2>2, <2>4, <2>6
<1> HIDE DEF OwnerInv, TokenInv, CancelStopsInput
<1> QED
  BY <1>1, <1>2, <1>3, <1>4, <1>5, <1>6, <1>7, <1>8, <1>9, <1>10, <1>11 DEF HandleStep

\* Every step keeps the registry in agreement with the ledger.
LEMMA StatusStep ==
    ASSUME OwnerInv, HandleStep PROVE StatusInv' /\ CancelStatusTruthful'
<1> USE NoneAssumption DEF OwnerInv, OwnerTypes, OwnerTypeOK, LedgerInv, StatusInv,
      CancelStatusTruthful, Truthful,
      Recorded, LedgerRecord, Response, Input, Running, Executing, HandlingStates
<1>1. CASE Handle
  <2>1. CASE Invalid
    BY <1>1, <2>1 DEF Handle, Invalid, Reply, Refusal, Answer, Refusals
  <2>2. CASE Replay
    BY <1>1, <2>2 DEF Handle, Replay, Reply
  <2>3. CASE Conflict
    BY <1>1, <2>3 DEF Handle, Conflict, Reply, Refusal, Answer, Refusals
  <2>4. CASE LedgerFull
    BY <1>1, <2>4 DEF Handle, LedgerFull, Reply, Refusal, Answer, Refusals
  <2>5. CASE Accept
    <3>1. CancelsOnly(entries, entries')
      BY <1>1, <2>5, RequestFacts, RequestCancelOnly, NoCancel DEF Handle, Accept
    <3> QED
      BY <1>1, <2>5, <3>1 DEF Handle, Accept, CancelsOnly
  <2> QED
    BY <1>1, <2>1, <2>2, <2>3, <2>4, <2>5 DEF Handle
<1>2. CASE ExecuteCancel
  <2>1. current.target \in Nonces
    BY <1>2, RequestFacts DEF ExecuteCancel
  <2>2. ~IsInput(current)
    BY <1>2 DEF ExecuteCancel, IsInput, InputOperations
  <2>3. Truthful(Status(entries, current.target), ledger[current.target])
    BY <1>2, <2>1, <2>2 DEF ExecuteCancel, Status
  <2>4. response'.outcome = Status(entries, current.target)
    BY <1>2 DEF ExecuteCancel, Conclude, Answer
  <2> QED
    BY <1>2, <2>2, <2>3, <2>4 DEF ExecuteCancel, Conclude
<1>3. CASE ExecuteOther
  <2>1. current.nonce \in Nonces
    BY <1>3, RequestFacts DEF ExecuteOther
  <2> QED
    BY <1>3, <2>1 DEF ExecuteOther, Conclude
<1>4. CASE PreflightFails
  <2>1. current.nonce \in Nonces
    BY <1>4, RequestFacts DEF PreflightFails
  <2> QED
    BY <1>4, <2>1 DEF PreflightFails, Conclude
<1>5. CASE BeginInput
  <2>1. current.nonce \in Nonces
    BY <1>5, RequestFacts DEF BeginInput
  <2>2. entries' = PrepareInput(entries, current.nonce)
    BY <1>5 DEF BeginInput
  <2>3. /\ \A n \in Nonces \ {current.nonce} : entries'[n] = entries[n]
        /\ entries'[current.nonce].state \in {"absent", "active", entries[current.nonce].state}
        /\ entries'[current.nonce].state = "absent" =>
              entries'[current.nonce] = entries[current.nonce]
    BY <2>1, <2>2, PrepareInputOnly
  <2>4. owner' = "checkpoint" /\ owner = "execute" /\ IsInput(current)
        /\ UNCHANGED <<ledger, current, response>>
    BY <1>5 DEF BeginInput
  <2> QED
    BY <2>1, <2>3, <2>4
<1>6. CASE Checkpoint
  <2>1. current.nonce \in Nonces
    BY <1>6, RequestFacts DEF Checkpoint
  <2> QED
    BY <1>6, <2>1 DEF Checkpoint, Conclude, CutShort, IsInput, InputOperations
<1>7. CASE Emit
  <2>1. current.nonce \in Nonces
    BY <1>7, RequestFacts DEF Emit
  <2> QED
    BY <1>7, <2>1 DEF Emit, IsInput
<1>8. CASE EmitFails
  <2>1. current.nonce \in Nonces
    BY <1>8, RequestFacts DEF EmitFails
  <2> QED
    BY <1>8, <2>1 DEF EmitFails, CutShort, IsInput, InputOperations
<1>9. CASE PostObserve
  <2>1. current.nonce \in Nonces
    BY <1>9, RequestFacts DEF PostObserve
  <2> QED
    BY <1>9, <2>1 DEF PostObserve, Conclude, IsInput, InputOperations
<1>10. CASE Record
  <2>1. current.nonce \in Nonces
    BY <1>10, RequestFacts DEF Record
  <2> QED
    BY <1>10, <2>1 DEF Record, Finish, Registries, CancellationEntry
<1>11. CASE Release
  <2>1. current.nonce \in Nonces
    BY <1>11, RequestFacts DEF Release
  <2>2. IsInput(current) /\ current.operation # "input-cancel"
    BY <1>11 DEF Release, IsInput, InputOperations
  <2> QED
    BY <1>11, <2>1, <2>2 DEF Release
<1> HIDE DEF OwnerInv, StatusInv, CancelStatusTruthful
<1> QED
  BY <1>1, <1>2, <1>3, <1>4, <1>5, <1>6, <1>7, <1>8, <1>9, <1>10, <1>11 DEF HandleStep

\* A refusal is a response.
LEMMA RefusalType ==
    ASSUME NEW outcome \in Refusals PROVE Refusal(outcome) \in Response
BY OwnerAssumption DEF Refusal, Answer, Response, Outcomes, Refusals

\* Outcomes that the responses of the owner carry.
LEMMA OutcomeFacts ==
    /\ {"ok", "failed", "cancelled"} \cup CancelStatuses \subseteq Outcomes
    /\ {"invalid-request", "nonce-conflict", "ledger-full"} \subseteq Refusals
    /\ 0 \in 0..MaximumEvents
BY OwnerAssumption DEF Outcomes, Refusals, CancelStatuses

\* LedgerReserve has a class for every operation that draws on a reserve.
LEMMA ReserveClassType ==
    ASSUME NEW operation \in ReserveOperations
    PROVE  ReserveClassOf[operation] \in ReserveClasses
BY DEF ReserveClassOf, ReserveOperations, ReserveClasses

\* An answer of an execution is a response.
LEMMA AnswerType ==
    ASSUME NEW outcome \in Outcomes, NEW accepted \in BOOLEAN, NEW events \in 0..MaximumEvents
    PROVE  Answer(outcome, accepted, events) \in Response
BY DEF Answer, Response

\* status gives one of its four answers.
LEMMA StatusType ==
    ASSUME NEW e, NEW n PROVE Status(e, n) \in CancelStatuses
BY DEF Status, CancelStatuses

\* finish keeps a registry a registry.
LEMMA FinishType ==
    ASSUME NEW e \in Registries, NEW n \in Nonces, NEW cancelled
    PROVE  Finish(e, n, cancelled) \in Registries
<1> DEFINE final == IF cancelled THEN "cancelled" ELSE "completed"
<1>1. final \in {"cancelled", "completed"}
  OBVIOUS
<1> HIDE DEF final
<1>2. [e EXCEPT ![n].state = final] \in Registries
  BY <1>1 DEF Registries, CancellationEntry, FinalStates
<1> QED
  BY <1>2 DEF Finish, final

\* Every step keeps the types of what the owner works on.
LEMMA OwnerTypeStep ==
    ASSUME OwnerInv, HandleStep PROVE OwnerTypes'
<1> USE DEF OwnerInv, OwnerTypes, OwnerTypeOK, HandlingStates
<1>1. CASE Handle
  <2>1. CASE Invalid
    BY <1>1, <2>1, RefusalType, OutcomeFacts DEF Handle, Invalid, Reply
  <2>2. CASE Replay
    BY <1>1, <2>2, RequestFacts DEF Handle, Replay, Reply, LedgerRecord
  <2>3. CASE Conflict
    BY <1>1, <2>3, RefusalType, OutcomeFacts DEF Handle, Conflict, Reply
  <2>4. CASE LedgerFull
    BY <1>1, <2>4, RefusalType, OutcomeFacts DEF Handle, LedgerFull, Reply
  <2>5. CASE Accept
    <3>1. entries' \in Registries
      BY <1>1, <2>5, RequestFacts, RequestCancelOnly DEF Handle, Accept, CancelsOnly
    <3>2. ledgerReserve' \in [ReserveClasses -> Nat]
        <4>1. CASE Cardinality(Recorded) < MaximumLedgerEntries
        BY <1>1, <2>5, <4>1 DEF Handle, Accept, Admit
      <4>2. CASE ~(Cardinality(Recorded) < MaximumLedgerEntries)
        <5>1. ReserveClassOf[current.operation] \in ReserveClasses
          BY <1>1, <2>5, <4>2, ReserveClassType DEF Handle, Accept, Admits
        <5> QED
          BY <1>1, <2>5, <4>2, <5>1 DEF Handle, Accept, Admit
      <4> QED
        BY <4>1, <4>2
    <3> QED
      BY <1>1, <2>5, <3>1, <3>2 DEF Handle, Accept
  <2> QED
    BY <1>1, <2>1, <2>2, <2>3, <2>4, <2>5 DEF Handle
<1>2. CASE ExecuteCancel
  <2>1. response' \in Response
    BY <1>2, StatusType, AnswerType, OutcomeFacts DEF ExecuteCancel, Conclude
  <2> QED
    BY <1>2, <2>1 DEF ExecuteCancel, Conclude
<1>3. CASE ExecuteOther
  <2>1. response' \in Response
    <3>1. PICK outcome \in {"ok", "failed"}, accepted \in BOOLEAN :
             response' = Answer(outcome, accepted, 0)
      BY <1>3, Zenon DEF ExecuteOther, Conclude
    <3>2. outcome \in Outcomes
      BY OutcomeFacts
    <3> QED
      BY <3>1, <3>2, AnswerType, OutcomeFacts, Zenon
  <2> QED
    BY <1>3, <2>1 DEF ExecuteOther, Conclude
<1>4. CASE PreflightFails
  <2>1. response' \in Response
    BY <1>4, AnswerType, OutcomeFacts DEF PreflightFails, Conclude
  <2> QED
    BY <1>4, <2>1 DEF PreflightFails, Conclude
<1>5. CASE BeginInput
  <2>1. current.nonce \in Nonces
    BY <1>5, RequestFacts DEF BeginInput
  <2>2. entries' \in Registries
    BY <1>5, <2>1, PrepareInputOnly DEF BeginInput
  <2>3. registered' \in BOOLEAN
    BY <1>5, Zenon DEF BeginInput, IsRegistered
  <2>4. progress' \in Progress
    BY <1>5, OwnerAssumption DEF BeginInput, NoProgress, Progress
  <2>5. tombstoned' \subseteq Nonces
    BY <1>5, <2>1 DEF BeginInput
  <2> QED
    BY <1>5, <2>2, <2>3, <2>4, <2>5 DEF BeginInput
<1>6. CASE Checkpoint
  <2>1. response' \in Response \/ (response' = response /\ owner' \in {"emit", "observe"})
    <3>1. progress.sent \in 0..MaximumEvents
      BY DEF Progress
    <3>2. \A outcome \in {"ok", "failed", "cancelled"}, accepted \in BOOLEAN :
             Answer(outcome, accepted, progress.sent) \in Response
      BY <3>1, AnswerType, OutcomeFacts
    <3>3. (progress.sent > 0) \in BOOLEAN
      OBVIOUS
    <3> QED
      BY <1>6, <3>2, <3>3 DEF Checkpoint, Conclude, CutShort
  <2>2. owner' \in {"release", "record", "emit", "observe"}
    BY <1>6 DEF Checkpoint, Conclude, CutShort
  <2> QED
    BY <1>6, <2>1, <2>2 DEF Checkpoint
<1>7. CASE Emit
  <2>1. current.nonce \in Nonces /\ current.steps \in 0..MaximumEvents
    BY <1>7, RequestFacts DEF Emit
  <2>2. PICK keys \in Writes :
           /\ EventsLeave(EventsOf(keys))
           /\ down' = [down EXCEPT ![current.nonce] = @ + keys]
           /\ progress' = [progress EXCEPT !.sent = @ + EventsOf(keys), !.held = @ + keys]
    BY <1>7 DEF Emit
  <2>3. /\ keys \in Int /\ progress.held + keys >= 0
        /\ progress.held + keys <= current.steps - progress.sent - EventsOf(keys)
        /\ EventsOf(keys) \in Nat
    BY <2>2, EventsOfFacts, OwnerAssumption DEF Writes
  <2>4. progress' \in Progress
    <3>1. /\ progress.sent + EventsOf(keys) \in 0..MaximumEvents
          /\ progress.held + keys \in 0..MaximumEvents
      BY <2>1, <2>3, OwnerAssumption DEF Progress
    <3> QED
      BY <2>2, <3>1 DEF Progress
  <2>5. effects' \in [Nonces -> Nat] /\ late' \in [Nonces -> Nat]
    BY <2>1, <2>2, <2>3 DEF EventsLeave
  <2>6. down' \in [Nonces -> Nat]
    <3>1. down[current.nonce] + keys \in Nat
      BY <1>7, <2>3 DEF Emit, EffectInv, Counted, Input, Progress
    <3> QED
      BY <2>2, <3>1
  <2> QED
    BY <1>7, <2>4, <2>5, <2>6 DEF Emit
<1>8. CASE EmitFails
  <2>1. current.nonce \in Nonces /\ current.steps \in 0..MaximumEvents
    BY <1>8, RequestFacts DEF EmitFails
  <2>2. PICK keys \in Writes :
          \/ /\ progress' = [progress EXCEPT !.unflushed = EventsOf(keys)]
             /\ CutShort(FlushFailure(progress.sent))
          \/ /\ current.operation = "interact"
             /\ EventsOf(keys) = 1
             /\ progress' = [progress EXCEPT !.unflushed = 1,
                                             !.held = IF keys = 1 THEN @ + 1 ELSE @]
             /\ CutShort(FlushFailure(progress.sent + 1))
    BY <1>8 DEF EmitFails
  <2>3. /\ keys \in Int /\ progress.held + keys >= 0
        /\ progress.held + keys <= current.steps - progress.sent - EventsOf(keys)
        /\ EventsOf(keys) \in 1..MaximumChord
    BY <2>2, EventsOfFacts, OwnerAssumption DEF Writes
  <2>4. progress' \in Progress
    <3>1. CASE progress' = [progress EXCEPT !.unflushed = EventsOf(keys)]
      BY <2>3, <3>1 DEF Progress
    <3>2. CASE progress' = [progress EXCEPT !.unflushed = 1,
                                            !.held = IF keys = 1 THEN @ + 1 ELSE @]
      <4>1. keys = 1 => progress.held + 1 \in 0..MaximumEvents
        BY <2>1, <2>3, OwnerAssumption DEF Progress
      <4>2. /\ progress.sent \in 0..MaximumEvents /\ 1 \in 0..MaximumChord
            /\ (IF keys = 1 THEN progress.held + 1 ELSE progress.held) \in 0..MaximumEvents
        BY <4>1, OwnerAssumption DEF Progress
      <4>3. progress' = [sent      |-> progress.sent,
                         held      |-> IF keys = 1 THEN progress.held + 1 ELSE progress.held,
                         unflushed |-> 1]
        BY <3>2 DEF Progress
      <4> QED
        BY <4>2, <4>3 DEF Progress
    <3> QED
      BY <2>2, <3>1, <3>2
  <2>5. progress.sent \in 0..MaximumEvents /\ progress.sent + 1 \in 0..MaximumEvents
    BY <2>1, <2>3, OwnerAssumption DEF Progress
  <2>6. response' \in Response
    <3>1. PICK counted \in {progress.sent, progress.sent + 1} :
             response' = Answer("failed", TRUE, counted)
      BY <2>2 DEF CutShort, FlushFailure
    <3>2. "failed" \in Outcomes /\ counted \in 0..MaximumEvents
      BY <2>5, OutcomeFacts
    <3> QED
      BY <3>1, <3>2, AnswerType
  <2>7. owner' \in {"release", "record"}
    BY <2>2 DEF CutShort
  <2> QED
    BY <1>8, <2>4, <2>6, <2>7 DEF EmitFails
<1>9. CASE PostObserve
  <2>1. response' \in Response
    <3>1. PICK outcome \in {"ok", "failed", "cancelled"} :
             response' = Answer(outcome, TRUE, progress.sent)
      BY <1>9 DEF PostObserve, Conclude
    <3>2. progress.sent \in 0..MaximumEvents
      BY DEF Progress
    <3> QED
      BY <3>1, <3>2, AnswerType, OutcomeFacts
  <2> QED
    BY <1>9, <2>1 DEF PostObserve, Conclude
<1>10. CASE Record
  <2>1. current.nonce \in Nonces
    BY <1>10, RequestFacts DEF Record
  <2>2. entries' \in Registries
    BY <1>10, <2>1, FinishType DEF Record
  <2>3. ledger' \in [Nonces -> LedgerRecord \cup {None}]
    BY <1>10, <2>1 DEF Record, LedgerRecord
  <2> QED
    BY <1>10, <2>2, <2>3 DEF Record
<1>11. CASE Release
  <2>1. owner = "release" /\ current.nonce \in Nonces /\ response \in Response
    BY <1>11, RequestFacts DEF Release
  <2>2. /\ owner' = "record" /\ progress' = NoProgress
        /\ UNCHANGED <<entries, ledger, ledgerReserve, current, registered, tombstoned, replies>>
        /\ down' \in [Nonces -> Nat]
    BY <1>11, <2>1, ReleaseParts
  <2>3. PICK count \in 0..progress.unflushed : EventsLeave(count)
    BY <1>11, <2>1, ReleaseParts
  <2>4. effects' \in [Nonces -> Nat] /\ late' \in [Nonces -> Nat]
    BY <2>1, <2>3 DEF EventsLeave, Progress
  <2>5. releases' \in [Nonces -> Nat]
    <3>1. PICK freed \in 0..progress.held :
             releases' = [releases EXCEPT ![current.nonce] = releases[current.nonce] + freed]
      BY <1>11, <2>1, ReleaseParts
    <3> QED
      BY <2>1, <3>1 DEF Progress
  <2>6. response' \in Response
    <3>1. response' = response \/ response' = [response EXCEPT !.released = FALSE]
      <4>1. progress \in Progress /\ releases \in [Nonces -> Nat] /\ down \in [Nonces -> Nat]
        OBVIOUS
      <4> QED
        BY <1>11, <2>1, <4>1, ReleaseParts, Zenon
    <3> QED
      BY <2>1, <3>1 DEF Response
  <2>7. progress' \in Progress
    BY <2>2, OwnerAssumption DEF NoProgress, Progress
  <2> QED
    BY <2>1, <2>2, <2>4, <2>5, <2>6, <2>7
<1> HIDE DEF OwnerInv, OwnerTypes, OwnerTypeOK
<1> QED
  BY <1>1, <1>2, <1>3, <1>4, <1>5, <1>6, <1>7, <1>8, <1>9, <1>10, <1>11 DEF HandleStep

\* Every step leaves room for a shutdown.
LEMMA ShutdownStep ==
    ASSUME OwnerInv, NEW over, ShutdownInv(over), ShutdownAlwaysAdmitted, HandleStep,
           over \cap HandlingStates = {} PROVE ShutdownInv(over)' /\ ShutdownAlwaysAdmitted'
<1> USE DEF OwnerInv, OwnerTypes, OwnerTypeOK, LedgerInv, ShutdownInv, ShutdownAlwaysAdmitted,
      Input, Running, Executing, HandlingStates, Refusals
<1>1. CASE Handle
  <2>1. CASE Invalid
    BY <1>1, <2>1 DEF Handle, Invalid, Reply, Refusal, Answer, Refusals
  <2>2. CASE Replay
    BY <1>1, <2>2, RequestFacts DEF Handle, Replay, Reply, LedgerRecord, Recorded
  <2>3. CASE Conflict
    BY <1>1, <2>3 DEF Handle, Conflict, Reply, Refusal, Answer, Refusals
  <2>4. CASE LedgerFull
    <3>1. current.operation # "shutdown"
      <4>1. ReserveClassOf["shutdown"] = "shutdowns" /\ "shutdown" \in ReserveOperations
        BY DEF ReserveClassOf, ReserveOperations
      <4>2. ledgerReserve["shutdowns"] = 0 /\ ReserveLimit["shutdowns"] > 0
        <5>1. "shutdowns" \in ReserveClasses
          BY DEF ReserveClasses
        <5>2. ledgerReserve["shutdowns"] \in Nat
          BY <5>1
        <5>3. ~(ledgerReserve["shutdowns"] > 0)
          BY <1>1 DEF Handle
        <5> QED
          BY <5>2, <5>3, OwnerAssumption
      <4> QED
        BY <1>1, <2>4, <4>1, <4>2 DEF Handle, LedgerFull, Admits
    <3> QED
      BY <1>1, <2>4, <3>1 DEF Handle, LedgerFull, Reply
  <2>5. CASE Accept
    <3>1. ASSUME ledgerReserve'["shutdowns"] > 0
          PROVE  current.operation = "shutdown"
      BY <1>1, <2>5, <3>1 DEF Handle, Accept, Admits, Admit, ReserveClassOf, ReserveClasses,
         ReserveOperations
    <3> QED
      BY <1>1, <2>5, <3>1 DEF Handle, Accept
  <2> QED
    BY <1>1, <2>1, <2>2, <2>3, <2>4, <2>5 DEF Handle
<1>2. CASE ExecuteCancel
  BY <1>2 DEF ExecuteCancel, Conclude
<1>3. CASE ExecuteOther
  BY <1>3 DEF ExecuteOther, Conclude
<1>4. CASE PreflightFails
  BY <1>4 DEF PreflightFails, Conclude
<1>5. CASE BeginInput
  BY <1>5 DEF BeginInput, IsInput, InputOperations
<1>6. CASE Checkpoint
  BY <1>6 DEF Checkpoint, Conclude, CutShort, IsInput, InputOperations
<1>7. CASE Emit
  BY <1>7 DEF Emit
<1>8. CASE EmitFails
  BY <1>8 DEF EmitFails, CutShort, IsInput, InputOperations
<1>9. CASE PostObserve
  BY <1>9 DEF PostObserve, Conclude
<1>10. CASE Record
  BY <1>10 DEF Record
<1>11. CASE Release
  BY <1>11 DEF Release, IsInput, InputOperations
<1> HIDE DEF OwnerInv, ShutdownInv, ShutdownAlwaysAdmitted
<1> QED
  BY <1>1, <1>2, <1>3, <1>4, <1>5, <1>6, <1>7, <1>8, <1>9, <1>10, <1>11 DEF HandleStep

----------------------------------------------------------------------------
\* Whatever happens to a registry, no entry leaves it; a full one stays as full.
GrowsOnly(e, f) ==
    /\ \A n \in Nonces : e[n].state # "absent" => f[n].state # "absent"
    /\ \A n \in Nonces : e[n].requested /\ e[n].state # "absent" => f[n].requested
    /\ ~HasRoom(e) => \A n \in Nonces : e[n].state = "absent" => f[n] = e[n]

\* A registry that only grows has no more room than before.
LEMMA RoomShrinks ==
    ASSUME NEW e, NEW f, GrowsOnly(e, f), HasRoom(f)
    PROVE  HasRoom(e)
<1>1. Present(e) \subseteq Present(f)
  BY DEF GrowsOnly, Present
<1>2. IsFiniteSet(Present(e)) /\ IsFiniteSet(Present(f))
  BY CancellationAssumption, FS_Subset DEF Present
<1>3. Cardinality(Present(e)) <= Cardinality(Present(f))
  BY <1>1, <1>2, FS_Subset
<1>4. Cardinality(Present(e)) \in Nat /\ Cardinality(Present(f)) \in Nat
  BY <1>2, FS_CardinalityType
<1> QED
  BY <1>3, <1>4, CancellationAssumption DEF HasRoom

\* The four methods of the registry only let it grow.
LEMMA GrowthFacts ==
    ASSUME NEW e \in Registries, NEW m \in Nonces, NEW cancelled
    PROVE  /\ GrowsOnly(e, e)
           /\ GrowsOnly(e, RequestCancel(e, m))
           /\ GrowsOnly(e, PrepareInput(e, m))
           /\ GrowsOnly(e, Finish(e, m, cancelled))
           /\ GrowsOnly(e, CancelAllActive(e))
<1> USE DEF Registries, CancellationEntry, FinalStates, GrowsOnly
<1>1. GrowsOnly(e, RequestCancel(e, m))
  BY DEF RequestCancel
<1>2. GrowsOnly(e, PrepareInput(e, m))
  BY DEF PrepareInput
<1>3. GrowsOnly(e, Finish(e, m, cancelled))
  BY DEF Finish
<1>4. GrowsOnly(e, CancelAllActive(e))
  BY DEF CancelAllActive
<1> QED
  BY <1>1, <1>2, <1>3, <1>4

\* A step of handle leaves the request, the readers' table and the replies alone, and
\* the owner inside handle.
LEMMA HandleFrame ==
    ASSUME HandleStep
    PROVE  /\ owner \in HandlingStates /\ owner' \in HandlingStates
           /\ UNCHANGED <<current, replies>>
BY DEF HandleStep, Handle, Invalid, Replay, Conflict, LedgerFull, Accept, Reply, ExecuteCancel,
   ExecuteOther, PreflightFails, BeginInput, Checkpoint, Emit, EmitFails, Release, PostObserve,
   Record, Conclude, CutShort, HandlingStates

\* What accepted cancels have done is never undone, as long as the registry only grows
\* and no record is dropped.
LEMMA HeardStep ==
    ASSUME HeardInv, TokenInv, GrowsOnly(entries, entries'),
           \A n \in Nonces : ledger[n] # None => ledger'[n] # None,
           fingerprints' = fingerprints,
           fingerprints \in [Nonces -> Requests \cup {None}],
           owner' \in Input /\ registered' => entries'[current'.nonce].state # "absent"
    PROVE  HeardInv'
<1>1. ASSUME NEW n \in Nonces, fingerprints[n] # None,
             NEW m \in CancellationTarget(fingerprints[n])
      PROVE  \/ entries'[m].requested
             \/ ledger'[m] # None
             \/ entries'[m].state = "absent" /\ ~HasRoom(entries')
  <2>1. m \in Nonces
    BY <1>1, RequestFacts DEF CancellationTarget
  <2>2. CASE entries[m].requested
    BY <2>1, <2>2 DEF TokenInv, GrowsOnly
  <2>3. CASE ledger[m] # None
    BY <2>1, <2>3
  <2>4. CASE entries[m].state = "absent" /\ ~HasRoom(entries)
    BY <2>1, <2>4, RoomShrinks DEF GrowsOnly
  <2> QED
    BY <1>1, <2>2, <2>3, <2>4 DEF HeardInv
<1> QED
  BY <1>1 DEF HeardInv

\* A step of handle keeps what accepted cancels have done.
LEMMA HandleHeard ==
    ASSUME OwnerInv, SemanticsTypeOK, HeardInv, HandleStep, UNCHANGED fingerprints
    PROVE  HeardInv'
<1>1. current \in Requests /\ current.nonce \in Nonces /\ current.target \in Nonces
  BY HandleFrame, RequestFacts DEF OwnerInv, OwnerTypes, OwnerTypeOK
<1>2. entries \in Registries
  BY DEF OwnerInv, OwnerTypes, OwnerTypeOK
<1>3. GrowsOnly(entries, entries')
  <2>1. \/ entries' = entries
        \/ entries' = RequestCancel(entries, current.target)
        \/ entries' = PrepareInput(entries, current.nonce)
        \/ entries' = Finish(entries, current.nonce, response.outcome = "cancelled")
    <3>1. CASE Handle
      BY <3>1, Zenon DEF Handle, Invalid, Replay, Conflict, LedgerFull, Accept, Reply
    <3>2. CASE BeginInput
      BY <3>2 DEF BeginInput
    <3>3. CASE Record
      BY <3>3, Zenon DEF Record
    <3>4. CASE ExecuteCancel \/ ExecuteOther \/ PreflightFails \/ Checkpoint \/ Emit
                  \/ EmitFails \/ Release \/ PostObserve
      BY <3>4, Zenon DEF ExecuteCancel, ExecuteOther, PreflightFails, Checkpoint, Emit,
         EmitFails, Release, PostObserve
    <3> QED
      BY <3>1, <3>2, <3>3, <3>4, Zenon DEF HandleStep
  <2> QED
    BY <1>1, <1>2, <2>1, GrowthFacts
<1>4. \A n \in Nonces : ledger[n] # None => ledger'[n] # None
  <2>1. CASE Record
    BY <1>1, <2>1, NoneAssumption
       DEF Record, OwnerInv, OwnerTypes, OwnerTypeOK, LedgerRecord
  <2>2. CASE ~Record
    BY <2>2 DEF HandleStep, Handle, Invalid, Replay, Conflict, LedgerFull, Accept, Reply,
       ExecuteCancel, ExecuteOther, PreflightFails, BeginInput, Checkpoint, Emit, EmitFails,
       Release, PostObserve
  <2> QED
    BY <2>1, <2>2
<1>5. owner' \in Input /\ registered' => entries'[current'.nonce].state # "absent"
  <2>1. CASE BeginInput
    BY <2>1 DEF BeginInput, IsRegistered
  <2>2. CASE ~BeginInput
    BY <2>2 DEF HeardInv, Input, HandleStep, Handle, Invalid, Replay, Conflict, LedgerFull,
       Accept, Reply, ExecuteCancel, ExecuteOther, PreflightFails, Checkpoint, Emit, EmitFails,
       Release, PostObserve, Record, Conclude, CutShort
  <2> QED
    BY <2>1, <2>2
<1> QED
  BY <1>3, <1>4, <1>5, HeardStep DEF OwnerInv, SemanticsTypeOK

----------------------------------------------------------------------------
\* A step of Broker::handle.
LEMMA HandleKeeps ==
    ASSUME NEW over, over \cap HandlingStates = {}, SharedInv(over), HandleStep,
           UNCHANGED <<fingerprints, readerReserve>>
    PROVE  SharedInv(over)'
<1>1. OwnerInv'
  BY LedgerStep, EffectStep, TokenStep, StatusStep, OwnerTypeStep DEF SharedInv, OwnerInv
<1>2. SemanticsTypeOK'
  BY DEF SharedInv, SemanticsTypeOK
<1> QED
  BY <1>1, <1>2, HandleHeard, ShutdownStep DEF SharedInv

\* A step of another thread that touches nothing of the owner's but the registry, where
\* it only cancels.
LEMMA OwnerUntouched ==
    ASSUME OwnerInv, UNCHANGED ownerVars, CancelsOnly(entries, entries')
    PROVE  OwnerInv'
<1> USE DEF OwnerInv, ownerVars
<1>1. OwnerTypes'
  BY DEF OwnerTypes, OwnerTypeOK, CancelsOnly
<1>2. LedgerInv' /\ EffectInv'
  BY DEF LedgerInv, EffectInv, Unbegun, Counted, Stopping, Concluded, Recorded
<1>3. TokenInv' /\ CancelStopsInput'
  BY RequestFacts DEF TokenInv, CancelStopsInput, CancelsOnly, TokenSet, IsCancelled, OwnerTypes,
     OwnerTypeOK, HandlingStates, Recorded
<1>4. StatusInv' /\ CancelStatusTruthful'
  BY DEF StatusInv, CancelStatusTruthful, CancelsOnly, OwnerTypes, OwnerTypeOK, Recorded
<1> QED
  BY <1>1, <1>2, <1>3, <1>4

\* The judgement of a request by a reader: its cancel sets the token before the request
\* is in the readers' table.
LEMMA PrepareKeeps ==
    ASSUME NEW over, SharedInv(over), NEW request \in Requests,
           PrepareControlRequest(request), UNCHANGED ownerVars
    PROVE  SharedInv(over)'
<1>1. request.nonce \in Nonces /\ request.target \in Nonces
  BY RequestFacts
<1>2. entries \in Registries /\ SemanticsTypeOK
  BY DEF SharedInv, OwnerInv, OwnerTypes, OwnerTypeOK
<1>3. CancelsOnly(entries, entries')
  BY <1>1, <1>2, RequestCancelOnly, NoCancel DEF PrepareControlRequest
<1>4. OwnerInv'
  BY <1>3, OwnerUntouched DEF SharedInv
<1>5. SemanticsTypeOK'
  <2>1. fingerprints' \in [Nonces -> Requests \cup {None}]
    BY <1>1, <1>2 DEF PrepareControlRequest, SemanticsTypeOK
  <2>2. CASE IsNew(request) /\ ~(Cardinality(ReaderRecorded) < MaximumLedgerEntries)
    <3>1. ReserveClassOf[request.operation] \in ReserveClasses
      BY <2>2, ReserveClassType DEF IsNew, Admits
    <3> QED
      BY <1>2, <2>1, <2>2, <3>1 DEF PrepareControlRequest, Admit, SemanticsTypeOK
  <2>3. CASE ~IsNew(request) \/ Cardinality(ReaderRecorded) < MaximumLedgerEntries
    BY <1>2, <2>1, <2>3 DEF PrepareControlRequest, Admit, SemanticsTypeOK
  <2> QED
    BY <2>2, <2>3
<1>6. HeardInv'
  <2>1. GrowsOnly(entries, entries')
    BY <1>1, <1>2, GrowthFacts DEF PrepareControlRequest
  <2>2. UNCHANGED <<ledger, owner, current, registered>>
    BY DEF ownerVars
  <2>3. ASSUME NEW n \in Nonces, fingerprints'[n] # None,
               NEW m \in CancellationTarget(fingerprints'[n])
        PROVE  \/ entries'[m].requested
               \/ ledger'[m] # None
               \/ entries'[m].state = "absent" /\ ~HasRoom(entries')
    <3>1. CASE fingerprints'[n] = fingerprints[n]
      <4>1. m \in Nonces
        BY <1>2, <2>3, <3>1, RequestFacts DEF CancellationTarget, SemanticsTypeOK
      <4>2. \/ entries[m].requested
            \/ ledger[m] # None
            \/ entries[m].state = "absent" /\ ~HasRoom(entries)
        BY <2>3, <3>1 DEF SharedInv, HeardInv
      <4>3. entries[m].requested => entries'[m].requested
        BY <2>1, <4>1 DEF SharedInv, OwnerInv, TokenInv, GrowsOnly
      <4>4. entries[m].state = "absent" /\ ~HasRoom(entries) =>
               entries'[m].state = "absent" /\ ~HasRoom(entries')
        BY <2>1, <4>1, RoomShrinks DEF GrowsOnly
      <4> QED
        BY <2>2, <4>2, <4>3, <4>4
    <3>2. CASE fingerprints'[n] # fingerprints[n]
      <4>1. IsNew(request) /\ fingerprints'[n] = request
        BY <1>1, <1>2, <3>2 DEF PrepareControlRequest, SemanticsTypeOK
      <4>2. m = request.target /\ CancellationTarget(request) # {}
        BY <2>3, <4>1 DEF CancellationTarget
      <4>3. entries' = RequestCancel(entries, m)
        BY <4>1, <4>2 DEF PrepareControlRequest, PassesSemantics, IsNew
      <4>4. ledger[m] = None => entries[m].state \in {"absent", "active"}
        BY <1>1, <4>2 DEF SharedInv, OwnerInv, StatusInv
      <4>5. CASE entries[m].state = "active"
        BY <1>1, <1>2, <4>2, <4>3, <4>5 DEF RequestCancel, Registries, CancellationEntry
      <4>6. CASE entries[m].state = "absent" /\ HasRoom(entries)
        BY <1>1, <1>2, <4>2, <4>3, <4>6 DEF RequestCancel, Registries, CancellationEntry
      <4>7. CASE entries[m].state = "absent" /\ ~HasRoom(entries)
        BY <4>3, <4>7 DEF RequestCancel
      <4> QED
        BY <2>2, <4>4, <4>5, <4>6, <4>7
    <3> QED
      BY <3>1, <3>2
  <2>4. owner' \in Input /\ registered' => entries'[current'.nonce].state # "absent"
    <3>1. owner \in Input => current.nonce \in Nonces
      BY RequestFacts DEF SharedInv, OwnerInv, OwnerTypes, OwnerTypeOK, HandlingStates, Input
    <3> QED
      BY <2>1, <2>2, <3>1 DEF SharedInv, HeardInv, GrowsOnly
  <2> QED
    BY <2>3, <2>4 DEF HeardInv
<1>7. ShutdownInv(over)' /\ ShutdownAlwaysAdmitted'
  BY DEF SharedInv, ShutdownInv, ShutdownAlwaysAdmitted, ownerVars
<1> QED
  BY <1>4, <1>5, <1>6, <1>7 DEF SharedInv

\* The end of a reader that stops the running input.
LEMMA StopAllKeeps ==
    ASSUME NEW over, SharedInv(over), entries' = CancelAllActive(entries),
           UNCHANGED <<ownerVars, fingerprints, readerReserve>>
    PROVE  SharedInv(over)'
<1>1. OwnerInv'
  BY CancelAllActiveOnly, OwnerUntouched DEF SharedInv, OwnerInv, OwnerTypes, OwnerTypeOK
<1>2. GrowsOnly(entries, entries')
  BY DEF GrowsOnly, CancelAllActive, SharedInv, OwnerInv, OwnerTypes, OwnerTypeOK, Registries,
     CancellationEntry, FinalStates
<1>3. owner' \in Input /\ registered' => entries'[current'.nonce].state # "absent"
  <2>1. owner \in Input => current.nonce \in Nonces
    BY RequestFacts DEF SharedInv, OwnerInv, OwnerTypes, OwnerTypeOK, HandlingStates, Input
  <2> QED
    BY <1>2, <2>1 DEF SharedInv, HeardInv, GrowsOnly, ownerVars
<1>4. HeardInv'
  BY <1>2, <1>3, HeardStep DEF SharedInv, OwnerInv, SemanticsTypeOK, ownerVars
<1> QED
  BY <1>1, <1>4 DEF SharedInv, SemanticsTypeOK, ShutdownInv, ShutdownAlwaysAdmitted, ownerVars

\* A step that concerns neither the owner nor the registry nor the readers' table.
LEMMA OtherKeeps ==
    ASSUME NEW over, SharedInv(over),
           UNCHANGED <<entries, ownerVars, fingerprints, readerReserve>>
    PROVE  SharedInv(over)'
<1>1. OwnerInv'
  BY OwnerUntouched, NoCancel DEF SharedInv, OwnerInv, OwnerTypes, OwnerTypeOK
<1> QED
  BY <1>1 DEF SharedInv, SemanticsTypeOK, HeardInv, ShutdownInv, ShutdownAlwaysAdmitted, ownerVars

\* A move of the owner between two requests, which may take the next one in hand.
LEMMA IdleKeeps ==
    ASSUME NEW over, SharedInv(over),
           UNCHANGED <<entries, ledger, ledgerReserve, registered, progress, response, effects,
                       releases, late, down, tombstoned, replies, fingerprints, readerReserve>>,
           owner \notin HandlingStates,
           owner' \notin HandlingStates \ {"handle"},
           current' \in Requests \cup {None},
           owner' = "handle" => current' \in Requests,
           owner \in over => owner' \in over
    PROVE  SharedInv(over)'
<1> USE DEF SharedInv, OwnerInv, HandlingStates, Input, Running, Executing
<1>1. OwnerTypes'
  BY DEF OwnerTypes, OwnerTypeOK
<1>2. LedgerInv' /\ EffectInv'
  BY DEF LedgerInv, EffectInv, Unbegun, Counted, Stopping, Concluded, Recorded
<1>3. TokenInv' /\ CancelStopsInput'
  BY DEF TokenInv, CancelStopsInput, Recorded
<1>4. StatusInv' /\ CancelStatusTruthful'
  BY DEF StatusInv, CancelStatusTruthful, Recorded
<1>5. SemanticsTypeOK' /\ HeardInv'
  BY DEF SemanticsTypeOK, HeardInv
<1>6. ShutdownInv(over)' /\ ShutdownAlwaysAdmitted'
  BY DEF ShutdownInv, ShutdownAlwaysAdmitted
<1> QED
  BY <1>1, <1>2, <1>3, <1>4, <1>5, <1>6

\* The answer to a request, written or not, after which the owner ends at a shutdown.
LEMMA ReplyKeeps ==
    ASSUME NEW over, over \cap HandlingStates = {}, SharedInv(over),
           owner = "respond",
           owner' \notin HandlingStates,
           \/ replies' = replies
           \/ replies' = replies \cup {<<current, response>>},
           current.operation = "shutdown" /\ response.outcome \notin Refusals =>
              owner' \in over,
           current' = None /\ response' = None /\ registered' = FALSE /\ progress' = NoProgress,
           UNCHANGED <<entries, ledger, ledgerReserve, effects, releases, late, down, tombstoned,
                       fingerprints, readerReserve>>
    PROVE  SharedInv(over)'
<1> USE DEF SharedInv, OwnerInv, HandlingStates, Input, Running, Executing
<1>1. OwnerTypes'
  <2>1. replies' \subseteq Requests \X Response
    BY DEF OwnerTypes, OwnerTypeOK
  <2>2. NoProgress \in Progress
    BY OwnerAssumption DEF NoProgress, Progress
  <2> QED
    BY <2>1, <2>2 DEF OwnerTypes, OwnerTypeOK
<1>2. LedgerInv' /\ EffectInv'
  BY DEF LedgerInv, EffectInv, Unbegun, Counted, Stopping, Concluded, Recorded
<1>3. TokenInv' /\ CancelStopsInput'
  BY DEF TokenInv, CancelStopsInput, Recorded
<1>4. StatusInv' /\ CancelStatusTruthful'
  BY DEF StatusInv, CancelStatusTruthful, Recorded
<1>5. SemanticsTypeOK' /\ HeardInv'
  BY DEF SemanticsTypeOK, HeardInv
<1>6. ShutdownInv(over)' /\ ShutdownAlwaysAdmitted'
  BY DEF ShutdownInv, ShutdownAlwaysAdmitted
<1> QED
  BY <1>1, <1>2, <1>3, <1>4, <1>5, <1>6

\* The broker as it starts.
LEMMA InitShared ==
    ASSUME NEW over, NEW start, start \notin HandlingStates, OwnerInit(start), SemanticsInit
    PROVE  SharedInv(over)
<1> USE DEF OwnerInit, SemanticsInit, HandlingStates
<1>1. OwnerTypes
  <2>1. entries \in Registries
    BY DEF EmptyRegistry, AbsentEntry, Registries, CancellationEntry
  <2>2. /\ ledger \in [Nonces -> LedgerRecord \cup {None}]
        /\ ledgerReserve \in [ReserveClasses -> Nat]
        /\ effects \in [Nonces -> Nat]
        /\ releases \in [Nonces -> Nat]
        /\ late \in [Nonces -> Nat]
        /\ down \in [Nonces -> Nat]
    OBVIOUS
  <2>3. progress \in Progress
    BY OwnerAssumption DEF NoProgress, Progress
  <2> QED
    BY <2>1, <2>2, <2>3 DEF OwnerTypes, OwnerTypeOK
<1>2. LedgerInv /\ ShutdownInv(over)
  BY DEF LedgerInv, ShutdownInv, Recorded, Executing, Running, Input, ReserveClasses
<1>3. EffectInv /\ TokenInv
  BY DEF EffectInv, Unbegun, TokenInv, Running, Input, EmptyRegistry, AbsentEntry
<1>4. StatusInv /\ HeardInv /\ SemanticsTypeOK
  BY DEF StatusInv, HeardInv, SemanticsTypeOK, Input, EmptyRegistry, AbsentEntry
<1>5. CancelStopsInput /\ CancelStatusTruthful /\ ShutdownAlwaysAdmitted
  BY DEF CancelStopsInput, CancelStatusTruthful, ShutdownAlwaysAdmitted, Recorded
<1> QED
  BY <1>1, <1>2, <1>3, <1>4, <1>5 DEF SharedInv, OwnerInv

\* A cancel that a reader accepted sets the token of a running input.
LEMMA HeardReaches ==
    ASSUME NEW over, SharedInv(over) PROVE CancelReachesInput
<1> SUFFICES ASSUME owner \in {"checkpoint", "emit"}, registered,
                    NEW n \in Nonces, fingerprints[n] # None,
                    current.nonce \in CancellationTarget(fingerprints[n])
             PROVE  entries[current.nonce].requested
  BY DEF CancelReachesInput, CancelAccepted, TokenSet, IsCancelled
<1>1. ledger[current.nonce] = None
  BY DEF SharedInv, OwnerInv, LedgerInv, Executing, Running, Input
<1>2. entries[current.nonce].state # "absent"
  BY DEF SharedInv, HeardInv, Input
<1> QED
  BY <1>1, <1>2 DEF SharedInv, HeardInv

----------------------------------------------------------------------------
\* A step of handle is a step of OncePerNonce or changes nothing of it.
LEMMA HandleRefines ==
    ASSUME OwnerInv, HandleStep PROVE [Abstract!Next]_Abstract!vars
<1> USE DEF Abstract!vars
<1>1. ASSUME UNCHANGED <<ledger, effects, releases, replies>>
      PROVE  [Abstract!Next]_Abstract!vars
  BY <1>1
<1>2. CASE Handle \/ ExecuteCancel \/ ExecuteOther \/ PreflightFails \/ BeginInput
              \/ Checkpoint \/ EmitFails \/ PostObserve
  BY <1>1, <1>2 DEF Handle, Invalid, Replay, Conflict, LedgerFull, Accept, Reply,
     ExecuteCancel, ExecuteOther, PreflightFails, BeginInput, Checkpoint, EmitFails, PostObserve
<1>3. ASSUME owner \in {"emit", "release"}, UNCHANGED <<ledger, replies>>,
             NEW count \in 0..MaximumChord, EventsLeave(count),
             NEW freed \in 0..effects[current.nonce] + 1,
             releases' = [releases EXCEPT ![current.nonce] = releases[current.nonce] + freed]
      PROVE  Abstract!Next
  <2>1. current.nonce \in Nonces /\ ledger[current.nonce] = None
    BY <1>3, RequestFacts DEF OwnerInv, OwnerTypes, OwnerTypeOK, HandlingStates, LedgerInv,
       Executing, Running, Input
  <2>2. Abstract!Send(current.nonce)
    BY <1>3, <2>1 DEF EventsLeave, Abstract!Send
  <2> QED
    BY <2>1, <2>2 DEF Abstract!Next
<1>4. CASE Emit
  <2>1. current.nonce \in Nonces /\ effects[current.nonce] \in Nat
    BY <1>4, RequestFacts DEF Emit, OwnerInv, OwnerTypes, OwnerTypeOK, HandlingStates
  <2>2. PICK keys \in Writes : EventsLeave(EventsOf(keys))
    BY <1>4 DEF Emit
  <2>3. EventsOf(keys) \in 0..MaximumChord
    BY <2>2, EventsOfFacts, OwnerAssumption DEF Writes
  <2>4. releases' = [releases EXCEPT ![current.nonce] = releases[current.nonce] + 0]
    BY <1>4 DEF Emit, OwnerInv, OwnerTypes, OwnerTypeOK
  <2>5. 0 \in 0..effects[current.nonce] + 1
    BY <2>1
  <2>6. owner = "emit" /\ UNCHANGED <<ledger, replies>>
    BY <1>4 DEF Emit
  <2> QED
    BY <1>3, <2>2, <2>3, <2>4, <2>5, <2>6
<1>5. CASE Release
  <2>1. /\ current.nonce \in Nonces /\ effects[current.nonce] \in Nat
        /\ progress \in Progress /\ response \in Response
        /\ releases \in [Nonces -> Nat] /\ down \in [Nonces -> Nat]
    BY <1>5, RequestFacts DEF Release, OwnerInv, OwnerTypes, OwnerTypeOK, HandlingStates
  <2>2. /\ owner = "release" /\ UNCHANGED <<ledger, replies>>
    BY <1>5 DEF Release
  <2>3. progress.held <= effects[current.nonce] + 1
    BY <2>1, <2>2 DEF OwnerInv, EffectInv, Stopping, Progress, Response
  <2>4. PICK count \in 0..progress.unflushed : EventsLeave(count)
    BY <1>5, <2>1, ReleaseParts
  <2>5. PICK freed \in 0..progress.held :
           releases' = [releases EXCEPT ![current.nonce] = releases[current.nonce] + freed]
    BY <1>5, <2>1, ReleaseParts
  <2>6. count \in 0..MaximumChord /\ freed \in 0..effects[current.nonce] + 1
    BY <2>1, <2>3, <2>4, <2>5, OwnerAssumption DEF Progress
  <2> QED
    BY <1>3, <2>2, <2>4, <2>5, <2>6
<1>6. CASE Record
  <2>1. /\ current \in Requests /\ response \in Response
        /\ current.nonce \in Nonces /\ ledger[current.nonce] = None
        /\ response.outcome \notin Refusals
        /\ Abstract!Honest(response, effects[current.nonce], releases[current.nonce])
    BY <1>6, RequestFacts DEF Record, OwnerInv, OwnerTypes, OwnerTypeOK, HandlingStates,
       LedgerInv, EffectInv, Concluded, Executing, Running
  <2>2. Abstract!Settle(current.nonce)
    BY <1>6, <2>1 DEF Record, Abstract!Settle
  <2> QED
    BY <2>1, <2>2 DEF Abstract!Next
<1> QED
  BY <1>2, <1>4, <1>5, <1>6 DEF HandleStep

\* An answer to a request is a step of OncePerNonce.
LEMMA ReplyRefines ==
    ASSUME OwnerInv, owner = "respond", replies' = replies \cup {<<current, response>>},
           UNCHANGED <<ledger, effects, releases>>
    PROVE  Abstract!Reply
BY DEF Abstract!Reply, OwnerInv, OwnerTypes, OwnerTypeOK, HandlingStates, LedgerInv
----------------------------------------------------------------------------
\* A set of natural numbers that is not empty has a least element: the library states
\* this for operators, and for relations as used here.
LEMMA Least ==
    ASSUME NEW S \in SUBSET Nat, S # {}
    PROVE  \E m \in S : \A k \in S : ~(k < m)
<1>1. \E m \in S : \A k \in S : <<k, m>> \notin OpToRel(<, Nat)
  BY NatLessThanWellFounded, WFMin
<1>2. \A k \in Nat, m \in Nat : k < m => <<k, m>> \in OpToRel(<, Nat)
  BY DEF OpToRel
<1> QED
  BY <1>1, <1>2

\* A request at the end of the line, which moves into the line.
LEMMA ConcatAppend ==
    ASSUME NEW S, NEW s \in Seq(S), NEW t \in Seq(S), NEW x \in S
    PROVE  /\ (s \o t) \o <<x>> = Append((s \o t) \o <<>>, x)
           /\ (s \o t) \o <<x>> = (s \o Append(t, x)) \o <<>>
           /\ (s \o t) \o <<>> = s \o t /\ s \o t \in Seq(S)
<1>1. s \o t \in Seq(S) /\ (s \o t) \o <<>> = s \o t
  BY ConcatProperties, ConcatEmptySeq
<1>2. (s \o t) \o <<x>> = Append(s \o t, x)
  BY <1>1, AppendIsConcat
<1>3. Append(t, x) = t \o <<x>> /\ <<x>> \in Seq(S)
  BY AppendIsConcat
<1>4. (s \o t) \o <<x>> = s \o Append(t, x)
  BY <1>3, ConcatAssociative
<1>5. Append(t, x) \in Seq(S) /\ s \o Append(t, x) \in Seq(S)
  BY <1>3, ConcatProperties
<1> QED
  BY <1>1, <1>2, <1>4, <1>5, ConcatEmptySeq

\* The request at the head of the line, and the line behind it.
LEMMA ConcatHead ==
    ASSUME NEW S, NEW t \in Seq(S), NEW u \in Seq(S), NEW x \in S
    PROVE  /\ Head((<<x>> \o t) \o u) = x
           /\ Tail((<<x>> \o t) \o u) = (<<>> \o t) \o u
           /\ (<<x>> \o t) \o u # <<>>
           /\ (<<x>> \o t) \o u \in Seq(S)
<1>1. (<<>> \o t) = t
  BY ConcatEmptySeq
<1>2. <<x>> \in Seq(S) /\ t \o u \in Seq(S) /\ <<x>> \o (t \o u) \in Seq(S)
  BY ConcatProperties
<1>3. (<<x>> \o t) \o u = <<x>> \o (t \o u)
  BY <1>2, ConcatAssociative
<1> QED
  BY <1>1, <1>2, <1>3

\* The request at the head of the line is taken in hand.
LEMMA ConcatMove ==
    ASSUME NEW S, NEW t \in Seq(S), t # <<>>
    PROVE  <<>> \o t = <<Head(t)>> \o Tail(t)
<1>1. <<>> \o t = t
  BY ConcatEmptySeq
<1> QED
  BY <1>1

\* The judgements that lead from one ledger to another, one for each request.
Judgements(judged, requests, after) ==
    /\ after = [i \in 0..Len(requests) |-> after[i]]
    /\ after[0] = judged
    /\ \A i \in 1..Len(requests) : after[i] = JudgeNext(after[i - 1], requests[i])

\* JudgeAll is where the judgements end.
LEMMA JudgeAllIs ==
    ASSUME NEW judged, NEW requests \in Seq(Requests), NEW after,
           Judgements(judged, requests, after)
    PROVE  JudgeAll(judged, requests) = after[Len(requests)]
<1> DEFINE n == Len(requests)
           Is(f) == f = [i \in 0..n |->
                           IF i = 0 THEN judged ELSE JudgeNext(f[i - 1], requests[i])]
           g == CHOOSE f : Is(f)
<1>1. JudgeAll(judged, requests) = g[n]
  BY DEF JudgeAll
<1>2. n \in Nat
  OBVIOUS
<1>3. Is(after)
  BY <1>2 DEF Judgements
<1>4. Is(g)
  BY <1>3, Zenon
<1> HIDE DEF g, n
<1>5. ASSUME g # after PROVE FALSE
  <2> DEFINE D == {i \in 0..n : g[i] # after[i]}
  <2>1. D # {}
    BY <1>3, <1>4, <1>5
  <2>2. D \in SUBSET Nat
    BY <1>2
  <2>3. PICK m \in D : \A k \in D : ~(k < m)
    BY <2>1, <2>2, Least
  <2>4. m # 0
    BY <1>2, <1>3, <1>4, <2>3
  <2>5. m - 1 \in 0..n /\ g[m - 1] = after[m - 1]
    BY <1>2, <2>3, <2>4
  <2> QED
    BY <1>2, <1>3, <1>4, <2>3, <2>4, <2>5
<1> QED
  BY <1>1, <1>5 DEF n

\* These requests, judged in turn, lead from one ledger to the other.
Leads(judged, requests, table) ==
    \E after : Judgements(judged, requests, after) /\ after[Len(requests)] = table

\* That is what ReaderAgreesWithOwner says of the pending requests.
LEMMA LeadsMeans ==
    ASSUME NEW judged, NEW requests \in Seq(Requests), NEW table,
           Leads(judged, requests, table)
    PROVE  JudgeAll(judged, requests) = table
BY JudgeAllIs DEF Leads

\* Without a request nothing changes.
LEMMA LeadsNowhere ==
    ASSUME NEW judged PROVE Leads(judged, <<>>, judged)
<1> DEFINE only == [i \in 0..0 |-> judged]
<1>1. Judgements(judged, <<>>, only) /\ only[Len(<<>>)] = judged
  BY DEF Judgements
<1> QED
  BY <1>1 DEF Leads

\* A reader judges one request more, the last.
LEMMA LeadsAppend ==
    ASSUME NEW judged, NEW table, NEW requests \in Seq(Requests), NEW request \in Requests,
           Leads(judged, requests, table)
    PROVE  Leads(judged, Append(requests, request), JudgeNext(table, request))
<1>1. PICK after : Judgements(judged, requests, after) /\ after[Len(requests)] = table
  BY DEF Leads
<1> DEFINE n == Len(requests)
           longer == [i \in 0..n + 1 |->
                        IF i = n + 1 THEN JudgeNext(after[n], request) ELSE after[i]]
<1>2. /\ n \in Nat /\ Len(Append(requests, request)) = n + 1
      /\ \A i \in 1..n : Append(requests, request)[i] = requests[i]
      /\ Append(requests, request)[n + 1] = request
  OBVIOUS
<1>3. Judgements(judged, Append(requests, request), longer)
  <2> HIDE DEF n
  <2>1. longer[0] = judged
    BY <1>1, <1>2 DEF Judgements
  <2>2. \A i \in 1..n : longer[i] = JudgeNext(longer[i - 1], requests[i])
    <3>1. ASSUME NEW i \in 1..n PROVE longer[i] = JudgeNext(longer[i - 1], requests[i])
      <4>1. after[i] = JudgeNext(after[i - 1], requests[i])
        BY <1>1, <3>1 DEF Judgements, n
      <4>2. n \in Nat
        BY <1>2
      <4>3. i \in 0..n + 1 /\ i - 1 \in 0..n + 1 /\ i # n + 1 /\ i - 1 # n + 1
        BY <3>1, <4>2
      <4> QED
        BY <4>1, <4>3
    <3> QED
      BY <3>1
  <2>3. longer[n + 1] = JudgeNext(longer[n], request)
    BY <1>2
  <2>4. \A i \in 1..n + 1 : longer[i] = JudgeNext(longer[i - 1], Append(requests, request)[i])
    BY <1>2, <2>2, <2>3
  <2> HIDE DEF longer
  <2>5. longer = [i \in 0..n + 1 |-> longer[i]]
    BY DEF longer
  <2> QED
    BY <1>2, <2>1, <2>4, <2>5 DEF Judgements
<1>4. longer[n + 1] = JudgeNext(table, request)
  BY <1>1, <1>2
<1> QED
  BY <1>2, <1>3, <1>4 DEF Leads

\* The owner judges the first of the pending requests.
LEMMA LeadsTail ==
    ASSUME NEW judged, NEW table, NEW requests \in Seq(Requests), requests # <<>>,
           Leads(judged, requests, table)
    PROVE  Leads(JudgeNext(judged, Head(requests)), Tail(requests), table)
<1>1. PICK after : Judgements(judged, requests, after) /\ after[Len(requests)] = table
  BY DEF Leads
<1> DEFINE n == Len(requests)
           shorter == [i \in 0..n - 1 |-> after[i + 1]]
<1>2. /\ n \in Nat \ {0} /\ Len(Tail(requests)) = n - 1 /\ Head(requests) = requests[1]
      /\ \A i \in 1..n - 1 : Tail(requests)[i] = requests[i + 1]
  OBVIOUS
<1>3. Judgements(JudgeNext(judged, Head(requests)), Tail(requests), shorter)
  <2> HIDE DEF n
  <2>1. shorter[0] = JudgeNext(judged, Head(requests))
    BY <1>1, <1>2 DEF Judgements, n
  <2>2. \A i \in 1..n - 1 : shorter[i] = JudgeNext(shorter[i - 1], Tail(requests)[i])
    <3>1. ASSUME NEW i \in 1..n - 1
          PROVE  shorter[i] = JudgeNext(shorter[i - 1], Tail(requests)[i])
      <4>1. /\ i \in 0..n - 1 /\ i - 1 \in 0..n - 1 /\ i + 1 \in 1..n /\ (i - 1) + 1 = i
            /\ (i + 1) - 1 = i
        BY <1>2, <3>1
      <4>2. after[i + 1] = JudgeNext(after[i], requests[i + 1])
        BY <1>1, <4>1 DEF Judgements, n
      <4>3. Tail(requests)[i] = requests[i + 1]
        BY <1>2
      <4> QED
        BY <4>1, <4>2, <4>3
    <3> QED
      BY <3>1
  <2> HIDE DEF shorter
  <2>3. shorter = [i \in 0..n - 1 |-> shorter[i]]
    BY DEF shorter
  <2> QED
    BY <1>2, <2>1, <2>2, <2>3 DEF Judgements
<1>4. shorter[n - 1] = table
  BY <1>1, <1>2
<1> QED
  BY <1>2, <1>3, <1>4 DEF Leads

\* What the readers have judged.
Table == [known |-> fingerprints, reserve |-> readerReserve]

\* The judgement of a reader is the judgement of JudgeNext.
LEMMA PrepareJudges ==
    ASSUME NEW request \in Requests, PrepareControlRequest(request)
    PROVE  Table' = JudgeNext(Table, request)
BY DEF Table, PrepareControlRequest, IsNew, JudgeNext, ReaderRecorded

\* What the owner has judged, nonce by nonce.
LEMMA JudgedFacts ==
    ASSUME OwnerInv
    PROVE  /\ OwnerJudged.reserve = ledgerReserve
           /\ owner = "handle" => {n \in Nonces : OwnerJudged.known[n] # None} = Recorded
           /\ owner = "handle" =>
                 \A n \in Nonces : OwnerJudged.known[n] = None <=> ledger[n] = None
<1>1. ASSUME NEW n \in Nonces, owner = "handle"
      PROVE  OwnerJudged.known[n] = None <=> ledger[n] = None
  BY <1>1, NoneAssumption DEF OwnerJudged, OwnerInv, OwnerTypes, OwnerTypeOK, LedgerRecord
<1> QED
  BY <1>1 DEF OwnerJudged, Recorded

\* handle's first step is the judgement of JudgeNext.
LEMMA HandleJudges ==
    ASSUME OwnerInv, Handle
    PROVE  OwnerJudged' = JudgeNext(OwnerJudged, current)
<1>1. current \in Requests /\ current.nonce \in Nonces /\ owner = "handle"
  BY RequestFacts DEF Handle, OwnerInv, OwnerTypes, OwnerTypeOK, HandlingStates
<1>2. /\ OwnerJudged.reserve = ledgerReserve
      /\ {n \in Nonces : OwnerJudged.known[n] # None} = Recorded
      /\ OwnerJudged.known[current.nonce] = None <=> ledger[current.nonce] = None
  BY <1>1, JudgedFacts
<1>3. CASE Invalid \/ Replay \/ Conflict \/ LedgerFull
  <2>1. JudgeNext(OwnerJudged, current) = OwnerJudged
    BY <1>2, <1>3 DEF Invalid, Replay, Conflict, LedgerFull, JudgeNext
  <2>2. owner' = "respond" /\ UNCHANGED <<ledger, ledgerReserve, current>>
    BY <1>3 DEF Handle, Invalid, Replay, Conflict, LedgerFull, Reply
  <2>3. OwnerJudged' = OwnerJudged
    BY <1>1, <2>2 DEF OwnerJudged
  <2> QED
    BY <2>1, <2>3
<1>4. CASE Accept
  <2>1. JudgeNext(OwnerJudged, current) =
           [known   |-> [OwnerJudged.known EXCEPT ![current.nonce] = current],
            reserve |-> Admit(ledgerReserve, current, Cardinality(Recorded))]
    BY <1>2, <1>4 DEF Accept, JudgeNext
  <2>2. /\ owner' = "execute" /\ UNCHANGED <<ledger, current>>
        /\ ledgerReserve' = Admit(ledgerReserve, current, Cardinality(Recorded))
        /\ ledger[current.nonce] = None
    BY <1>4 DEF Handle, Accept
  <2>3. OwnerJudged'.known = [OwnerJudged.known EXCEPT ![current.nonce] = current]
    BY <1>1, <2>2 DEF OwnerJudged
  <2>4. OwnerJudged' = [known |-> OwnerJudged'.known, reserve |-> ledgerReserve']
    BY DEF OwnerJudged
  <2> QED
    BY <2>1, <2>2, <2>3, <2>4
<1> QED
  BY <1>3, <1>4 DEF Handle

\* What follows in handle changes no judgement.
LEMMA ExecutionJudgesNothing ==
    ASSUME OwnerInv, HandleStep, owner # "handle"
    PROVE  OwnerJudged' = OwnerJudged
<1>1. current \in Requests /\ current.nonce \in Nonces
  BY HandleFrame, RequestFacts DEF OwnerInv, OwnerTypes, OwnerTypeOK
<1>2. CASE Record
  <2>1. \A n \in Nonces :
           OwnerJudged'.known[n] = OwnerJudged.known[n]
    BY <1>1, <1>2, NoneAssumption DEF Record, OwnerJudged, OwnerInv, OwnerTypes, OwnerTypeOK,
       LedgerInv, Executing, Running, LedgerRecord
  <2>2. OwnerJudged'.reserve = OwnerJudged.reserve
    BY <1>2 DEF Record, OwnerJudged
  <2> QED
    BY <2>1, <2>2 DEF OwnerJudged
<1>3. CASE ~Record
  <2>1. /\ UNCHANGED <<ledger, ledgerReserve, current>>
        /\ owner \in Executing /\ owner' \in Executing
    BY <1>3 DEF HandleStep, Handle, ExecuteCancel, ExecuteOther, PreflightFails, BeginInput,
       Checkpoint, Emit, EmitFails, Release, PostObserve, Conclude, CutShort, Executing,
       Running, Input
  <2> QED
    BY <2>1 DEF OwnerJudged, Executing, Running, Input
<1> QED
  BY <1>2, <1>3
=============================================================================
