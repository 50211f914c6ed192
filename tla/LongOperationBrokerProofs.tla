---------------------- MODULE LongOperationBrokerProofs ---------------------
(***************************************************************************)
(* Proofs about the long operation broker, for any handles, processes and  *)
(* limits.  They go in four rounds:                                        *)
(*  - what the registry's methods do, as operators on records and files:   *)
(*    to each handle one Effect, whatever write fails (...Effect lemmas);  *)
(*  - MemoryInv, what holds within each process: its types, its limits,    *)
(*    and that the place a recording's thread is in fits its record;       *)
(*  - AgreeInv and FileInv: the memory of the process that serves is what  *)
(*    is on file, and the files keep to what was done and told.  These     *)
(*    need OneServing, at most one process that has opened the journal and *)
(*    not ended, which the code leaves to the endpoint's first instance;   *)
(*  - the refinement of OperationLifecycle, one action of it per handle.   *)
(***************************************************************************)
EXTENDS LongOperationBroker, FiniteSetTheorems, TLAPS

----------------------------------------------------------------------------
(* The registry's methods, as operators: what each does to one handle.     *)

IsOutcome(e) == e \in [records : Records, journal : Records, ok : BOOLEAN]

\* A method leaves a handle alone, or drops it because its record has expired.
Quiet(m, f, e, p) ==
    \/ e.records[p] = m[p] /\ e.journal[p] = f[p]
    \/ /\ m[p] # None /\ Terminal(m[p])
       /\ e.records[p] = None /\ e.journal[p] \in {f[p], None}

\* A method puts a record on file and in memory.
Files(e, p, r) == e.records[p] = r /\ e.journal[p] = r

\* The transitions of a record.
Change(r, s, acted) ==
    \E now \in Nat :
        \/ CanStartDispatch(r) /\ s = Stamped(StartDispatch(r), now)
        \/ CanRequestCancel(r) /\ s = Stamped(RequestCancel(r), now)
        \/ CanComplete(r) /\ acted /\ s = Stamped(Complete(r), now)
        \/ CanFail(r) /\ s = Stamped(Fail(r), now)
        \/ ~Terminal(r) /\ s = Stamped(RecoverAfterInterruption(r), now)

\* What a method may do to a handle that was given out before.
Effect(m, f, e, p, acted) ==
    \/ Quiet(m, f, e, p)
    \/ e.records[p] = m[p] /\ e.journal[p] = m[p]
    \/ m[p] # None /\ Change(m[p], e.records[p], acted) /\ Files(e, p, e.records[p])

\* Every transition of a record gives a record.
LEMMA ChangeType ==
    ASSUME NEW r \in LongOperationRecord, NEW now \in Nat
    PROVE  {Stamped(StartDispatch(r), now), Stamped(RequestCancel(r), now),
            Stamped(Complete(r), now), Stamped(Fail(r), now),
            Stamped(RecoverAfterInterruption(r), now)} \subseteq LongOperationRecord
BY DEF StartDispatch, RequestCancel, Complete, Fail, RecoverAfterInterruption, Stamped,
   LongOperationRecord, Statuses, EndStatuses

\* A record that has not ended changes into a valid one, and a dispatch is not taken back.
LEMMA ChangeAdvances ==
    ASSUME NEW r \in LongOperationRecord, NEW s, NEW acted, Change(r, s, acted)
    PROVE  /\ s \in LongOperationRecord /\ s # None
           /\ ~Terminal(r)
           /\ IsValid(r) => IsValid(s)
           /\ r.dispatchStarted => s.dispatchStarted
<1>1. PICK now \in Nat :
        \/ CanStartDispatch(r) /\ s = Stamped(StartDispatch(r), now)
        \/ CanRequestCancel(r) /\ s = Stamped(RequestCancel(r), now)
        \/ CanComplete(r) /\ acted /\ s = Stamped(Complete(r), now)
        \/ CanFail(r) /\ s = Stamped(Fail(r), now)
        \/ ~Terminal(r) /\ s = Stamped(RecoverAfterInterruption(r), now)
  BY DEF Change
<1>2. s \in LongOperationRecord
  BY <1>1, ChangeType
<1>3. /\ ~Terminal(r)
      /\ IsValid(r) => IsValid(s)
      /\ r.dispatchStarted => s.dispatchStarted
  BY <1>1 DEF CanStartDispatch, StartDispatch, CanRequestCancel, RequestCancel, CanComplete,
     Complete, CanFail, Fail, RecoverAfterInterruption, Stamped, LongOperationRecord,
     Statuses, EndStatuses, Terminal, IsValid
<1> QED
  BY <1>2, <1>3, BrokerAssumption

\* expire touches no handle but those it drops, and may stop after the first failure.
LEMMA ExpireEffect ==
    ASSUME NEW m \in Records, NEW f \in Records, NEW now \in Nat, NEW e \in Expire(m, f, now)
    PROVE  IsOutcome(e) /\ \A p \in Operations : Quiet(m, f, e, p)
<1> DEFINE expired == {p \in Present(m) : Expired(m[p], now)}
<1>1. \A p \in expired : p \in Operations /\ m[p] # None /\ Terminal(m[p])
  BY DEF Present, Expired
<1>2. \A g \in SUBSET expired : Without(m, g) \in Records /\ Without(f, g) \in Records
  BY DEF Without, Records
<1>3. CASE e = Outcome(Without(m, expired), Without(f, expired), TRUE)
  <2>1. IsOutcome(e)
    BY <1>2, <1>3 DEF Outcome, IsOutcome
  <2>2. ASSUME NEW p \in Operations PROVE Quiet(m, f, e, p)
    BY <1>1, <1>3 DEF Outcome, Quiet, Without
  <2> QED BY <2>1, <2>2
<1>4. ASSUME NEW bad \in expired, NEW done \in SUBSET (expired \ {bad}),
             e = Outcome(Without(m, done \cup {bad}), Without(f, done), FALSE)
      PROVE  IsOutcome(e) /\ \A p \in Operations : Quiet(m, f, e, p)
  <2>1. done \cup {bad} \in SUBSET expired /\ done \in SUBSET expired
    OBVIOUS
  <2>2. IsOutcome(e)
    BY <2>1, <1>2, <1>4 DEF Outcome, IsOutcome
  <2>3. ASSUME NEW p \in Operations PROVE Quiet(m, f, e, p)
    BY <1>1, <1>4 DEF Outcome, Quiet, Without
  <2> QED BY <2>2, <2>3
<1>5. CASE JournalFails /\
           e \in UNION {{Outcome(Without(m, done \cup {bad}), Without(f, done), FALSE) :
                          done \in SUBSET (expired \ {bad})} : bad \in expired}
  <2>1. PICK bad \in expired :
          e \in {Outcome(Without(m, done \cup {bad}), Without(f, done), FALSE) :
                   done \in SUBSET (expired \ {bad})}
    BY <1>5, Zenon
  <2>2. PICK done \in SUBSET (expired \ {bad}) :
          e = Outcome(Without(m, done \cup {bad}), Without(f, done), FALSE)
    BY <2>1, Zenon
  <2> QED
    BY <1>4, <2>2, Zenon
<1> QED
  BY <1>3, <1>5, Zenon DEF Expire

\* persist puts one record on file and in memory, or neither.
LEMMA PersistEffect ==
    ASSUME NEW m \in Records, NEW f \in Records, NEW o \in Operations,
           NEW r \in LongOperationRecord, NEW e \in Persist(m, f, o, r)
    PROVE  /\ IsOutcome(e)
           /\ \A p \in Operations \ {o} : e.records[p] = m[p] /\ e.journal[p] = f[p]
           /\ e.ok => Files(e, o, r)
           /\ ~e.ok => e.records = m /\ e.journal = f
<1>1. CASE e = Outcome([m EXCEPT ![o] = r], [f EXCEPT ![o] = r], TRUE)
  BY <1>1 DEF Outcome, IsOutcome, Records, Files
<1>2. CASE e = Outcome(m, f, FALSE)
  BY <1>2 DEF Outcome, IsOutcome
<1> QED
  BY <1>1, <1>2 DEF Persist

\* What Mutate does, for any change: the three changes it is used for follow.
Mutates(m, f, o, e, can, r) ==
    /\ IsOutcome(e)
    /\ \A p \in Operations \ {o} : Quiet(m, f, e, p)
    /\ \/ ~e.ok /\ Quiet(m, f, e, o)
       \/ e.ok /\ m[o] # None /\ can /\ Files(e, o, r)

\* A method that follows a successful expire: expire's effects and then one record.
LEMMA AfterExpireEffect ==
    ASSUME NEW m \in Records, NEW f \in Records, NEW o \in Operations, NEW now \in Nat,
           NEW x \in Expire(m, f, now), x.records[o] # None,
           NEW r \in LongOperationRecord, NEW e \in Persist(x.records, x.journal, o, r)
    PROVE  Mutates(m, f, o, e, TRUE, r) /\ m[o] = x.records[o]
<1>1. IsOutcome(x) /\ \A p \in Operations : Quiet(m, f, x, p)
  BY ExpireEffect
<1>2. x.records \in Records /\ x.journal \in Records
  BY <1>1 DEF IsOutcome
<1>3. m[o] = x.records[o]
  BY <1>1 DEF Quiet
<1>4. /\ IsOutcome(e)
      /\ \A p \in Operations \ {o} : e.records[p] = x.records[p] /\ e.journal[p] = x.journal[p]
      /\ e.ok => Files(e, o, r)
      /\ ~e.ok => e.records = x.records /\ e.journal = x.journal
  BY <1>2, PersistEffect
<1> QED
  BY <1>1, <1>3, <1>4 DEF Quiet, Mutates, IsOutcome

\* fail: also where expire failed before it.
LEMMA FailEffect ==
    ASSUME NEW m \in Records, NEW f \in Records, NEW o \in Operations, NEW now \in Nat,
           NEW e \in Mutate(m, f, o, now, CanFail, Fail)
    PROVE  Mutates(m, f, o, e, CanFail(m[o]), Stamped(Fail(m[o]), now))
<1>1. PICK x \in Expire(m, f, now) :
         \/ ~x.ok /\ e = x
         \/ /\ IsCandidate(x.records, o, now) /\ CanFail(x.records[o])
            /\ e \in Persist(x.records, x.journal, o, Stamped(Fail(x.records[o]), now))
         \/ e = Outcome(x.records, x.journal, FALSE)
  BY DEF Mutate, AfterExpire
<1>2. IsOutcome(x) /\ \A p \in Operations : Quiet(m, f, x, p)
  BY ExpireEffect
<1>3. CASE ~x.ok /\ e = x
  BY <1>2, <1>3 DEF Mutates
<1>4. CASE e = Outcome(x.records, x.journal, FALSE)
  BY <1>2, <1>4 DEF Mutates, IsOutcome, Outcome, Quiet
<1>5. CASE /\ IsCandidate(x.records, o, now) /\ CanFail(x.records[o])
           /\ e \in Persist(x.records, x.journal, o, Stamped(Fail(x.records[o]), now))
  <2>1. x.records[o] # None /\ x.records[o] \in LongOperationRecord
    BY <1>2, <1>5 DEF IsCandidate, IsOutcome, Records
  <2>2. Stamped(Fail(x.records[o]), now) \in LongOperationRecord
    BY <2>1, ChangeType
  <2> QED
    BY <1>5, <2>1, <2>2, AfterExpireEffect DEF Mutates
<1> QED
  BY <1>1, <1>3, <1>4, <1>5

\* start_dispatch.
LEMMA StartDispatchEffect ==
    ASSUME NEW m \in Records, NEW f \in Records, NEW o \in Operations, NEW now \in Nat,
           NEW e \in Mutate(m, f, o, now, CanStartDispatch, StartDispatch)
    PROVE  Mutates(m, f, o, e, CanStartDispatch(m[o]), Stamped(StartDispatch(m[o]), now))
<1>1. PICK x \in Expire(m, f, now) :
         \/ ~x.ok /\ e = x
         \/ /\ IsCandidate(x.records, o, now) /\ CanStartDispatch(x.records[o])
            /\ e \in Persist(x.records, x.journal, o, Stamped(StartDispatch(x.records[o]), now))
         \/ e = Outcome(x.records, x.journal, FALSE)
  BY DEF Mutate, AfterExpire
<1>2. IsOutcome(x) /\ \A p \in Operations : Quiet(m, f, x, p)
  BY ExpireEffect
<1>3. CASE ~x.ok /\ e = x
  BY <1>2, <1>3 DEF Mutates
<1>4. CASE e = Outcome(x.records, x.journal, FALSE)
  BY <1>2, <1>4 DEF Mutates, IsOutcome, Outcome, Quiet
<1>5. CASE /\ IsCandidate(x.records, o, now) /\ CanStartDispatch(x.records[o])
           /\ e \in Persist(x.records, x.journal, o, Stamped(StartDispatch(x.records[o]), now))
  <2>1. x.records[o] # None /\ x.records[o] \in LongOperationRecord
    BY <1>2, <1>5 DEF IsCandidate, IsOutcome, Records
  <2>2. Stamped(StartDispatch(x.records[o]), now) \in LongOperationRecord
    BY <2>1, ChangeType
  <2> QED
    BY <1>5, <2>1, <2>2, AfterExpireEffect DEF Mutates
<1> QED
  BY <1>1, <1>3, <1>4, <1>5

\* complete.
LEMMA CompleteEffect ==
    ASSUME NEW m \in Records, NEW f \in Records, NEW o \in Operations, NEW now \in Nat,
           NEW e \in Mutate(m, f, o, now, CanComplete, Complete)
    PROVE  Mutates(m, f, o, e, CanComplete(m[o]), Stamped(Complete(m[o]), now))
<1>1. PICK x \in Expire(m, f, now) :
         \/ ~x.ok /\ e = x
         \/ /\ IsCandidate(x.records, o, now) /\ CanComplete(x.records[o])
            /\ e \in Persist(x.records, x.journal, o, Stamped(Complete(x.records[o]), now))
         \/ e = Outcome(x.records, x.journal, FALSE)
  BY DEF Mutate, AfterExpire
<1>2. IsOutcome(x) /\ \A p \in Operations : Quiet(m, f, x, p)
  BY ExpireEffect
<1>3. CASE ~x.ok /\ e = x
  BY <1>2, <1>3 DEF Mutates
<1>4. CASE e = Outcome(x.records, x.journal, FALSE)
  BY <1>2, <1>4 DEF Mutates, IsOutcome, Outcome, Quiet
<1>5. CASE /\ IsCandidate(x.records, o, now) /\ CanComplete(x.records[o])
           /\ e \in Persist(x.records, x.journal, o, Stamped(Complete(x.records[o]), now))
  <2>1. x.records[o] # None /\ x.records[o] \in LongOperationRecord
    BY <1>2, <1>5 DEF IsCandidate, IsOutcome, Records
  <2>2. Stamped(Complete(x.records[o]), now) \in LongOperationRecord
    BY <2>1, ChangeType
  <2> QED
    BY <1>5, <2>1, <2>2, AfterExpireEffect DEF Mutates
<1> QED
  BY <1>1, <1>3, <1>4, <1>5

\* request_cancel, which leaves an ended record as it is.
LEMMA CancelEffect ==
    ASSUME NEW m \in Records, NEW f \in Records, NEW o \in Operations, NEW now \in Nat,
           NEW e \in Cancel(m, f, o, now)
    PROVE  \/ Mutates(m, f, o, e, CanRequestCancel(m[o]), Stamped(RequestCancel(m[o]), now))
           \/ /\ IsOutcome(e) /\ e.ok
              /\ \A p \in Operations : Quiet(m, f, e, p)
              /\ m[o] # None /\ e.records[o] = m[o]
<1>1. PICK x \in Expire(m, f, now) :
         \/ ~x.ok /\ e = x
         \/ /\ IsCandidate(x.records, o, now) /\ CanRequestCancel(x.records[o])
            /\ e \in Persist(x.records, x.journal, o, Stamped(RequestCancel(x.records[o]), now))
         \/ IsCandidate(x.records, o, now) /\ e = Outcome(x.records, x.journal, TRUE)
         \/ e = Outcome(x.records, x.journal, FALSE)
  BY DEF Cancel, AfterExpire
<1>2. IsOutcome(x) /\ \A p \in Operations : Quiet(m, f, x, p)
  BY ExpireEffect
<1>3. CASE ~x.ok /\ e = x
  BY <1>2, <1>3 DEF Mutates
<1>4. CASE e = Outcome(x.records, x.journal, FALSE)
  BY <1>2, <1>4 DEF Mutates, IsOutcome, Outcome, Quiet
<1>5. CASE /\ IsCandidate(x.records, o, now) /\ CanRequestCancel(x.records[o])
           /\ e \in Persist(x.records, x.journal, o, Stamped(RequestCancel(x.records[o]), now))
  <2>1. x.records[o] # None /\ x.records[o] \in LongOperationRecord
    BY <1>2, <1>5 DEF IsCandidate, IsOutcome, Records
  <2>2. Stamped(RequestCancel(x.records[o]), now) \in LongOperationRecord
    BY <2>1, ChangeType
  <2> QED
    BY <1>5, <2>1, <2>2, AfterExpireEffect DEF Mutates
<1>6. CASE IsCandidate(x.records, o, now) /\ e = Outcome(x.records, x.journal, TRUE)
  BY <1>2, <1>6 DEF IsCandidate, IsOutcome, Outcome, Quiet
<1> QED
  BY <1>1, <1>3, <1>4, <1>5, <1>6

\* None of these methods drops or makes up a record but by expire or its own change.
LEMMA MutatesEffect ==
    ASSUME NEW m, NEW f, NEW o \in Operations, NEW e, NEW can, NEW r, NEW ran0,
           Mutates(m, f, o, e, can, r), m[o] # None /\ can => Change(m[o], r, o \in ran0)
    PROVE  \A p \in Operations : Effect(m, f, e, p, p \in ran0)
BY DEF Mutates, Effect, Files

----------------------------------------------------------------------------
(* How many records there are.                                             *)

Tracked(m) == Cardinality(Present(m)) <= MaximumTracked

Running(m) == Cardinality(Active(m)) <= MaximumActive

\* Counts do not grow when no handle is added.
LEMMA FewerRecords ==
    ASSUME NEW m, NEW n, Present(n) \subseteq Present(m)
    PROVE  /\ Tracked(m) => Tracked(n)
           /\ Active(n) \subseteq Active(m) /\ Running(m) => Running(n)
<1>1. IsFiniteSet(Present(m)) /\ IsFiniteSet(Active(m))
  BY BrokerAssumption, FS_Subset DEF Present, Active
<1>2. Cardinality(Present(n)) <= Cardinality(Present(m))
  BY <1>1, FS_Subset
<1>3. Active(n) \subseteq Active(m) => Cardinality(Active(n)) <= Cardinality(Active(m))
  BY <1>1, FS_Subset
<1>4. {Cardinality(Present(m)), Cardinality(Present(n)), Cardinality(Active(m))} \subseteq Nat
  BY <1>1, FS_Subset, FS_CardinalityType
<1>5. Active(n) \subseteq Active(m) => Cardinality(Active(n)) \in Nat
  BY <1>1, FS_Subset, FS_CardinalityType
<1> QED
  BY <1>2, <1>3, <1>4, <1>5, BrokerAssumption DEF Tracked, Running

\* A method that adds no handle keeps the registry within its limits.
LEMMA EffectLimits ==
    ASSUME NEW m \in Records, NEW f, NEW e, NEW acted,
           \A p \in Operations : Effect(m, f, e, p, p \in acted)
    PROVE  /\ Present(e.records) \subseteq Present(m)
           /\ Active(e.records) \subseteq Active(m)
<1>1. \A p \in Operations : m[p] # None => m[p] \in LongOperationRecord
  BY DEF Records
<1>2. ASSUME NEW p \in Operations, e.records[p] # None
      PROVE  m[p] # None /\ (~Terminal(e.records[p]) => ~Terminal(m[p]))
  BY <1>1, <1>2, ChangeAdvances DEF Effect, Quiet
<1> QED
  BY <1>2 DEF Present, Active

\* accept adds one handle, where there is room for it, and touches others only by expire.
LEMMA AdmitEffect ==
    ASSUME NEW m \in Records, NEW f \in Records, NEW o \in Operations, NEW now \in Nat,
           m[o] = None, f[o] = None, Tracked(m), Running(m),
           NEW e \in Admit(m, f, o, now)
    PROVE  /\ IsOutcome(e)
           /\ \A p \in Operations \ {o} : Quiet(m, f, e, p)
           /\ \/ ~e.ok /\ e.records[o] = None /\ e.journal[o] = None
              \/ e.ok /\ Files(e, o, Accepted(now))
           /\ Tracked(e.records) /\ Running(e.records)
<1>1. PICK x \in Expire(m, f, now) :
         \/ ~x.ok /\ e = x
         \/ HasRoom(x.records) /\ e \in Persist(x.records, x.journal, o, Accepted(now))
         \/ e = Outcome(x.records, x.journal, FALSE)
  BY DEF Admit, AfterExpire
<1>2. IsOutcome(x) /\ \A p \in Operations : Quiet(m, f, x, p)
  BY ExpireEffect
<1>3. x.records[o] = None /\ x.journal[o] = None
  BY <1>2 DEF Quiet
<1>4. x.records \in Records /\ x.journal \in Records
  BY <1>2 DEF IsOutcome
<1>5. Tracked(x.records) /\ Running(x.records)
  <2>1. \A p \in Operations : Effect(m, f, x, p, p \in {})
    BY <1>2 DEF Effect
  <2> QED
    BY <2>1, EffectLimits, FewerRecords
<1>6. CASE e.records = x.records /\ e.journal = x.journal /\ ~e.ok /\ IsOutcome(e)
  BY <1>2, <1>3, <1>5, <1>6 DEF Quiet
<1>7. CASE HasRoom(x.records) /\ e \in Persist(x.records, x.journal, o, Accepted(now)) /\ e.ok
  <2>1. Accepted(now) \in LongOperationRecord /\ ~Terminal(Accepted(now))
    BY DEF Accepted, LongOperationRecord, Statuses, Terminal, EndStatuses
  <2>2. /\ IsOutcome(e) /\ Files(e, o, Accepted(now))
        /\ \A p \in Operations \ {o} : e.records[p] = x.records[p] /\ e.journal[p] = x.journal[p]
    BY <1>4, <1>7, <2>1, PersistEffect
  <2>3. /\ Present(e.records) = Present(x.records) \cup {o}
        /\ Active(e.records) = Active(x.records) \cup {o}
        /\ o \notin Present(x.records) /\ o \notin Active(x.records)
    BY <1>3, <2>1, <2>2, BrokerAssumption DEF Present, Active, Files
  <2>4. IsFiniteSet(Present(x.records)) /\ IsFiniteSet(Active(x.records))
    BY BrokerAssumption, FS_Subset DEF Present, Active
  <2>5. /\ Cardinality(Present(e.records)) = Cardinality(Present(x.records)) + 1
        /\ Cardinality(Active(e.records)) = Cardinality(Active(x.records)) + 1
    BY <2>3, <2>4, FS_AddElement
  <2>6. Cardinality(Present(x.records)) \in Nat /\ Cardinality(Active(x.records)) \in Nat
    BY <2>4, FS_CardinalityType
  <2>7. Tracked(e.records) /\ Running(e.records)
    BY <1>7, <2>5, <2>6, BrokerAssumption DEF HasRoom, Tracked, Running
  <2> QED
    BY <1>2, <1>7, <2>2, <2>7 DEF Quiet
<1>8. CASE HasRoom(x.records) /\ e \in Persist(x.records, x.journal, o, Accepted(now)) /\ ~e.ok
  <2>1. Accepted(now) \in LongOperationRecord
    BY DEF Accepted, LongOperationRecord, Statuses
  <2> QED
    BY <1>4, <1>6, <1>8, <2>1, PersistEffect
<1>9. CASE ~x.ok /\ e = x
  BY <1>2, <1>6, <1>9
<1>10. CASE e = Outcome(x.records, x.journal, FALSE)
  <2>1. e.records = x.records /\ e.journal = x.journal /\ ~e.ok /\ IsOutcome(e)
    BY <1>4, <1>10 DEF Outcome, IsOutcome
  <2> QED
    BY <1>6, <2>1
<1> QED
  BY <1>1, <1>7, <1>8, <1>9, <1>10

\* What shutdown does to one handle.
LEMMA CancellationsEffect ==
    ASSUME NEW m \in Records, NEW f \in Records, NEW owned \in SUBSET Operations,
           NEW now \in Nat, NEW e \in Cancellations(m, f, owned, now)
    PROVE  /\ IsOutcome(e)
           /\ \A p \in Operations :
                \/ Quiet(m, f, e, p)
                \/ e.records[p] = m[p] /\ e.journal[p] = m[p]
                \/ /\ m[p] # None /\ CanRequestCancel(m[p])
                   /\ Files(e, p, Stamped(RequestCancel(m[p]), now))
<1> DEFINE Changed(n, done) == CancelEach(n, done, now)
           Filed(n, g, done) == CopyTo(g, done, Changed(n, done))
<1>1. CASE e = Outcome(m, f, TRUE)
  BY <1>1 DEF IsOutcome, Outcome, Quiet
<1>2. ASSUME NEW x \in Expire(m, f, now), NEW ok \in BOOLEAN,
             NEW done \in SUBSET {o \in owned : IsCandidate(x.records, o, now)},
             e = Outcome(Changed(x.records, done), Filed(x.records, x.journal, done), ok)
      PROVE  /\ IsOutcome(e)
             /\ \A p \in Operations :
                  \/ Quiet(m, f, e, p)
                  \/ e.records[p] = m[p] /\ e.journal[p] = m[p]
                  \/ /\ m[p] # None /\ CanRequestCancel(m[p])
                     /\ Files(e, p, Stamped(RequestCancel(m[p]), now))
  <2>1. IsOutcome(x) /\ \A p \in Operations : Quiet(m, f, x, p)
    BY ExpireEffect
  <2>2. x.records \in Records /\ x.journal \in Records
    BY <2>1 DEF IsOutcome
  <2>3. \A p \in Operations : x.records[p] \in LongOperationRecord \cup {None}
    BY <2>2 DEF Records
  <2>4. \A p \in done : p \in Operations /\ x.records[p] # None /\ x.records[p] = m[p]
    BY <2>1 DEF IsCandidate, Quiet
  <2>5. \A p \in done : Stamped(RequestCancel(x.records[p]), now) \in LongOperationRecord
    BY <2>3, <2>4, ChangeType
  <2>6. Changed(x.records, done) \in Records
    BY <2>3, <2>5 DEF Records, CancelEach
  <2>7. Filed(x.records, x.journal, done) \in Records
    BY <2>2, <2>6 DEF Records, CopyTo
  <2>8. IsOutcome(e)
    BY <1>2, <2>6, <2>7 DEF IsOutcome, Outcome
  <2>9. ASSUME NEW p \in Operations \ done PROVE Quiet(m, f, e, p)
    <3>1. e.records[p] = x.records[p] /\ e.journal[p] = x.journal[p]
      BY <1>2 DEF Outcome, CancelEach, CopyTo
    <3> QED
      BY <2>1, <3>1 DEF Quiet
  <2>10. ASSUME NEW p \in done
         PROVE  \/ e.records[p] = m[p] /\ e.journal[p] = m[p]
                \/ /\ m[p] # None /\ CanRequestCancel(m[p])
                   /\ Files(e, p, Stamped(RequestCancel(m[p]), now))
    BY <1>2, <2>4 DEF Outcome, Files, CancelEach, CopyTo
  <2> QED
    BY <2>8, <2>9, <2>10
<1>3. CASE e \in Expire(m, f, now)
  BY <1>3, ExpireEffect
<1>4. CASE e # Outcome(m, f, TRUE) /\ e \notin Expire(m, f, now)
  <2> DEFINE Commit(n, g) == {Outcome(Changed(n, done), Filed(n, g, done), done = owned) :
                                done \in CancelledSets(n, owned, now)}
  <2>0. e \in UNION {IF x.ok THEN Commit(x.records, x.journal) ELSE {x} : x \in Expire(m, f, now)}
    BY <1>4, Zenon DEF Cancellations, AfterExpire
  <2>1. PICK x \in Expire(m, f, now) : e \in Commit(x.records, x.journal)
    <3> HIDE DEF Commit
    <3> QED BY <1>4, <2>0
  <2>2. PICK done \in CancelledSets(x.records, owned, now) :
          e = Outcome(Changed(x.records, done), Filed(x.records, x.journal, done), done = owned)
    BY <2>1, Zenon
  <2>3. (done = owned) \in BOOLEAN /\ done \in SUBSET {o \in owned : IsCandidate(x.records, o, now)}
    BY DEF CancelledSets
  <2> QED
    BY <1>2, <2>2, <2>3, Zenon
<1> QED
  BY <1>1, <1>3, <1>4

\* What open does to one handle it loaded.
LEMMA RecoveredEffect ==
    ASSUME NEW m \in Records, NEW f \in Records, NEW o \in Operations, NEW now \in Nat,
           m[o] # None, NEW e \in Recovered(m, f, o, now)
    PROVE  /\ IsOutcome(e)
           /\ \A p \in Operations \ {o} : e.records[p] = m[p] /\ e.journal[p] = f[p]
           /\ ~e.ok => e.records = m /\ e.journal = f
           /\ e.ok =>
                \/ Quiet(m, f, e, o) /\ (e.records[o] = None \/ Terminal(e.records[o]))
                \/ /\ ~Terminal(m[o]) /\ Terminal(e.records[o])
                   /\ Files(e, o, Stamped(RecoverAfterInterruption(m[o]), now))
<1> DEFINE r == Stamped(RecoverAfterInterruption(m[o]), now)
<1>1. m[o] \in LongOperationRecord
  BY DEF Records
<1>2. r \in LongOperationRecord /\ Terminal(r)
  BY <1>1 DEF LongOperationRecord, Statuses, EndStatuses, Terminal, Stamped,
     RecoverAfterInterruption
<1>3. \/ Expired(m[o], now) /\ e = Outcome(Without(m, {o}), Without(f, {o}), TRUE)
      \/ e = Outcome(m, f, FALSE)
      \/ Terminal(m[o]) /\ e = Outcome(m, f, TRUE)
      \/ ~Terminal(m[o]) /\ e \in Persist(m, f, o, r)
  BY Zenon DEF Recovered
<1>4. CASE Expired(m[o], now) /\ e = Outcome(Without(m, {o}), Without(f, {o}), TRUE)
  <2>1. Without(m, {o}) \in Records /\ Without(f, {o}) \in Records
    BY DEF Without, Records
  <2> QED
    BY <1>4, <2>1 DEF Expired, Outcome, IsOutcome, Without, Quiet
<1>5. CASE e = Outcome(m, f, FALSE)
  BY <1>5 DEF Outcome, IsOutcome
<1>6. CASE Terminal(m[o]) /\ e = Outcome(m, f, TRUE)
  BY <1>6 DEF Outcome, IsOutcome, Quiet
<1>7. CASE ~Terminal(m[o]) /\ e \in Persist(m, f, o, r)
  BY <1>2, <1>7, PersistEffect DEF Files
<1> QED
  BY <1>3, <1>4, <1>5, <1>6, <1>7

----------------------------------------------------------------------------
(* The memory of one process.                                              *)

Early == {"ended", "launched", "open", "recover"}

\* A live thread has a record that is not ended, and dispatched from its dispatch on.
Fits(r, at, acted) ==
    /\ at \in {"spawned", "dispatching", "declining"} =>
          r # None /\ ~Terminal(r) /\ ~r.dispatchStarted
    /\ at \in {"running", "completing", "failing"} =>
          r # None /\ ~Terminal(r) /\ r.dispatchStarted
    /\ at = "completing" => acted

MemoryOK(s, acted) ==
    /\ Tracked(s.records)
    /\ s.at # "recover" => Running(s.records)
    /\ s.at = "recover" =>
          /\ s.pending \subseteq Present(s.records)
          /\ Active(s.records) \subseteq s.pending
    /\ \A o \in Operations :
          /\ s.at \in Early => s.tasks[o].at = "none"
          /\ Fits(s.records[o], s.tasks[o].at, o \in acted)

Typed ==
    /\ clock \in Nat
    /\ journal \in Records
    /\ endpoint \in Brokers \cup {None}
    /\ broker \in [Brokers -> BrokerStates]
    /\ issued \subseteq Operations
    /\ ran \subseteq Operations
    /\ told \in [Operations -> EndStatuses \cup {"not-dispatched", None}]

\* A handle that was not given out is nowhere.
HistoryInv ==
    \A o \in Operations \ issued :
        /\ journal[o] = None
        /\ told[o] = None
        /\ o \notin ran
        /\ \A b \in Brokers : broker[b].records[o] = None /\ broker[b].tasks[o].at = "none"

MemoryInv == Typed /\ HistoryInv /\ \A b \in Brokers : MemoryOK(broker[b], ran)

\* A process that only moves on, or changes what MemoryOK does not look at.
LEMMA MemoryMoves ==
    ASSUME NEW s \in BrokerStates, NEW t \in BrokerStates, NEW acted, MemoryOK(s, acted),
           t.records = s.records, s.at # "recover", t.at # "recover",
           \A o \in Operations :
               /\ t.at \in Early => t.tasks[o].at = "none"
               /\ Fits(s.records[o], t.tasks[o].at, o \in acted)
    PROVE  MemoryOK(t, acted)
BY DEF MemoryOK

\* A method of one process, and the threads it leaves, keep MemoryInv.
LEMMA MemoryAfterMethod ==
    ASSUME NEW s \in BrokerStates, NEW t \in BrokerStates, NEW acted, MemoryOK(s, acted),
           NEW f, NEW e, \A o \in Operations : Effect(s.records, f, e, o, o \in acted),
           t.records = e.records, s.at # "recover", t.at \notin Early,
           \A o \in Operations : Fits(t.records[o], t.tasks[o].at, o \in acted)
    PROVE  MemoryOK(t, acted)
<1>1. s.records \in Records
  BY DEF BrokerStates
<1>2. /\ Present(t.records) \subseteq Present(s.records)
      /\ Active(t.records) \subseteq Active(s.records)
  BY <1>1, EffectLimits
<1> QED
  BY <1>2, FewerRecords DEF MemoryOK, Early

\* A thread fits a record that was left alone.
LEMMA QuietFits ==
    ASSUME NEW m, NEW f, NEW e, NEW o, Quiet(m, f, e, o), NEW at, NEW acted,
           Fits(m[o], at, acted)
    PROVE  Fits(e.records[o], at, acted)
BY DEF Quiet, Fits

\* A thread in a place that a cancellation may find fits the cancelled record.
LEMMA CancelFits ==
    ASSUME NEW r \in LongOperationRecord, NEW now \in Nat, CanRequestCancel(r),
           NEW at, NEW o, NEW acted, Fits(r, at, o \in acted)
    PROVE  Fits(Stamped(RequestCancel(r), now), at, o \in acted)
<1> DEFINE s == Stamped(RequestCancel(r), now)
<1>1. s \in LongOperationRecord /\ s # None
  BY ChangeType, BrokerAssumption
<1>2. /\ ~Terminal(r) /\ ~Terminal(s)
      /\ s.dispatchStarted = r.dispatchStarted
  BY DEF Stamped, RequestCancel, Terminal, EndStatuses, CanRequestCancel, LongOperationRecord
<1> QED
  BY <1>1, <1>2 DEF Fits

\* One process moves from s to t; the others are as they were.
LEMMA MemoryStep ==
    ASSUME MemoryInv, NEW b \in Brokers, NEW t \in BrokerStates,
           broker' = [broker EXCEPT ![b] = t], MemoryOK(t, ran), ran' = ran,
           clock' = clock, journal' \in Records, endpoint' \in Brokers \cup {None},
           issued \subseteq issued', issued' \subseteq Operations,
           told' \in [Operations -> EndStatuses \cup {"not-dispatched", None}],
           \A o \in Operations \ issued' :
               /\ journal'[o] = None /\ told'[o] = None
               /\ t.records[o] = None /\ t.tasks[o].at = "none"
    PROVE  MemoryInv'
<1>1. broker' \in [Brokers -> BrokerStates]
  BY DEF MemoryInv, Typed
<1>2. \A c \in Brokers : c # b => broker'[c] = broker[c]
  BY DEF MemoryInv, Typed
<1>3. broker'[b] = t
  BY DEF MemoryInv, Typed
<1>4. Typed'
  BY <1>1 DEF MemoryInv, Typed
<1>5. HistoryInv'
  BY <1>2, <1>3 DEF MemoryInv, HistoryInv
<1>6. \A c \in Brokers : MemoryOK(broker'[c], ran')
  BY <1>2, <1>3 DEF MemoryInv
<1> QED
  BY <1>4, <1>5, <1>6 DEF MemoryInv

\* An empty registry is within its limits.
LEMMA NothingTracked ==
    ASSUME NEW m, Present(m) = {}
    PROVE  Tracked(m) /\ Running(m)
<1>1. Active(m) = {}
  BY DEF Active
<1> QED
  BY <1>1, FS_EmptySet, BrokerAssumption DEF Tracked, Running

\* A process that has ended, or died, has no thread left.
LEMMA EndedOK ==
    ASSUME NEW acted
    PROVE  Ended \in BrokerStates /\ MemoryOK(Ended, acted)
<1>1. NoRecords \in Records /\ NoTask \in Tasks
  BY DEF NoRecords, Records, NoTask, Tasks
<1>2. Ended \in BrokerStates
  BY <1>1 DEF Ended, BrokerStates
<1>3. Present(NoRecords) = {}
  BY DEF Present, NoRecords
<1>4. Tracked(Ended.records) /\ Running(Ended.records)
  BY <1>3, NothingTracked DEF Ended
<1> QED
  BY <1>2, <1>4 DEF Ended, MemoryOK, Fits, NoTask

\* The steps of the broker's thread between the registry's methods.
LEMMA ControlMemory ==
    ASSUME MemoryInv, NEW b \in Brokers,
           \/ Launch(b) \/ CreateEndpoint(b) \/ Load(b) \/ Loop(b) \/ StopListening(b)
           \/ Accept(b) \/ CloseConnection(b) \/ Join(b) \/ Signal(b) \/ Crash(b)
    PROVE  MemoryInv'
<1> DEFINE s == broker[b]
           Free(t) == \A o \in Operations \ issued : t.records[o] = None /\ t.tasks[o].at = "none"
<1>1. s \in BrokerStates /\ MemoryOK(s, ran) /\ Free(s)
  BY DEF MemoryInv, Typed, HistoryInv
<1>2. clock \in Nat /\ journal \in Records /\ endpoint \in Brokers \cup {None}
  BY DEF MemoryInv, Typed
<1>3. ASSUME NEW t \in BrokerStates, broker' = [broker EXCEPT ![b] = t], MemoryOK(t, ran),
             Free(t), UNCHANGED <<clock, journal, issued, ran, told>>,
             endpoint' \in Brokers \cup {None}
      PROVE  MemoryInv'
  <2>1. /\ issued \subseteq Operations
        /\ told \in [Operations -> EndStatuses \cup {"not-dispatched", None}]
        /\ \A o \in Operations \ issued : journal[o] = None /\ told[o] = None
    BY DEF MemoryInv, Typed, HistoryInv
  <2> QED
    BY <1>2, <1>3, <2>1, MemoryStep
<1>4. ASSUME NEW t \in BrokerStates, broker' = [broker EXCEPT ![b] = t],
             t.records = s.records, t.tasks = s.tasks, s.at # "recover", t.at # "recover",
             t.at \in Early => s.at \in Early,
             UNCHANGED <<clock, journal, issued, ran, told>>, endpoint' \in Brokers \cup {None}
      PROVE  MemoryInv'
  <2>1. MemoryOK(t, ran)
    BY <1>1, <1>4 DEF MemoryOK
  <2> QED
    BY <1>1, <1>3, <1>4, <2>1
<1>5. ASSUME Exit(b), UNCHANGED <<clock, journal, issued, ran, told>>
      PROVE  MemoryInv'
  <2>1. Ended \in BrokerStates /\ MemoryOK(Ended, ran)
    BY EndedOK
  <2>2. Free(Ended)
    BY DEF Ended, NoRecords, NoTask
  <2> QED
    BY <1>2, <1>3, <1>5, <2>1, <2>2 DEF Exit
<1>6. CASE Launch(b)
  <2> DEFINE t == [Ended EXCEPT !.at = "launched"]
  <2>1. t \in BrokerStates /\ MemoryOK(Ended, ran) /\ Free(t)
    BY EndedOK DEF BrokerStates, Ended, NoRecords, NoTask
  <2>2. MemoryOK(t, ran)
    BY <2>1 DEF MemoryOK, Ended, Early
  <2> QED
    BY <1>2, <1>3, <1>6, <2>1, <2>2 DEF Launch, Goto
<1>7. CASE CreateEndpoint(b)
  <2>1. CASE endpoint = None
    <3> DEFINE t == [s EXCEPT !.at = IF s.at = "launched" THEN "open" ELSE "loop"]
    <3>1. t \in BrokerStates
      BY <1>1 DEF BrokerStates
    <3>2. t.records = s.records /\ t.tasks = s.tasks /\ t.at \in {"open", "loop"}
          /\ (t.at = "open" => s.at = "launched")
      BY <1>1 DEF BrokerStates
    <3> QED
      BY <1>4, <1>7, <2>1, <3>1, <3>2 DEF CreateEndpoint, Goto, Early
  <2> QED
    BY <1>5, <1>7, <2>1 DEF CreateEndpoint
<1>8. CASE Load(b)
  <2>1. CASE Tracked(journal)
    <3> DEFINE n == Present(journal)
               t0 == [s EXCEPT !.now = clock, !.records = journal, !.pending = n]
               t1 == [t0 EXCEPT !.at = "recover"]
               t2 == [[t0 EXCEPT !.now = 0] EXCEPT !.at = "loop"]
    <3>1. n \subseteq Operations /\ Active(journal) \subseteq n
      BY DEF Present, Active
    <3>2. t1 \in BrokerStates /\ t2 \in BrokerStates
      BY <1>1, <1>2, <3>1 DEF BrokerStates
    <3>3. /\ t1.records = journal /\ t2.records = journal /\ t1.pending = n
          /\ t1.tasks = s.tasks /\ t2.tasks = s.tasks /\ t1.at = "recover" /\ t2.at = "loop"
      BY <1>1 DEF BrokerStates
    <3>4. \A o \in Operations : s.tasks[o].at = "none"
      BY <1>1, <1>8 DEF Load, MemoryOK, Early
    <3>5. Free(t1) /\ Free(t2)
      BY <3>3, <3>4 DEF MemoryInv, HistoryInv
    <3>6. MemoryOK(t1, ran)
      BY <2>1, <3>1, <3>3, <3>4 DEF MemoryOK, Fits
    <3>7. n = {} => MemoryOK(t2, ran)
      BY <3>3, <3>4, NothingTracked DEF MemoryOK, Fits
    <3>8. /\ UNCHANGED <<clock, journal, endpoint, issued, ran, told>>
          /\ \/ broker' = [broker EXCEPT ![b] = t1]
             \/ n = {} /\ broker' = [broker EXCEPT ![b] = t2]
      <4>1. Proceed(b, t0) /\ UNCHANGED <<clock, journal, endpoint, issued, ran, told>>
        <5>1. Cardinality(Present(journal)) \in Nat
          BY BrokerAssumption, FS_Subset, FS_CardinalityType DEF Present
        <5>2. ~(Cardinality(Present(journal)) > MaximumTracked)
          BY <2>1, <5>1, BrokerAssumption DEF Tracked
        <5> QED
          BY <1>8, <5>2, Zenon DEF Load
      <4>2. t0.pending = n
        BY <1>1 DEF BrokerStates
      <4> QED
        BY <4>1, <4>2, Zenon DEF Proceed, Goto
    <3> HIDE DEF t1, t2
    <3> QED
      BY <1>2, <1>3, <3>2, <3>5, <3>6, <3>7, <3>8
  <2>2. CASE ~Tracked(journal)
    <3>1. Cardinality(Present(journal)) \in Nat
      BY BrokerAssumption, FS_Subset, FS_CardinalityType DEF Present
    <3>2. Cardinality(Present(journal)) > MaximumTracked
      BY <2>2, <3>1, BrokerAssumption DEF Tracked
    <3> QED
      BY <1>5, <1>8, <3>2 DEF Load
  <2> QED
    BY <2>1, <2>2
<1>9. CASE Loop(b)
  <2> DEFINE t1 == [[s EXCEPT !.now = clock] EXCEPT !.at = "shutdown"]
             t2 == [s EXCEPT !.at = "listen"]
  <2>1. t1 \in BrokerStates /\ t2 \in BrokerStates
    BY <1>1, <1>2 DEF BrokerStates
  <2>2. /\ t1.records = s.records /\ t1.tasks = s.tasks /\ t1.at = "shutdown"
        /\ t2.records = s.records /\ t2.tasks = s.tasks /\ t2.at = "listen"
    BY <1>1 DEF BrokerStates
  <2>3. broker' = [broker EXCEPT ![b] = t1] \/ broker' = [broker EXCEPT ![b] = t2]
    BY <1>9 DEF Loop, BeginShutdown, Goto
  <2> HIDE DEF t1, t2
  <2> QED
    BY <1>2, <1>4, <1>9, <2>1, <2>2, <2>3 DEF Loop, Early
<1>10. CASE StopListening(b)
  <2> DEFINE t1 == [[s EXCEPT !.now = clock] EXCEPT !.at = "shutdown"]
  <2>1. t1 \in BrokerStates
    BY <1>1, <1>2 DEF BrokerStates
  <2>2. t1.records = s.records /\ t1.tasks = s.tasks /\ t1.at = "shutdown"
    BY <1>1 DEF BrokerStates
  <2>3. broker' = [broker EXCEPT ![b] = t1]
    BY <1>10 DEF StopListening, BeginShutdown, Goto
  <2> HIDE DEF t1
  <2> QED
    BY <1>2, <1>4, <1>10, <2>1, <2>2, <2>3 DEF StopListening, Early
<1>11. CASE Accept(b)
  <2> DEFINE t1 == [[s EXCEPT !.now = clock] EXCEPT !.at = "handle"]
  <2>1. t1 \in BrokerStates
    BY <1>1, <1>2 DEF BrokerStates
  <2>2. t1.records = s.records /\ t1.tasks = s.tasks /\ t1.at = "handle"
    BY <1>1 DEF BrokerStates
  <2>3. broker' = [broker EXCEPT ![b] = t1]
    BY <1>11 DEF Accept, Goto
  <2> HIDE DEF t1
  <2> QED
    BY <1>2, <1>4, <1>11, <2>1, <2>2, <2>3 DEF Accept, Early
<1>12. CASE CloseConnection(b)
  <2> DEFINE t1 == [[s EXCEPT !.now = 0] EXCEPT !.at = "relisten"]
  <2>1. t1 \in BrokerStates
    BY <1>1, <1>2 DEF BrokerStates
  <2>2. t1.records = s.records /\ t1.tasks = s.tasks /\ t1.at = "relisten"
    BY <1>1 DEF BrokerStates
  <2>3. broker' = [broker EXCEPT ![b] = t1]
    BY <1>12 DEF CloseConnection, Goto
  <2> HIDE DEF t1
  <2> QED
    BY <1>2, <1>4, <1>12, <2>1, <2>2, <2>3 DEF CloseConnection, Early
<1>13. CASE Join(b)
  BY <1>5, <1>13 DEF Join
<1>14. CASE Signal(b)
  <2> DEFINE t1 == [s EXCEPT !.signalled = TRUE]
  <2>1. t1 \in BrokerStates
    BY <1>1 DEF BrokerStates
  <2>2. /\ t1.records = s.records /\ t1.tasks = s.tasks /\ t1.at = s.at
        /\ t1.pending = s.pending
    BY <1>1 DEF BrokerStates
  <2>3. broker' = [broker EXCEPT ![b] = t1]
    BY <1>1, <1>14 DEF Signal, MemoryInv, Typed
  <2>4. MemoryOK(t1, ran) /\ Free(t1)
    BY <1>1, <2>2 DEF MemoryOK
  <2> HIDE DEF t1
  <2> QED
    BY <1>2, <1>3, <1>14, <2>1, <2>3, <2>4 DEF Signal
<1>15. CASE Crash(b)
  BY <1>5, <1>15 DEF Crash
<1> QED
  BY <1>6, <1>7, <1>8, <1>9, <1>10, <1>11, <1>12, <1>13, <1>14, <1>15

\* The steps of an operation's thread between the registry's methods.
LEMMA ThreadMemory ==
    ASSUME MemoryInv, NEW b \in Brokers, NEW o \in Operations,
           WorkerStarts(b, o) \/ WorkerReturns(b, o) \/ WorkerActs(b, o)
    PROVE  MemoryInv'
<1> DEFINE s == broker[b]
<1>1. /\ s \in BrokerStates /\ MemoryOK(s, ran) /\ s.tasks \in [Operations -> Tasks]
      /\ \A p \in Operations \ issued : s.records[p] = None /\ s.tasks[p].at = "none"
  BY DEF MemoryInv, Typed, HistoryInv, BrokerStates
<1>2. ASSUME NEW task \in Tasks, task.at \notin {"none", "finished"}, s.tasks[o].at # "none",
             Fits(s.records[o], task.at, o \in ran), SetTask(b, o, task),
             UNCHANGED <<clock, journal, endpoint, issued, ran, told>>
      PROVE  MemoryInv'
  <2> DEFINE t == [s EXCEPT !.tasks[o] = task]
  <2>1. t \in BrokerStates
    BY <1>1 DEF BrokerStates
  <2>2. /\ t.records = s.records /\ t.at = s.at /\ t.pending = s.pending
        /\ t.tasks[o] = task /\ \A p \in Operations \ {o} : t.tasks[p] = s.tasks[p]
    BY <1>1 DEF BrokerStates
  <2>3. s.at \notin Early /\ o \in issued
    BY <1>1, <1>2 DEF MemoryOK
  <2>4. MemoryOK(t, ran)
    BY <1>1, <1>2, <2>2, <2>3 DEF MemoryOK, Early
  <2>5. broker' = [broker EXCEPT ![b] = t]
    BY <1>2 DEF SetTask, MemoryInv, Typed
  <2>6. \A p \in Operations \ issued' :
            /\ journal'[p] = None /\ told'[p] = None
            /\ t.records[p] = None /\ t.tasks[p].at = "none"
    BY <1>1, <1>2, <2>2, <2>3 DEF MemoryInv, HistoryInv
  <2> HIDE DEF t
  <2> QED
    BY <1>2, <2>1, <2>4, <2>5, <2>6, MemoryStep DEF MemoryInv, Typed
<1>3. CASE WorkerStarts(b, o)
  <2> DEFINE task == [at |-> IF s.tasks[o].cancelled THEN "declining" ELSE "dispatching",
                      cancelled |-> FALSE, now |-> clock]
  <2>1. task \in Tasks /\ task.at \in {"declining", "dispatching"}
    BY DEF Tasks, MemoryInv, Typed
  <2>2. Fits(s.records[o], task.at, o \in ran)
    BY <1>1, <1>3, <2>1 DEF Fits, MemoryOK, WorkerStarts
  <2> QED
    BY <1>2, <1>3, <2>1, <2>2 DEF WorkerStarts
<1>4. CASE WorkerReturns(b, o)
  <2>1. PICK at \in {"completing", "failing"} :
            /\ at = "completing" => o \in ran
            /\ SetTask(b, o, [s.tasks[o] EXCEPT !.at = at, !.now = clock])
    BY <1>4 DEF WorkerReturns
  <2> DEFINE task == [s.tasks[o] EXCEPT !.at = at, !.now = clock]
  <2>2. task \in Tasks /\ task.at = at
    BY <1>1 DEF Tasks, MemoryInv, Typed
  <2>3. Fits(s.records[o], task.at, o \in ran)
    BY <1>1, <1>4, <2>1, <2>2 DEF Fits, MemoryOK, WorkerReturns
  <2> QED
    BY <1>2, <1>4, <2>1, <2>2, <2>3 DEF WorkerReturns
<1>5. CASE WorkerActs(b, o)
  <2>1. o \in issued
    BY <1>1, <1>5 DEF WorkerActs
  <2>2. Typed' /\ HistoryInv'
    BY <1>5, <2>1 DEF WorkerActs, MemoryInv, Typed, HistoryInv
  <2>3. \A c \in Brokers : MemoryOK(broker[c], ran')
    BY <1>5 DEF WorkerActs, MemoryInv, MemoryOK, Fits
  <2> QED
    BY <1>5, <2>2, <2>3 DEF WorkerActs, MemoryInv
<1> QED
  BY <1>3, <1>4, <1>5

----------------------------------------------------------------------------
(* The registry's methods, as steps of a process.                          *)

\* The record that submit puts on file for a new handle.
Begins(r) ==
    \E now \in Nat : r = Accepted(now) \/ r = Stamped(Fail(Accepted(now)), now)

\* Who is told how an operation ended is told what the method leaves in memory.
Tells(e) ==
    \A p \in Operations :
        \/ told'[p] = told[p]
        \/ /\ e.records[p] # None /\ Terminal(e.records[p])
           /\ told'[p] = EndOf(e.records[p])

\* A step of process b in which a method has effect e.
MethodStep(b, e) ==
    /\ IsOutcome(e)
    /\ journal' = e.journal
    /\ ran' = ran
    /\ broker'[b] = Ended \/ broker'[b].records = e.records
    /\ \A c \in Brokers \ {b} : broker'[c] = broker[c]
    /\ \A p \in Operations :
          \/ /\ p \in issued' <=> p \in issued
             /\ Effect(broker[b].records, journal, e, p, p \in ran)
          \/ /\ p \notin issued /\ p \in issued'
             /\ Begins(e.records[p]) /\ Files(e, p, e.records[p])
    /\ Tells(e)

\* The threads that a method leaves behind fit its effect on their records.
LEMMA MethodMemory ==
    ASSUME MemoryInv, NEW b \in Brokers, broker[b].at \notin Early, NEW e, IsOutcome(e),
           \A p \in Operations : Effect(broker[b].records, journal, e, p, p \in ran),
           NEW t \in BrokerStates, t.records = e.records, t.at \notin Early,
           \A p \in Operations : Fits(e.records[p], t.tasks[p].at, p \in ran),
           \A p \in Operations \ issued : t.tasks[p].at = "none",
           broker' = [broker EXCEPT ![b] = t], journal' = e.journal,
           clock' = clock, ran' = ran, issued' = issued, endpoint' \in Brokers \cup {None},
           told' \in [Operations -> EndStatuses \cup {"not-dispatched", None}],
           Tells(e)
    PROVE  MemoryInv' /\ MethodStep(b, e)
<1>1. broker[b] \in BrokerStates /\ MemoryOK(broker[b], ran) /\ broker[b].at # "recover"
  BY DEF MemoryInv, Typed, Early
<1>2. MemoryOK(t, ran)
  BY <1>1, MemoryAfterMethod
<1>3. \A p \in Operations \ issued :
          /\ broker[b].records[p] = None /\ journal[p] = None /\ told[p] = None
          /\ e.records[p] = None /\ e.journal[p] = None
  <2>1. \A p \in Operations \ issued :
          broker[b].records[p] = None /\ journal[p] = None /\ told[p] = None
    BY DEF MemoryInv, HistoryInv
  <2> QED
    BY <2>1 DEF Effect, Quiet
<1>4. \A p \in Operations \ issued : told'[p] = None
  BY <1>3 DEF Tells
<1>5. journal' \in Records /\ issued \subseteq Operations /\ broker \in [Brokers -> BrokerStates]
  BY DEF IsOutcome, MemoryInv, Typed
<1>6. MemoryInv'
  BY <1>2, <1>3, <1>4, <1>5, MemoryStep
<1>7. broker'[b] = t /\ \A c \in Brokers \ {b} : broker'[c] = broker[c]
  BY <1>5
<1> QED
  BY <1>6, <1>7 DEF MethodStep

\* What a caller is told is an end.
LEMMA AnswerEffect ==
    ASSUME MemoryInv, NEW b \in Brokers, NEW o \in Operations, NEW s \in BrokerStates,
           NEW ok, Answer(b, o, s, ok), NEW e, e.records = s.records
    PROVE  /\ told' \in [Operations -> EndStatuses \cup {"not-dispatched", None}]
           /\ Tells(e)
           /\ endpoint' = None
           /\ \E t \in BrokerStates :
                /\ broker' = [broker EXCEPT ![b] = t]
                /\ t.records = s.records /\ t.tasks = s.tasks /\ t.at = "relisten"
<1>1. told \in [Operations -> EndStatuses \cup {"not-dispatched", None}]
  BY DEF MemoryInv, Typed
<1>2. Terminal(s.records[o]) => EndOf(s.records[o]) \in EndStatuses \cup {"not-dispatched"}
  BY DEF Terminal, EndOf
<1>3. /\ told' \in [Operations -> EndStatuses \cup {"not-dispatched", None}]
      /\ Tells(e)
  BY <1>1, <1>2 DEF Answer, Tells
<1> DEFINE t == [[s EXCEPT !.now = 0] EXCEPT !.at = "relisten"]
<1>4. t \in BrokerStates /\ t.records = s.records /\ t.tasks = s.tasks /\ t.at = "relisten"
  BY DEF BrokerStates
<1>5. endpoint' = None /\ broker' = [broker EXCEPT ![b] = t]
  BY DEF Answer, Goto
<1> HIDE DEF t
<1> QED
  BY <1>3, <1>4, <1>5

\* What is known of a process that is in a method.
LEMMA InMethod ==
    ASSUME MemoryInv, NEW b \in Brokers
    PROVE  /\ broker[b] \in BrokerStates /\ MemoryOK(broker[b], ran)
           /\ broker[b].records \in Records /\ broker[b].tasks \in [Operations -> Tasks]
           /\ broker[b].now \in Nat /\ journal \in Records /\ clock \in Nat
           /\ issued \subseteq Operations /\ ran \subseteq Operations
           /\ \A p \in Operations : Fits(broker[b].records[p], broker[b].tasks[p].at, p \in ran)
           /\ \A p \in Operations \ issued :
                 /\ broker[b].records[p] = None /\ broker[b].tasks[p].at = "none"
                 /\ journal[p] = None /\ told[p] = None /\ p \notin ran
BY DEF MemoryInv, Typed, HistoryInv, BrokerStates, MemoryOK

\* Reaping takes away threads that are through.
LEMMA ReapedTasks ==
    ASSUME NEW tasks \in [Operations -> Tasks]
    PROVE  /\ Reaped(tasks) \in [Operations -> Tasks]
           /\ \A p \in Operations : Reaped(tasks)[p].at \in {tasks[p].at, "none"}
BY DEF Reaped, NoTask, Tasks

\* Revoking a permit moves no thread.
LEMMA RevokedTask ==
    ASSUME NEW task \in Tasks
    PROVE  Revoked(task) \in Tasks /\ Revoked(task).at = task.at
BY DEF Revoked, Tasks

\* A status request: expire, and what the caller is told.
LEMMA StatusMemory ==
    ASSUME MemoryInv, NEW b \in Brokers, Status(b)
    PROVE  MemoryInv' /\ \E e : MethodStep(b, e)
<1> DEFINE s == broker[b]
<1>0. /\ s \in BrokerStates /\ s.records \in Records /\ s.tasks \in [Operations -> Tasks]
      /\ s.now \in Nat /\ journal \in Records
      /\ \A p \in Operations : Fits(s.records[p], s.tasks[p].at, p \in ran)
      /\ \A p \in Operations \ issued : s.tasks[p].at = "none"
  BY InMethod
<1>1. PICK o \in Operations, e \in Expire(s.records, journal, s.now) :
        /\ journal' = e.journal
        /\ Answer(b, o, [s EXCEPT !.records = e.records, !.tasks = Reaped(@)], e.ok)
  BY DEF Status
<1>2. s.at = "handle" /\ UNCHANGED <<clock, issued, ran>>
  BY DEF Status, Handling
<1>3. IsOutcome(e) /\ \A p \in Operations : Quiet(s.records, journal, e, p)
  BY <1>0, ExpireEffect
<1> DEFINE n == [s EXCEPT !.records = e.records, !.tasks = Reaped(s.tasks)]
<1>4. /\ Reaped(s.tasks) \in [Operations -> Tasks]
      /\ \A p \in Operations : Reaped(s.tasks)[p].at \in {s.tasks[p].at, "none"}
  BY <1>0, ReapedTasks
<1>5. n \in BrokerStates /\ n.records = e.records /\ n.tasks = Reaped(s.tasks)
  BY <1>0, <1>3, <1>4 DEF BrokerStates, IsOutcome
<1>6. Answer(b, o, n, e.ok)
  BY <1>1
<1> HIDE DEF n
<1>7. PICK t \in BrokerStates :
        /\ broker' = [broker EXCEPT ![b] = t]
        /\ t.records = n.records /\ t.tasks = n.tasks /\ t.at = "relisten"
  BY <1>5, <1>6, AnswerEffect
<1>8. ASSUME NEW p \in Operations PROVE Fits(e.records[p], t.tasks[p].at, p \in ran)
  <2>1. Fits(e.records[p], s.tasks[p].at, p \in ran)
    BY <1>0, <1>3, QuietFits
  <2> QED
    BY <1>4, <1>5, <1>7, <2>1 DEF Fits
<1>9. \A p \in Operations \ issued : t.tasks[p].at = "none"
  BY <1>0, <1>4, <1>5, <1>7
<1>10. \A p \in Operations : Effect(s.records, journal, e, p, p \in ran)
  BY <1>3 DEF Effect
<1>11. /\ told' \in [Operations -> EndStatuses \cup {"not-dispatched", None}]
       /\ Tells(e) /\ endpoint' = None
  BY <1>5, <1>6, AnswerEffect
<1> QED
  BY <1>1, <1>2, <1>3, <1>5, <1>7, <1>8, <1>9, <1>10, <1>11, MethodMemory DEF Early

\* A cancel request: the record's cancellation, then the revoked permit.
LEMMA CancelMemory ==
    ASSUME MemoryInv, NEW b \in Brokers, CancelOperation(b)
    PROVE  MemoryInv' /\ \E e : MethodStep(b, e)
<1> DEFINE s == broker[b]
<1>0. /\ s \in BrokerStates /\ s.records \in Records /\ s.tasks \in [Operations -> Tasks]
      /\ s.now \in Nat /\ journal \in Records
      /\ \A p \in Operations : Fits(s.records[p], s.tasks[p].at, p \in ran)
      /\ \A p \in Operations \ issued : s.tasks[p].at = "none"
  BY InMethod
<1>1. PICK o \in Operations : \E e \in Cancel(s.records, journal, o, s.now) :
        LET n == [s EXCEPT !.records = e.records, !.tasks = Reaped(@)]
        IN /\ journal' = e.journal
           /\ Answer(b, o, IF e.ok /\ ~Terminal(e.records[o])
                           THEN [n EXCEPT !.tasks[o] = Revoked(@)] ELSE n, e.ok)
  BY Zenon DEF CancelOperation
<1>2. PICK e \in Cancel(s.records, journal, o, s.now) :
        LET n == [s EXCEPT !.records = e.records, !.tasks = Reaped(@)]
        IN /\ journal' = e.journal
           /\ Answer(b, o, IF e.ok /\ ~Terminal(e.records[o])
                           THEN [n EXCEPT !.tasks[o] = Revoked(@)] ELSE n, e.ok)
  BY <1>1, Zenon
<1>3. s.at = "handle" /\ UNCHANGED <<clock, issued, ran>>
  BY DEF CancelOperation, Handling
<1> DEFINE r == Stamped(RequestCancel(s.records[o]), s.now)
           n == [s EXCEPT !.records = e.records, !.tasks = Reaped(s.tasks)]
           n2 == [n EXCEPT !.tasks[o] = Revoked(@)]
           m == IF e.ok /\ ~Terminal(e.records[o]) THEN n2 ELSE n
<1>4. /\ IsOutcome(e)
      /\ \A p \in Operations :
            \/ Quiet(s.records, journal, e, p)
            \/ /\ p = o /\ s.records[p] # None /\ CanRequestCancel(s.records[p])
               /\ Files(e, p, Stamped(RequestCancel(s.records[p]), s.now))
  BY <1>0, CancelEffect DEF Mutates
<1>5. \A p \in Operations : Effect(s.records, journal, e, p, p \in ran)
  BY <1>0, <1>4 DEF Effect, Change, Files
<1>6. /\ Reaped(s.tasks) \in [Operations -> Tasks]
      /\ \A p \in Operations : Reaped(s.tasks)[p].at \in {s.tasks[p].at, "none"}
  BY <1>0, ReapedTasks
<1>7. n \in BrokerStates /\ n.records = e.records /\ n.tasks = Reaped(s.tasks)
  BY <1>0, <1>4, <1>6 DEF BrokerStates, IsOutcome
<1>8. /\ n2 \in BrokerStates /\ n2.records = e.records
      /\ \A p \in Operations : n2.tasks[p].at = Reaped(s.tasks)[p].at
  <2>1. /\ Revoked(Reaped(s.tasks)[o]) \in Tasks
        /\ Revoked(Reaped(s.tasks)[o]).at = Reaped(s.tasks)[o].at
    BY <1>6, RevokedTask
  <2> HIDE DEF n
  <2> QED
    BY <1>6, <1>7, <2>1 DEF BrokerStates
<1>9. Answer(b, o, m, e.ok)
  BY <1>2, Zenon
<1>10. /\ m \in BrokerStates /\ m.records = e.records
       /\ \A p \in Operations : m.tasks[p].at = Reaped(s.tasks)[p].at
  BY <1>7, <1>8
<1> HIDE DEF n, n2, m
<1>11. PICK t \in BrokerStates :
        /\ broker' = [broker EXCEPT ![b] = t]
        /\ t.records = m.records /\ t.tasks = m.tasks /\ t.at = "relisten"
  BY <1>9, <1>10, AnswerEffect
<1>12. ASSUME NEW p \in Operations PROVE Fits(e.records[p], s.tasks[p].at, p \in ran)
  <2>1. CASE Quiet(s.records, journal, e, p)
    BY <1>0, <2>1, QuietFits
  <2>2. CASE /\ s.records[p] # None /\ CanRequestCancel(s.records[p])
             /\ Files(e, p, Stamped(RequestCancel(s.records[p]), s.now))
    <3>1. s.records[p] \in LongOperationRecord
      BY <1>0, <2>2 DEF Records
    <3> QED
      BY <1>0, <2>2, <3>1, CancelFits DEF Files
  <2> QED
    BY <1>4, <2>1, <2>2
<1>12a. \A p \in Operations : Fits(e.records[p], t.tasks[p].at, p \in ran)
  BY <1>6, <1>10, <1>11, <1>12 DEF Fits
<1>13. \A p \in Operations \ issued : t.tasks[p].at = "none"
  BY <1>0, <1>6, <1>10, <1>11
<1>14. /\ told' \in [Operations -> EndStatuses \cup {"not-dispatched", None}]
       /\ Tells(e) /\ endpoint' = None
  BY <1>9, <1>10, AnswerEffect
<1> QED
  BY <1>2, <1>3, <1>4, <1>5, <1>10, <1>11, <1>12a, <1>13, <1>14, MethodMemory DEF Early

\* A new handle: its record, and the thread it may have got.
LEMMA AcceptedMemory ==
    ASSUME MemoryInv, NEW b \in Brokers, broker[b].at = "handle", NEW o \in Operations \ issued,
           NEW e, IsOutcome(e), Begins(e.records[o]), Files(e, o, e.records[o]),
           \A p \in Operations \ {o} : Quiet(broker[b].records, journal, e, p),
           Tracked(e.records), Running(e.records),
           NEW n \in BrokerStates, n.records = e.records,
           \A p \in Operations \ {o} : n.tasks[p].at \in {broker[b].tasks[p].at, "none"},
           Fits(e.records[o], n.tasks[o].at, o \in ran),
           NEW ok, Answer(b, o, n, ok), journal' = e.journal, issued' = issued \cup {o},
           UNCHANGED <<clock, ran>>
    PROVE  MemoryInv' /\ MethodStep(b, e)
<1> DEFINE s == broker[b]
<1>0. /\ s.records \in Records /\ s.tasks \in [Operations -> Tasks] /\ journal \in Records
      /\ issued \subseteq Operations /\ broker \in [Brokers -> BrokerStates]
      /\ \A p \in Operations : Fits(s.records[p], s.tasks[p].at, p \in ran)
      /\ \A p \in Operations \ issued :
            /\ s.tasks[p].at = "none" /\ s.records[p] = None
            /\ journal[p] = None /\ told[p] = None
  BY InMethod DEF MemoryInv, Typed
<1>1. PICK t \in BrokerStates :
        /\ broker' = [broker EXCEPT ![b] = t]
        /\ t.records = n.records /\ t.tasks = n.tasks /\ t.at = "relisten"
  BY AnswerEffect
<1>2. /\ told' \in [Operations -> EndStatuses \cup {"not-dispatched", None}]
      /\ Tells(e) /\ endpoint' = None
  BY AnswerEffect
<1>3. ASSUME NEW p \in Operations \ {o} PROVE Fits(e.records[p], t.tasks[p].at, p \in ran)
  <2>1. Fits(e.records[p], s.tasks[p].at, p \in ran)
    BY <1>0, QuietFits
  <2> QED
    BY <1>1, <2>1 DEF Fits
<1>4. MemoryOK(t, ran)
  BY <1>1, <1>3 DEF MemoryOK, Early
<1>5. \A p \in Operations \ issued' :
         /\ journal'[p] = None /\ t.records[p] = None /\ t.tasks[p].at = "none"
         /\ told'[p] = None
  <2>1. \A p \in Operations \ issued' : p # o /\ p \in Operations \ issued
    OBVIOUS
  <2>2. \A p \in Operations \ issued' : e.journal[p] = None /\ e.records[p] = None
    BY <1>0, <2>1 DEF Quiet
  <2> QED
    BY <1>0, <1>1, <1>2, <2>1, <2>2 DEF Tells
<1>6. journal' \in Records /\ issued' \subseteq Operations
  BY <1>0 DEF IsOutcome
<1>7. MemoryInv'
  BY <1>1, <1>2, <1>4, <1>5, <1>6, MemoryStep
<1>8. broker'[b] = t /\ \A c \in Brokers \ {b} : broker'[c] = broker[c]
  BY <1>0, <1>1
<1> QED
  BY <1>1, <1>2, <1>7, <1>8 DEF MethodStep, Effect

\* A submission: accepted with a thread, or failed at once.
LEMMA SubmitMemory ==
    ASSUME MemoryInv, NEW b \in Brokers, Submit(b)
    PROVE  MemoryInv' /\ \E e : MethodStep(b, e)
<1> DEFINE s == broker[b]
           New(e) == [s EXCEPT !.records = e.records, !.tasks = Reaped(s.tasks)]
<1>0. /\ s \in BrokerStates /\ s.records \in Records /\ s.tasks \in [Operations -> Tasks]
      /\ s.now \in Nat /\ journal \in Records /\ MemoryOK(s, ran)
      /\ \A p \in Operations : Fits(s.records[p], s.tasks[p].at, p \in ran)
      /\ \A p \in Operations \ issued :
            s.tasks[p].at = "none" /\ s.records[p] = None /\ journal[p] = None
  BY InMethod
<1>1. PICK o \in Operations \ issued : \E e \in Admit(s.records, journal, o, s.now) :
         \/ /\ journal' = e.journal
            /\ issued' = IF e.ok THEN issued \cup {o} ELSE issued
            /\ Answer(b, o, IF e.ok THEN [New(e) EXCEPT !.tasks[o].at = "spawned"] ELSE New(e),
                      e.ok)
         \/ /\ e.ok
            /\ issued' = issued \cup {o}
            /\ \E f \in Mutate(e.records, e.journal, o, s.now, CanFail, Fail) :
                  /\ journal' = f.journal
                  /\ Answer(b, o, [New(e) EXCEPT !.records = f.records], f.ok)
  BY DEF Submit
<1>2. PICK e \in Admit(s.records, journal, o, s.now) :
         \/ /\ journal' = e.journal
            /\ issued' = IF e.ok THEN issued \cup {o} ELSE issued
            /\ Answer(b, o, IF e.ok THEN [New(e) EXCEPT !.tasks[o].at = "spawned"] ELSE New(e),
                      e.ok)
         \/ /\ e.ok
            /\ issued' = issued \cup {o}
            /\ \E f \in Mutate(e.records, e.journal, o, s.now, CanFail, Fail) :
                  /\ journal' = f.journal
                  /\ Answer(b, o, [New(e) EXCEPT !.records = f.records], f.ok)
  BY <1>1
<1>3. s.at = "handle" /\ UNCHANGED <<clock, ran>>
  BY DEF Submit, Handling
<1>4. /\ IsOutcome(e)
      /\ \A p \in Operations \ {o} : Quiet(s.records, journal, e, p)
      /\ \/ ~e.ok /\ e.records[o] = None /\ e.journal[o] = None
         \/ e.ok /\ Files(e, o, Accepted(s.now))
      /\ Tracked(e.records) /\ Running(e.records)
  <2>1. Tracked(s.records) /\ Running(s.records)
    BY <1>0, <1>3 DEF MemoryOK
  <2> QED
    BY <1>0, <2>1, AdmitEffect
<1>5. /\ Reaped(s.tasks) \in [Operations -> Tasks]
      /\ \A p \in Operations : Reaped(s.tasks)[p].at \in {s.tasks[p].at, "none"}
  BY <1>0, ReapedTasks
<1>6. New(e) \in BrokerStates /\ New(e).records = e.records /\ New(e).tasks = Reaped(s.tasks)
  BY <1>0, <1>4, <1>5 DEF BrokerStates, IsOutcome
<1>7. /\ Accepted(s.now) \in LongOperationRecord /\ Begins(Accepted(s.now))
      /\ ~Terminal(Accepted(s.now)) /\ Accepted(s.now) # None
      /\ ~Accepted(s.now).dispatchStarted
  <2>1. Accepted(s.now) \in LongOperationRecord
    BY <1>0 DEF Accepted, LongOperationRecord, Statuses
  <2>2. ~Terminal(Accepted(s.now)) /\ ~Accepted(s.now).dispatchStarted
    BY DEF Accepted, Terminal, EndStatuses
  <2>3. Begins(Accepted(s.now))
    BY <1>0 DEF Begins
  <2> QED
    BY <2>1, <2>2, <2>3, BrokerAssumption
<1>8. CASE ~e.ok /\ journal' = e.journal /\ issued' = issued /\ Answer(b, o, New(e), e.ok)
  <2> HIDE DEF New
  <2>1. PICK t \in BrokerStates :
          /\ broker' = [broker EXCEPT ![b] = t]
          /\ t.records = New(e).records /\ t.tasks = New(e).tasks /\ t.at = "relisten"
    BY <1>6, <1>8, AnswerEffect
  <2>2. \A p \in Operations : Quiet(s.records, journal, e, p)
    BY <1>0, <1>4, <1>8 DEF Quiet
  <2>3. ASSUME NEW p \in Operations PROVE Fits(e.records[p], t.tasks[p].at, p \in ran)
    <3>1. Fits(e.records[p], s.tasks[p].at, p \in ran)
      BY <1>0, <2>2, QuietFits
    <3> QED
      BY <1>5, <1>6, <2>1, <3>1 DEF Fits
  <2>4. /\ told' \in [Operations -> EndStatuses \cup {"not-dispatched", None}]
        /\ Tells(e) /\ endpoint' = None
    BY <1>6, <1>8, AnswerEffect
  <2>5. \A p \in Operations \ issued : t.tasks[p].at = "none"
    BY <1>0, <1>5, <1>6, <2>1
  <2>6. \A p \in Operations : Effect(s.records, journal, e, p, p \in ran)
    BY <2>2 DEF Effect
  <2> QED
    BY <1>3, <1>4, <1>6, <1>8, <2>1, <2>3, <2>4, <2>5, <2>6, MethodMemory DEF Early
<1>9. CASE /\ e.ok /\ journal' = e.journal /\ issued' = issued \cup {o}
           /\ Answer(b, o, [New(e) EXCEPT !.tasks[o].at = "spawned"], e.ok)
  <2> DEFINE n == [New(e) EXCEPT !.tasks[o].at = "spawned"]
  <2>1. /\ n \in BrokerStates /\ n.records = e.records /\ n.tasks[o].at = "spawned"
        /\ \A p \in Operations \ {o} : n.tasks[p] = Reaped(s.tasks)[p]
    <3> DEFINE spawned == [Reaped(s.tasks)[o] EXCEPT !.at = "spawned"]
    <3>1. spawned \in Tasks /\ spawned.at = "spawned"
      BY <1>5 DEF Tasks
    <3>2. n = [New(e) EXCEPT !.tasks = [Reaped(s.tasks) EXCEPT ![o] = spawned]]
      BY <1>5, <1>6
    <3> HIDE DEF New, spawned, n
    <3> QED
      BY <1>5, <1>6, <3>1, <3>2 DEF BrokerStates
  <2>2. Fits(e.records[o], n.tasks[o].at, o \in ran)
    BY <1>4, <1>7, <1>9, <2>1 DEF Fits, Files
  <2>3. \A p \in Operations \ {o} : n.tasks[p].at \in {s.tasks[p].at, "none"}
    BY <1>5, <2>1
  <2>4. Begins(e.records[o]) /\ Files(e, o, e.records[o])
    BY <1>4, <1>7, <1>9 DEF Files
  <2> HIDE DEF n
  <2> QED
    BY <1>3, <1>4, <1>9, <2>1, <2>2, <2>3, <2>4, AcceptedMemory DEF n
<1>10. CASE /\ e.ok /\ issued' = issued \cup {o}
            /\ \E f \in Mutate(e.records, e.journal, o, s.now, CanFail, Fail) :
                  /\ journal' = f.journal
                  /\ Answer(b, o, [New(e) EXCEPT !.records = f.records], f.ok)
  <2>1. PICK f \in Mutate(e.records, e.journal, o, s.now, CanFail, Fail) :
                  /\ journal' = f.journal
                  /\ Answer(b, o, [New(e) EXCEPT !.records = f.records], f.ok)
    BY <1>10
  <2> DEFINE n == [New(e) EXCEPT !.records = f.records]
             r == Stamped(Fail(e.records[o]), s.now)
  <2>2. Mutates(e.records, e.journal, o, f, CanFail(e.records[o]), r)
    BY <1>0, <1>4, FailEffect DEF IsOutcome
  <2>3. /\ IsOutcome(f) /\ \A p \in Operations \ {o} : Quiet(e.records, e.journal, f, p)
        /\ \/ f.records[o] = Accepted(s.now) /\ f.journal[o] = Accepted(s.now)
           \/ Files(f, o, Stamped(Fail(Accepted(s.now)), s.now))
    BY <1>4, <1>7, <1>10, <2>2 DEF Mutates, Files, Quiet
  <2>4. \A p \in Operations \ {o} : Quiet(s.records, journal, f, p)
    BY <1>4, <2>3 DEF Quiet
  <2>5. Begins(f.records[o]) /\ Files(f, o, f.records[o])
    BY <1>0, <2>3 DEF Begins, Files
  <2>6. Tracked(f.records) /\ Running(f.records)
    <3>1. \A p \in Operations : Effect(e.records, e.journal, f, p, p \in ran)
      <4>1. CanFail(e.records[o]) => Change(e.records[o], r, o \in ran)
        BY <1>0 DEF Change
      <4> QED
        BY <2>2, <4>1, MutatesEffect
    <3>2. e.records \in Records
      BY <1>4 DEF IsOutcome
    <3> QED
      BY <1>4, <3>1, <3>2, EffectLimits, FewerRecords
  <2>7. n \in BrokerStates /\ n.records = f.records /\ n.tasks = Reaped(s.tasks)
    <3> HIDE DEF New
    <3> QED
      BY <1>6, <2>3 DEF BrokerStates, IsOutcome
  <2>8. \A p \in Operations : n.tasks[p].at \in {s.tasks[p].at, "none"}
    BY <1>5, <2>7
  <2>9. n.tasks[o].at = "none"
    BY <1>0, <2>8
  <2>10. Fits(f.records[o], n.tasks[o].at, o \in ran)
    BY <2>9 DEF Fits
  <2> HIDE DEF n
  <2> QED
    BY <1>3, <1>10, <2>1, <2>3, <2>4, <2>5, <2>6, <2>7, <2>8, <2>10, AcceptedMemory DEF n
<1> QED
  BY <1>2, <1>8, <1>9, <1>10

\* Shutdown cancels every operation that the process owns.
LEMMA ShutdownMemory ==
    ASSUME MemoryInv, NEW b \in Brokers, CancelTasks(b)
    PROVE  MemoryInv' /\ \E e : MethodStep(b, e)
<1> DEFINE s == broker[b]
           owned == {o \in Operations : s.tasks[o].at # "none"}
           tasks == [o \in Operations |-> Revoked(s.tasks[o])]
<1>0. /\ s \in BrokerStates /\ s.records \in Records /\ s.tasks \in [Operations -> Tasks]
      /\ s.now \in Nat /\ journal \in Records
      /\ \A p \in Operations : Fits(s.records[p], s.tasks[p].at, p \in ran)
      /\ \A p \in Operations \ issued : s.tasks[p].at = "none"
  BY InMethod
<1>1. PICK e \in Cancellations(s.records, journal, owned, s.now) :
        /\ journal' = e.journal
        /\ Goto(b, "join", [s EXCEPT !.now = 0, !.records = e.records, !.tasks = tasks])
  BY DEF CancelTasks
<1>2. s.at = "shutdown" /\ UNCHANGED <<clock, endpoint, issued, ran, told>>
  BY DEF CancelTasks
<1>3. /\ IsOutcome(e)
      /\ \A p \in Operations :
            \/ Quiet(s.records, journal, e, p)
            \/ e.records[p] = s.records[p] /\ e.journal[p] = s.records[p]
            \/ /\ s.records[p] # None /\ CanRequestCancel(s.records[p])
               /\ Files(e, p, Stamped(RequestCancel(s.records[p]), s.now))
  BY <1>0, CancellationsEffect
<1>4. \A p \in Operations : Effect(s.records, journal, e, p, p \in ran)
  BY <1>0, <1>3 DEF Effect, Change, Files
<1>5. tasks \in [Operations -> Tasks] /\ \A p \in Operations : tasks[p].at = s.tasks[p].at
  BY <1>0, RevokedTask
<1> DEFINE t == [[s EXCEPT !.now = 0, !.records = e.records, !.tasks = tasks] EXCEPT !.at = "join"]
<1>6. t \in BrokerStates /\ t.records = e.records /\ t.tasks = tasks /\ t.at = "join"
  <2> HIDE DEF tasks
  <2> QED
    BY <1>0, <1>3, <1>5 DEF BrokerStates, IsOutcome
<1>7. broker' = [broker EXCEPT ![b] = t]
  BY <1>1 DEF Goto
<1>8. ASSUME NEW p \in Operations PROVE Fits(e.records[p], s.tasks[p].at, p \in ran)
  <2>1. CASE Quiet(s.records, journal, e, p)
    BY <1>0, <2>1, QuietFits
  <2>2. CASE e.records[p] = s.records[p]
    BY <1>0, <2>2
  <2>3. CASE /\ s.records[p] # None /\ CanRequestCancel(s.records[p])
             /\ Files(e, p, Stamped(RequestCancel(s.records[p]), s.now))
    <3>1. s.records[p] \in LongOperationRecord
      BY <1>0, <2>3 DEF Records
    <3> QED
      BY <1>0, <2>3, <3>1, CancelFits DEF Files
  <2> QED
    BY <1>3, <2>1, <2>2, <2>3
<1> HIDE DEF t, tasks
<1>9. \A p \in Operations : Fits(e.records[p], t.tasks[p].at, p \in ran)
  BY <1>5, <1>6, <1>8
<1>10. \A p \in Operations \ issued : t.tasks[p].at = "none"
  BY <1>0, <1>5, <1>6
<1>11. /\ endpoint \in Brokers \cup {None}
       /\ told \in [Operations -> EndStatuses \cup {"not-dispatched", None}]
  BY DEF MemoryInv, Typed
<1>12. Tells(e)
  BY <1>2 DEF Tells
<1> QED
  BY <1>1, <1>2, <1>3, <1>4, <1>6, <1>7, <1>9, <1>10, <1>11, <1>12, MethodMemory DEF Early

\* open: a record that is not ended waits for its turn, so none is left when it is through.
LEMMA RecoverMemory ==
    ASSUME MemoryInv, NEW b \in Brokers, Recover(b)
    PROVE  MemoryInv' /\ \E e : MethodStep(b, e)
<1> DEFINE s == broker[b]
<1>0. /\ s \in BrokerStates /\ MemoryOK(s, ran) /\ s.records \in Records
      /\ s.pending \subseteq Operations
      /\ s.tasks \in [Operations -> Tasks] /\ s.now \in Nat /\ journal \in Records
      /\ \A p \in Operations \ issued :
            s.tasks[p].at = "none" /\ s.records[p] = None /\ journal[p] = None /\ told[p] = None
      /\ endpoint \in Brokers \cup {None} /\ issued \subseteq Operations
      /\ told \in [Operations -> EndStatuses \cup {"not-dispatched", None}]
      /\ broker \in [Brokers -> BrokerStates]
  BY InMethod DEF MemoryInv, Typed, BrokerStates
<1>1. PICK o \in s.pending : \E e \in Recovered(s.records, journal, o, s.now) :
        /\ journal' = e.journal
        /\ IF e.ok
           THEN /\ Proceed(b, [s EXCEPT !.records = e.records, !.pending = @ \ {o}])
                /\ UNCHANGED endpoint
           ELSE Exit(b)
  BY DEF Recover
<1>2. PICK e \in Recovered(s.records, journal, o, s.now) :
        /\ journal' = e.journal
        /\ IF e.ok
           THEN /\ Proceed(b, [s EXCEPT !.records = e.records, !.pending = @ \ {o}])
                /\ UNCHANGED endpoint
           ELSE Exit(b)
  BY <1>1
<1>3. s.at = "recover" /\ UNCHANGED <<clock, issued, ran, told>>
  BY DEF Recover
<1>4. /\ s.records[o] # None /\ o \in Operations
      /\ s.pending \subseteq Present(s.records) /\ Active(s.records) \subseteq s.pending
      /\ Tracked(s.records)
      /\ \A p \in Operations : s.tasks[p].at = "none"
  BY <1>0, <1>3 DEF MemoryOK, Present, Early
<1>5. /\ IsOutcome(e)
      /\ \A p \in Operations \ {o} : e.records[p] = s.records[p] /\ e.journal[p] = journal[p]
      /\ ~e.ok => e.records = s.records /\ e.journal = journal
      /\ e.ok =>
           \/ Quiet(s.records, journal, e, o) /\ (e.records[o] = None \/ Terminal(e.records[o]))
           \/ /\ ~Terminal(s.records[o]) /\ Terminal(e.records[o])
              /\ Files(e, o, Stamped(RecoverAfterInterruption(s.records[o]), s.now))
  BY <1>0, <1>4, RecoveredEffect
<1>6. \A p \in Operations : Effect(s.records, journal, e, p, p \in ran)
  BY <1>0, <1>4, <1>5 DEF Effect, Change, Quiet, Files
<1>7. /\ Tells(e)
      /\ \A p \in Operations \ issued : e.records[p] = None /\ e.journal[p] = None
  BY <1>0, <1>3, <1>6 DEF Tells, Effect, Quiet
<1>8. /\ Present(e.records) \subseteq Present(s.records)
      /\ Active(e.records) \subseteq Active(s.records)
  BY <1>0, <1>6, EffectLimits
<1>9. Tracked(e.records)
  BY <1>4, <1>8, FewerRecords
<1>10. ASSUME NEW t \in BrokerStates, broker' = [broker EXCEPT ![b] = t], MemoryOK(t, ran),
              \A p \in Operations \ issued : t.records[p] = None /\ t.tasks[p].at = "none",
              t.records = e.records \/ t = Ended,
              endpoint' \in Brokers \cup {None}
       PROVE  MemoryInv' /\ MethodStep(b, e)
  <2>1. MemoryInv'
    BY <1>0, <1>2, <1>3, <1>5, <1>7, <1>10, MemoryStep DEF IsOutcome
  <2>2. broker'[b] = t /\ \A c \in Brokers \ {b} : broker'[c] = broker[c]
    BY <1>0, <1>10
  <2> QED
    BY <1>2, <1>3, <1>5, <1>6, <1>7, <1>10, <2>1, <2>2 DEF MethodStep
<1>11. CASE ~e.ok
  <2>1. Ended \in BrokerStates /\ MemoryOK(Ended, ran)
    BY EndedOK
  <2>2. \A p \in Operations \ issued : Ended.records[p] = None /\ Ended.tasks[p].at = "none"
    BY DEF Ended, NoRecords, NoTask
  <2> QED
    BY <1>0, <1>2, <1>10, <1>11, <2>1, <2>2 DEF Exit
<1>12. CASE e.ok
  <2> DEFINE n == [s EXCEPT !.records = e.records, !.pending = s.pending \ {o}]
             t1 == [n EXCEPT !.at = "recover"]
             t2 == [[n EXCEPT !.now = 0] EXCEPT !.at = "loop"]
  <2>1. /\ t1 \in BrokerStates /\ t1.records = e.records /\ t1.pending = s.pending \ {o}
        /\ t1.tasks = s.tasks /\ t1.at = "recover"
        /\ t2 \in BrokerStates /\ t2.records = e.records /\ t2.tasks = s.tasks /\ t2.at = "loop"
    BY <1>0, <1>5 DEF BrokerStates, IsOutcome
  <2>2. /\ s.pending \ {o} \subseteq Present(e.records)
        /\ Active(e.records) \subseteq s.pending \ {o}
    BY <1>4, <1>5, <1>8, <1>12 DEF Present, Active
  <2>3. MemoryOK(t1, ran)
    BY <1>4, <1>9, <2>1, <2>2 DEF MemoryOK, Fits
  <2>4. s.pending \ {o} = {} => MemoryOK(t2, ran)
    <3>1. ASSUME s.pending \ {o} = {} PROVE Running(e.records)
      <4>1. Active(e.records) = {}
        BY <2>2, <3>1
      <4> QED
        BY <4>1, FS_EmptySet, BrokerAssumption DEF Running
    <3> QED
      BY <1>4, <1>9, <2>1, <3>1 DEF MemoryOK, Fits
  <2>5. /\ \A p \in Operations \ issued : t1.records[p] = None /\ t1.tasks[p].at = "none"
        /\ \A p \in Operations \ issued : t2.records[p] = None /\ t2.tasks[p].at = "none"
    BY <1>0, <1>7, <2>1
  <2>6. \/ broker' = [broker EXCEPT ![b] = t1]
        \/ s.pending \ {o} = {} /\ broker' = [broker EXCEPT ![b] = t2]
    <3>1. Proceed(b, n)
      BY <1>2, <1>12
    <3>2. n.pending = s.pending \ {o}
      BY <1>0 DEF BrokerStates
    <3> QED
      BY <3>1, <3>2, Zenon DEF Proceed, Goto
  <2>7. endpoint' \in Brokers \cup {None}
    BY <1>0, <1>2, <1>12
  <2> HIDE DEF t1, t2
  <2> QED
    BY <1>10, <2>1, <2>3, <2>4, <2>5, <2>6, <2>7
<1> QED
  BY <1>11, <1>12, <1>5 DEF IsOutcome

\* The steps in which an operation's thread calls the registry.
LEMMA ThreadMethodMemory ==
    ASSUME MemoryInv, NEW b \in Brokers, NEW o \in Operations,
           WorkerDispatches(b, o) \/ WorkerSettles(b, o)
    PROVE  MemoryInv' /\ \E e : MethodStep(b, e)
<1> DEFINE s == broker[b]
           task == s.tasks[o]
<1>0. /\ s \in BrokerStates /\ s.records \in Records /\ s.tasks \in [Operations -> Tasks]
      /\ MemoryOK(s, ran) /\ journal \in Records /\ broker \in [Brokers -> BrokerStates]
      /\ \A p \in Operations : Fits(s.records[p], s.tasks[p].at, p \in ran)
      /\ \A p \in Operations \ issued : s.tasks[p].at = "none"
      /\ endpoint \in Brokers \cup {None}
      /\ told \in [Operations -> EndStatuses \cup {"not-dispatched", None}]
  BY InMethod DEF MemoryInv, Typed
<1>1. task.at \notin {"none", "finished"} /\ task.now \in Nat /\ task \in Tasks
  BY <1>0 DEF WorkerDispatches, WorkerSettles, Tasks
<1>2. s.at \notin Early /\ o \in issued
  BY <1>0, <1>1 DEF MemoryOK
<1>3. ASSUME NEW e, NEW at \in {"finished", "running"}, NEW can, NEW r,
             Mutates(s.records, journal, o, e, can, r),
             s.records[o] # None /\ can => Change(s.records[o], r, o \in ran),
             at = "running" => e.ok /\ r # None /\ ~Terminal(r) /\ r.dispatchStarted,
             WorkerLeaves(b, o, e, at)
      PROVE  MemoryInv' /\ MethodStep(b, e)
  <2> DEFINE left == [task EXCEPT !.at = at, !.now = 0]
             t == [s EXCEPT !.records = e.records, !.tasks = [s.tasks EXCEPT ![o] = left],
                            !.fatal = s.fatal \/ ~e.ok]
  <2>1. IsOutcome(e) /\ \A p \in Operations \ {o} : Quiet(s.records, journal, e, p)
    BY <1>3 DEF Mutates
  <2>2. \A p \in Operations : Effect(s.records, journal, e, p, p \in ran)
    BY <1>3, MutatesEffect
  <2>3. left \in Tasks /\ left.at = at
    BY <1>1, <1>3 DEF Tasks
  <2>4. (s.fatal \/ ~e.ok) \in BOOLEAN
    OBVIOUS
  <2>5. /\ t \in BrokerStates /\ t.records = e.records /\ t.at = s.at
        /\ t.tasks = [s.tasks EXCEPT ![o] = left]
    <3> HIDE DEF left
    <3> DEFINE fatal == s.fatal \/ ~e.ok
    <3>1. fatal \in BOOLEAN
      BY <2>4
    <3> HIDE DEF fatal
    <3> QED
      BY <1>0, <2>1, <2>3, <3>1 DEF BrokerStates, IsOutcome
  <2>6. broker' = [broker EXCEPT ![b] = t]
    BY <1>0, <1>3 DEF WorkerLeaves
  <2>7. UNCHANGED <<clock, endpoint, issued, ran, told>> /\ journal' = e.journal
    BY <1>3 DEF WorkerLeaves
  <2>8. Fits(e.records[o], at, o \in ran)
    BY <1>3 DEF Fits, Mutates, Files
  <2>9. ASSUME NEW p \in Operations PROVE Fits(e.records[p], t.tasks[p].at, p \in ran)
    <3> HIDE DEF t, left
    <3>1. CASE p = o
      BY <1>0, <2>3, <2>5, <2>8, <3>1
    <3>2. CASE p # o
      <4>1. Fits(e.records[p], s.tasks[p].at, p \in ran)
        BY <1>0, <2>1, <3>2, QuietFits
      <4> QED
        BY <1>0, <2>5, <3>2, <4>1
    <3> QED BY <3>1, <3>2
  <2>10. \A p \in Operations \ issued : t.tasks[p].at = "none"
    <3> HIDE DEF t, left
    <3> QED
      BY <1>0, <1>2, <2>5
  <2>11. Tells(e)
    BY <2>7 DEF Tells
  <2> HIDE DEF t, left
  <2> QED
    BY <1>0, <1>2, <2>1, <2>2, <2>5, <2>6, <2>7, <2>9, <2>10, <2>11, MethodMemory
<1>4. ASSUME NEW e \in Mutate(s.records, journal, o, task.now, CanFail, Fail),
             WorkerLeaves(b, o, e, "finished")
      PROVE  MemoryInv' /\ MethodStep(b, e)
  <2>1. Mutates(s.records, journal, o, e, CanFail(s.records[o]),
                Stamped(Fail(s.records[o]), task.now))
    BY <1>0, <1>1, FailEffect
  <2>2. CanFail(s.records[o]) =>
           Change(s.records[o], Stamped(Fail(s.records[o]), task.now), o \in ran)
    BY <1>1 DEF Change
  <2> QED
    BY <1>3, <1>4, <2>1, <2>2
<1>5. ASSUME NEW e \in Mutate(s.records, journal, o, task.now, CanComplete, Complete),
             task.at = "completing", WorkerLeaves(b, o, e, "finished")
      PROVE  MemoryInv' /\ MethodStep(b, e)
  <2>1. Mutates(s.records, journal, o, e, CanComplete(s.records[o]),
                Stamped(Complete(s.records[o]), task.now))
    BY <1>0, <1>1, CompleteEffect
  <2>2. o \in ran
    BY <1>0, <1>5 DEF Fits
  <2>3. CanComplete(s.records[o]) =>
           Change(s.records[o], Stamped(Complete(s.records[o]), task.now), o \in ran)
    BY <1>1, <2>2 DEF Change
  <2> QED
    BY <1>3, <1>5, <2>1, <2>3
<1>6. ASSUME NEW e \in Mutate(s.records, journal, o, task.now, CanStartDispatch, StartDispatch),
             WorkerLeaves(b, o, e, AfterDispatch(e.ok))
      PROVE  MemoryInv' /\ MethodStep(b, e)
  <2> DEFINE r == Stamped(StartDispatch(s.records[o]), task.now)
  <2>1. Mutates(s.records, journal, o, e, CanStartDispatch(s.records[o]), r)
    BY <1>0, <1>1, StartDispatchEffect
  <2>2. CanStartDispatch(s.records[o]) => Change(s.records[o], r, o \in ran)
    BY <1>1 DEF Change
  <2>3. e.ok => r # None /\ ~Terminal(r) /\ r.dispatchStarted
    <3>1. ASSUME e.ok PROVE s.records[o] \in LongOperationRecord /\ CanStartDispatch(s.records[o])
      BY <1>0, <2>1, <3>1 DEF Mutates, Records
    <3>2. ASSUME NEW q \in LongOperationRecord, CanStartDispatch(q)
          PROVE  /\ ~Terminal(Stamped(StartDispatch(q), task.now))
                 /\ Stamped(StartDispatch(q), task.now).dispatchStarted
                 /\ Stamped(StartDispatch(q), task.now) # None
      <4>1. Stamped(StartDispatch(q), task.now) # None
        BY <1>1, ChangeType, BrokerAssumption
      <4> QED
        BY <4>1 DEF Stamped, StartDispatch, LongOperationRecord, Terminal, EndStatuses
    <3> QED
      BY <3>1, <3>2
  <2>4. CASE e.ok
    <3> HIDE DEF r
    <3> QED
      BY <1>3, <1>6, <2>1, <2>2, <2>3, <2>4 DEF AfterDispatch
  <2>5. CASE ~e.ok
    BY <1>3, <1>6, <2>1, <2>2, <2>5 DEF AfterDispatch
  <2> QED BY <2>4, <2>5
<1>7. CASE WorkerDispatches(b, o)
  BY <1>4, <1>6, <1>7 DEF WorkerDispatches
<1>8. CASE WorkerSettles(b, o)
  BY <1>4, <1>5, <1>8 DEF WorkerSettles
<1> QED
  BY <1>7, <1>8

\* MemoryInv is inductive, with no condition on the number of processes.
LEMMA MemoryNext ==
    ASSUME MemoryInv, [Next]_vars
    PROVE  MemoryInv'
<1>1. CASE UNCHANGED vars
  BY <1>1 DEF vars, MemoryInv, Typed, HistoryInv
<1>2. CASE Tick
  BY <1>2 DEF Tick, MemoryInv, Typed, HistoryInv
<1>3. ASSUME NEW b \in Brokers,
             \/ Launch(b) \/ Accept(b) \/ Signal(b) \/ Crash(b) \/ BrokerStep(b)
             \/ \E o \in Operations : WorkerActs(b, o) \/ WorkerStep(b, o)
      PROVE  MemoryInv'
  <2>1. CASE \/ Launch(b) \/ CreateEndpoint(b) \/ Load(b) \/ Loop(b) \/ StopListening(b)
             \/ Accept(b) \/ CloseConnection(b) \/ Join(b) \/ Signal(b) \/ Crash(b)
    BY <2>1, ControlMemory
  <2>2. CASE Recover(b) \/ Submit(b) \/ Status(b) \/ CancelOperation(b) \/ CancelTasks(b)
    BY <2>2, RecoverMemory, SubmitMemory, StatusMemory, CancelMemory, ShutdownMemory
  <2>3. ASSUME NEW o \in Operations, WorkerActs(b, o) \/ WorkerStep(b, o)
        PROVE  MemoryInv'
    BY <2>3, ThreadMemory, ThreadMethodMemory DEF WorkerStep
  <2> QED
    BY <1>3, <2>1, <2>2, <2>3 DEF BrokerStep
<1> QED
  BY <1>1, <1>2, <1>3 DEF Next

\* MemoryInv holds at first.
LEMMA MemoryInit ==
    ASSUME Init
    PROVE  MemoryInv
<1>1. \A b \in Brokers : broker[b] \in BrokerStates /\ MemoryOK(broker[b], ran)
  BY EndedOK DEF Init
<1>2. NoRecords \in Records /\ \A o \in Operations : NoRecords[o] = None
  BY DEF NoRecords, Records
<1>3. Typed
  BY <1>1, <1>2 DEF Init, Typed, NoRecords
<1>4. HistoryInv
  BY <1>2 DEF Init, HistoryInv, Ended, NoTask
<1> QED
  BY <1>1, <1>3, <1>4 DEF MemoryInv

\* Whatever the handles, the processes and the limits are, every variable has its type, and
\* no registry holds more records than its limits allow: not after a recovery, not when
\* writing a file fails, and not when a second broker runs.
THEOREM TypeCorrect == Spec => []TypeOK
<1>1. MemoryInv => TypeOK
  BY DEF MemoryInv, Typed, TypeOK, MemoryOK, Tracked, Running
<1>2. Init => MemoryInv
  BY MemoryInit
<1>3. MemoryInv /\ [Next]_vars => MemoryInv'
  BY MemoryNext
<1> QED
  BY <1>1, <1>2, <1>3, PTL DEF Spec

----------------------------------------------------------------------------
(* The journal, while one process at a time serves.                        *)

Serving(b) == broker[b].at \notin {"ended", "launched"}

\* A process that still joins its threads, or is on its way to the pipe again, serves too.
OneServing == \A b, c \in Brokers : Serving(b) /\ Serving(c) => b = c

Loaded(s) == s.at \notin {"ended", "launched", "open"}

Agreed(m, f) ==
    \A o \in Operations :
        m[o] = f[o] \/ (m[o] = None /\ f[o] # None /\ Terminal(f[o]))

AgreeInv == \A b \in Brokers : Loaded(broker[b]) => Agreed(broker[b].records, journal)

\* What is on file agrees with what was done and with what was told.
FileInv ==
    \A o \in Operations :
        /\ journal[o] # None =>
              /\ IsValid(journal[o])
              /\ o \in ran => journal[o].dispatchStarted
              /\ told[o] # None => Terminal(journal[o]) /\ told[o] = EndOf(journal[o])
        /\ told[o] = "not-dispatched" => o \notin ran

IInv == MemoryInv /\ AgreeInv /\ FileInv

\* Everything but a registry method and a recording's act leaves the files and the history.
ControlStep(b) ==
    /\ UNCHANGED <<journal, issued, ran, told>>
    /\ \A c \in Brokers \ {b} : broker'[c] = broker[c]
    /\ Loaded(broker'[b]) =>
          \/ broker'[b].records = journal
          \/ Loaded(broker[b]) /\ broker'[b].records = broker[b].records

ActStep(b, o) ==
    /\ broker[b].tasks[o].at = "running"
    /\ ran' = ran \cup {o}
    /\ UNCHANGED <<journal, broker, issued, told>>

\* The steps of a broker's thread outside the registry leave files and history alone.
LEMMA ControlSteps ==
    ASSUME MemoryInv, NEW b \in Brokers,
           \/ Launch(b) \/ CreateEndpoint(b) \/ Load(b) \/ Loop(b) \/ StopListening(b)
           \/ Accept(b) \/ CloseConnection(b) \/ Join(b) \/ Signal(b) \/ Crash(b)
    PROVE  ControlStep(b)
<1> DEFINE s == broker[b]
<1>0. broker \in [Brokers -> BrokerStates] /\ s \in BrokerStates
  BY DEF MemoryInv, Typed
<1>1. ASSUME NEW t, broker' = [broker EXCEPT ![b] = t],
             Loaded(t) => t.records = journal \/ (Loaded(s) /\ t.records = s.records),
             UNCHANGED <<journal, issued, ran, told>>
      PROVE  ControlStep(b)
  BY <1>0, <1>1 DEF ControlStep
<1>2. ASSUME Exit(b), UNCHANGED <<journal, issued, ran, told>>
      PROVE  ControlStep(b)
  <2>1. ~Loaded(Ended)
    BY DEF Loaded, Ended
  <2> QED
    BY <1>1, <1>2, <2>1 DEF Exit
<1>3. CASE Launch(b)
  <2> DEFINE t == [Ended EXCEPT !.at = "launched"]
  <2>1. ~Loaded(t)
    BY DEF Loaded, Ended
  <2> HIDE DEF t
  <2> QED
    BY <1>1, <1>3, <2>1 DEF Launch, Goto, t
<1>4. CASE CreateEndpoint(b)
  <2>1. CASE endpoint = None
    <3> DEFINE t == [s EXCEPT !.at = IF s.at = "launched" THEN "open" ELSE "loop"]
    <3>1. Loaded(t) => Loaded(s) /\ t.records = s.records
      BY <1>0, <1>4 DEF Loaded, BrokerStates, CreateEndpoint
    <3> HIDE DEF t
    <3> QED
      BY <1>1, <1>4, <2>1, <3>1 DEF CreateEndpoint, Goto, t
  <2> QED
    BY <1>2, <1>4, <2>1 DEF CreateEndpoint
<1>5. CASE Load(b)
  <2> DEFINE n == [s EXCEPT !.now = clock, !.records = journal, !.pending = Present(journal)]
  <2>1. Proceed(b, n) \/ Exit(b)
    BY <1>5, Zenon DEF Load
  <2>2. UNCHANGED <<journal, issued, ran, told>>
    BY <1>5 DEF Load
  <2>3. CASE Proceed(b, n)
    <3> DEFINE t1 == [n EXCEPT !.at = "recover"]
               t2 == [[n EXCEPT !.now = 0] EXCEPT !.at = "loop"]
    <3>1. broker' = [broker EXCEPT ![b] = t1] \/ broker' = [broker EXCEPT ![b] = t2]
      BY <2>3, Zenon DEF Proceed, Goto
    <3>2. t1.records = journal /\ t2.records = journal
      BY <1>0 DEF BrokerStates
    <3> HIDE DEF t1, t2
    <3> QED
      BY <1>1, <2>2, <3>1, <3>2
  <2> QED
    BY <1>2, <2>1, <2>2, <2>3
<1>6. CASE Loop(b)
  <2> DEFINE t1 == [[s EXCEPT !.now = clock] EXCEPT !.at = "shutdown"]
             t2 == [s EXCEPT !.at = "listen"]
  <2>1. t1.records = s.records /\ t2.records = s.records /\ Loaded(s)
    BY <1>0, <1>6 DEF BrokerStates, Loop, Loaded
  <2>2. broker' = [broker EXCEPT ![b] = t1] \/ broker' = [broker EXCEPT ![b] = t2]
    BY <1>6 DEF Loop, BeginShutdown, Goto
  <2> HIDE DEF t1, t2
  <2> QED
    BY <1>1, <1>6, <2>1, <2>2 DEF Loop
<1>7. CASE StopListening(b)
  <2> DEFINE t1 == [[s EXCEPT !.now = clock] EXCEPT !.at = "shutdown"]
  <2>1. t1.records = s.records /\ Loaded(s)
    BY <1>0, <1>7 DEF BrokerStates, StopListening, Loaded
  <2>2. broker' = [broker EXCEPT ![b] = t1]
    BY <1>7 DEF StopListening, BeginShutdown, Goto
  <2> HIDE DEF t1
  <2> QED
    BY <1>1, <1>7, <2>1, <2>2 DEF StopListening
<1>8. CASE Accept(b)
  <2> DEFINE t1 == [[s EXCEPT !.now = clock] EXCEPT !.at = "handle"]
  <2>1. t1.records = s.records /\ Loaded(s)
    BY <1>0, <1>8 DEF BrokerStates, Accept, Loaded
  <2>2. broker' = [broker EXCEPT ![b] = t1]
    BY <1>8 DEF Accept, Goto
  <2> HIDE DEF t1
  <2> QED
    BY <1>1, <1>8, <2>1, <2>2 DEF Accept
<1>9. CASE CloseConnection(b)
  <2> DEFINE t1 == [[s EXCEPT !.now = 0] EXCEPT !.at = "relisten"]
  <2>1. t1.records = s.records /\ Loaded(s)
    BY <1>0, <1>9 DEF BrokerStates, CloseConnection, Loaded
  <2>2. broker' = [broker EXCEPT ![b] = t1]
    BY <1>9 DEF CloseConnection, Goto
  <2> HIDE DEF t1
  <2> QED
    BY <1>1, <1>9, <2>1, <2>2 DEF CloseConnection
<1>10. CASE Join(b)
  BY <1>2, <1>10 DEF Join
<1>11. CASE Signal(b)
  <2> DEFINE t1 == [s EXCEPT !.signalled = TRUE]
  <2>1. t1.records = s.records /\ (Loaded(t1) => Loaded(s))
    BY <1>0 DEF BrokerStates, Loaded
  <2>2. broker' = [broker EXCEPT ![b] = t1]
    BY <1>0, <1>11 DEF Signal
  <2> HIDE DEF t1
  <2> QED
    BY <1>1, <1>11, <2>1, <2>2 DEF Signal
<1>12. CASE Crash(b)
  BY <1>2, <1>12 DEF Crash
<1> QED
  BY <1>3, <1>4, <1>5, <1>6, <1>7, <1>8, <1>9, <1>10, <1>11, <1>12

\* So do those of an operation's thread, except that a recording acts.
LEMMA ThreadSteps ==
    ASSUME MemoryInv, NEW b \in Brokers, NEW o \in Operations,
           WorkerStarts(b, o) \/ WorkerReturns(b, o)
    PROVE  ControlStep(b)
<1> DEFINE s == broker[b]
<1>0. broker \in [Brokers -> BrokerStates] /\ s \in BrokerStates
  BY DEF MemoryInv, Typed
<1>1. PICK task : SetTask(b, o, task)
  BY DEF WorkerStarts, WorkerReturns
<1> DEFINE t == [s EXCEPT !.tasks[o] = task]
<1>2. t.records = s.records /\ t.at = s.at
  BY <1>0 DEF BrokerStates
<1>3. broker' = [broker EXCEPT ![b] = t]
  BY <1>0, <1>1 DEF SetTask
<1>4. UNCHANGED <<journal, issued, ran, told>>
  BY DEF WorkerStarts, WorkerReturns
<1> HIDE DEF t
<1> QED
  BY <1>0, <1>2, <1>3, <1>4 DEF ControlStep, Loaded

\* A process that calls a method has loaded the journal.
LEMMA MethodIsLoaded ==
    ASSUME MemoryInv, NEW b \in Brokers,
           \/ Recover(b) \/ Submit(b) \/ Status(b) \/ CancelOperation(b) \/ CancelTasks(b)
           \/ \E o \in Operations : WorkerDispatches(b, o) \/ WorkerSettles(b, o)
    PROVE  Loaded(broker[b])
<1>1. CASE Recover(b) \/ Submit(b) \/ Status(b) \/ CancelOperation(b) \/ CancelTasks(b)
  BY <1>1 DEF Recover, Submit, Status, CancelOperation, CancelTasks, Handling, Loaded
<1>2. ASSUME NEW o \in Operations, WorkerDispatches(b, o) \/ WorkerSettles(b, o)
      PROVE  Loaded(broker[b])
  BY <1>2 DEF WorkerDispatches, WorkerSettles, MemoryInv, MemoryOK, Early, Loaded
<1> QED
  BY <1>1, <1>2

\* The kinds of steps.
LEMMA NextKinds ==
    ASSUME MemoryInv, [Next]_vars
    PROVE  \/ UNCHANGED <<journal, broker, issued, ran, told>>
           \/ \E b \in Brokers : ControlStep(b)
           \/ \E b \in Brokers, o \in Operations : ActStep(b, o)
           \/ \E b \in Brokers : Loaded(broker[b]) /\ \E e : MethodStep(b, e)
<1>1. CASE UNCHANGED vars
  BY <1>1 DEF vars
<1>2. CASE Tick
  BY <1>2 DEF Tick
<1>3. ASSUME NEW b \in Brokers,
             \/ Launch(b) \/ Accept(b) \/ Signal(b) \/ Crash(b) \/ BrokerStep(b)
             \/ \E o \in Operations : WorkerActs(b, o) \/ WorkerStep(b, o)
      PROVE  \/ ControlStep(b)
             \/ \E o \in Operations : ActStep(b, o)
             \/ Loaded(broker[b]) /\ \E e : MethodStep(b, e)
  <2>1. CASE \/ Launch(b) \/ CreateEndpoint(b) \/ Load(b) \/ Loop(b) \/ StopListening(b)
             \/ Accept(b) \/ CloseConnection(b) \/ Join(b) \/ Signal(b) \/ Crash(b)
    BY <2>1, ControlSteps
  <2>2. CASE Recover(b) \/ Submit(b) \/ Status(b) \/ CancelOperation(b) \/ CancelTasks(b)
    <3>1. \E e : MethodStep(b, e)
      BY <2>2, RecoverMemory, SubmitMemory, StatusMemory, CancelMemory, ShutdownMemory
    <3> QED
      BY <2>2, <3>1, MethodIsLoaded
  <2>3. ASSUME NEW o \in Operations, WorkerStarts(b, o) \/ WorkerReturns(b, o)
        PROVE  ControlStep(b)
    BY <2>3, ThreadSteps
  <2>4. ASSUME NEW o \in Operations, WorkerDispatches(b, o) \/ WorkerSettles(b, o)
        PROVE  Loaded(broker[b]) /\ \E e : MethodStep(b, e)
    BY <2>4, ThreadMethodMemory, MethodIsLoaded
  <2>5. ASSUME NEW o \in Operations, WorkerActs(b, o)
        PROVE  ActStep(b, o)
    BY <2>5 DEF WorkerActs, ActStep
  <2> QED
    BY <1>3, <2>1, <2>2, <2>3, <2>4, <2>5 DEF BrokerStep, WorkerStep
<1> QED
  BY <1>1, <1>2, <1>3 DEF Next

\* What a method does to one file, when memory and files agree before it.
FileMove(o) ==
    \/ /\ o \in issued' <=> o \in issued
       /\ \/ journal'[o] = journal[o]
          \/ journal[o] # None /\ Terminal(journal[o]) /\ journal'[o] = None
          \/ journal[o] # None /\ Change(journal[o], journal'[o], o \in ran)
    \/ o \notin issued /\ o \in issued' /\ Begins(journal'[o])

\* A method of a process whose records agree with the files moves both together.
LEMMA MethodMoves ==
    ASSUME MemoryInv, NEW b \in Brokers, NEW e, MethodStep(b, e),
           Agreed(broker[b].records, journal)
    PROVE  /\ \A o \in Operations : FileMove(o)
           /\ Agreed(e.records, e.journal)
<1> DEFINE m == broker[b].records
<1>1. ASSUME NEW o \in Operations
      PROVE  /\ FileMove(o)
             /\ \/ e.records[o] = e.journal[o]
                \/ e.records[o] = None /\ e.journal[o] # None /\ Terminal(e.journal[o])
  <2>1. journal' = e.journal
    BY DEF MethodStep
  <2>2. m[o] = journal[o] \/ (m[o] = None /\ journal[o] # None /\ Terminal(journal[o]))
    BY DEF Agreed
  <2>3. CASE o \notin issued /\ o \in issued' /\ Begins(e.records[o]) /\ Files(e, o, e.records[o])
    BY <2>1, <2>3 DEF FileMove, Files
  <2>4. CASE /\ o \in issued' <=> o \in issued
             /\ Effect(m, journal, e, o, o \in ran)
    <3>1. CASE Quiet(m, journal, e, o)
      BY <2>1, <2>2, <2>4, <3>1 DEF Quiet, FileMove
    <3>2. CASE e.records[o] = m[o] /\ e.journal[o] = m[o]
      BY <2>1, <2>2, <2>4, <3>2 DEF FileMove
    <3>3. CASE m[o] # None /\ Change(m[o], e.records[o], o \in ran) /\ Files(e, o, e.records[o])
      BY <2>1, <2>2, <2>4, <3>3 DEF Files, FileMove
    <3> QED
      BY <2>4, <3>1, <3>2, <3>3 DEF Effect
  <2> QED
    BY <2>3, <2>4 DEF MethodStep
<1> QED
  BY <1>1 DEF Agreed

\* A record accepted anew.
LEMMA BeginsType ==
    ASSUME NEW r, Begins(r)
    PROVE  /\ r \in LongOperationRecord /\ r # None /\ IsValid(r) /\ ~r.dispatchStarted
           /\ LifeOf(r) \in {"accepted", "not-dispatched"}
<1>1. PICK now \in Nat : r = Accepted(now) \/ r = Stamped(Fail(Accepted(now)), now)
  BY DEF Begins
<1>2. Accepted(now) \in LongOperationRecord
  BY DEF Accepted, LongOperationRecord, Statuses
<1>3. r \in LongOperationRecord
  BY <1>1, <1>2, ChangeType
<1>4. /\ ~r.dispatchStarted /\ IsValid(r)
      /\ LifeOf(r) \in {"accepted", "not-dispatched"}
  <2>1. CASE r = Accepted(now)
    BY <2>1 DEF Accepted, IsValid, LifeOf, Terminal, EndStatuses
  <2>2. CASE r = Stamped(Fail(Accepted(now)), now)
    <3>1. r.status = "failed" /\ ~r.dispatchStarted
      BY <2>2 DEF Accepted, Stamped, Fail
    <3> QED
      BY <3>1 DEF IsValid, LifeOf, EndOf, RetrySafe, Terminal, EndStatuses
  <2> QED
    BY <1>1, <2>1, <2>2
<1> QED
  BY <1>3, <1>4, BrokerAssumption

\* A file keeps to what was done and told before, and what is told is what is on file.
LEMMA MethodFiles ==
    ASSUME IInv, MemoryInv', NEW b \in Brokers, NEW e, MethodStep(b, e),
           \A o \in Operations : FileMove(o), Agreed(e.records, e.journal)
    PROVE  /\ FileInv'
           /\ \A o \in Operations :
                 \/ told'[o] = told[o]
                 \/ /\ journal'[o] # None /\ Terminal(journal'[o])
                    /\ told'[o] = EndOf(journal'[o])
                    /\ told[o] \in {None, told'[o]}
<1>1. journal' = e.journal /\ ran' = ran
  BY DEF MethodStep
<1>2. ASSUME NEW o \in Operations
      PROVE  /\ journal'[o] # None =>
                  /\ IsValid(journal'[o])
                  /\ o \in ran' => journal'[o].dispatchStarted
             /\ told[o] # None /\ journal'[o] # None => journal'[o] = journal[o]
  <2>1. CASE journal'[o] = journal[o]
    BY <1>1, <2>1 DEF IInv, FileInv
  <2>2. CASE journal[o] # None /\ Change(journal[o], journal'[o], o \in ran)
    <3>1. journal[o] \in LongOperationRecord
      BY <2>2 DEF IInv, MemoryInv, Typed, Records
    <3>2. /\ ~Terminal(journal[o])
          /\ IsValid(journal[o]) => IsValid(journal'[o])
          /\ journal[o].dispatchStarted => journal'[o].dispatchStarted
      BY <2>2, <3>1, ChangeAdvances
    <3> QED
      BY <1>1, <2>2, <3>2 DEF IInv, FileInv
  <2>3. CASE o \notin issued /\ Begins(journal'[o])
    <3>1. IsValid(journal'[o])
      BY <2>3, BeginsType
    <3>2. o \notin ran /\ told[o] = None
      BY <2>3 DEF IInv, MemoryInv, HistoryInv
    <3> QED
      BY <1>1, <3>1, <3>2
  <2> QED
    BY <2>1, <2>2, <2>3 DEF FileMove
<1>3. ASSUME NEW o \in Operations
      PROVE  \/ told'[o] = told[o]
             \/ /\ journal'[o] # None /\ Terminal(journal'[o])
                /\ told'[o] = EndOf(journal'[o])
                /\ told[o] \in {None, told'[o]}
  <2>1. CASE /\ e.records[o] # None /\ Terminal(e.records[o])
             /\ told'[o] = EndOf(e.records[o])
    <3>1. journal'[o] = e.records[o]
      BY <1>1, <2>1 DEF Agreed
    <3>2. told[o] # None => told[o] = EndOf(journal'[o])
      BY <1>2, <2>1, <3>1 DEF IInv, FileInv
    <3> QED
      BY <2>1, <3>1, <3>2
  <2> QED
    BY <2>1 DEF MethodStep, Tells
<1>4. ASSUME NEW o \in Operations, told'[o] # None, journal'[o] # None
      PROVE  Terminal(journal'[o]) /\ told'[o] = EndOf(journal'[o])
  BY <1>2, <1>3, <1>4 DEF IInv, FileInv
<1>5. ASSUME NEW o \in Operations, told'[o] = "not-dispatched"
      PROVE  o \notin ran'
  <2>1. CASE told'[o] = told[o]
    BY <1>1, <1>5, <2>1 DEF IInv, FileInv
  <2>2. CASE journal'[o] # None /\ Terminal(journal'[o]) /\ told'[o] = EndOf(journal'[o])
    <3>1. RetrySafe(journal'[o])
      BY <1>5, <2>2 DEF EndOf, Terminal, EndStatuses
    <3> QED
      BY <1>2, <2>2, <3>1 DEF RetrySafe
  <2> QED
    BY <1>3, <2>1, <2>2
<1> QED
  BY <1>2, <1>3, <1>4, <1>5 DEF FileInv

\* A recording acts after its dispatch was put on file, and before its end.
LEMMA ActFiles ==
    ASSUME IInv, NEW b \in Brokers, NEW o \in Operations, ActStep(b, o)
    PROVE  /\ FileInv' /\ AgreeInv'
           /\ journal[o] # None /\ ~Terminal(journal[o]) /\ journal[o].dispatchStarted
<1>1. /\ broker[b].records[o] # None /\ ~Terminal(broker[b].records[o])
      /\ broker[b].records[o].dispatchStarted
      /\ Loaded(broker[b])
  BY DEF IInv, MemoryInv, MemoryOK, Fits, ActStep, Early, Loaded
<1>2. journal[o] = broker[b].records[o]
  BY <1>1 DEF IInv, AgreeInv, Agreed
<1>3. told[o] = None /\ told[o] # "not-dispatched"
  BY <1>1, <1>2, BrokerAssumption DEF IInv, FileInv
<1>4. FileInv'
  BY <1>1, <1>2, <1>3 DEF IInv, FileInv, ActStep
<1>5. AgreeInv'
  BY DEF IInv, AgreeInv, ActStep
<1> QED
  BY <1>1, <1>2, <1>4, <1>5

\* A step that leaves the files alone keeps FileInv.
LEMMA ControlFiles ==
    ASSUME IInv, NEW b \in Brokers, ControlStep(b)
    PROVE  FileInv' /\ AgreeInv'
<1>1. FileInv'
  BY DEF IInv, FileInv, ControlStep
<1>2. ASSUME NEW c \in Brokers, Loaded(broker'[c])
      PROVE  Agreed(broker'[c].records, journal')
  BY <1>2 DEF IInv, AgreeInv, ControlStep, Agreed
<1> QED
  BY <1>1, <1>2 DEF AgreeInv

\* Only the process that serves moves its memory and the files, together.
LEMMA MethodAgrees ==
    ASSUME IInv, OneServing, NEW b \in Brokers, Loaded(broker[b]), NEW e, MethodStep(b, e),
           Agreed(e.records, e.journal)
    PROVE  AgreeInv'
<1>1. ASSUME NEW c \in Brokers, Loaded(broker'[c])
      PROVE  Agreed(broker'[c].records, journal')
  <2>1. CASE c = b
    <3>1. ~Loaded(Ended)
      BY DEF Loaded, Ended
    <3> QED
      BY <1>1, <2>1, <3>1 DEF MethodStep
  <2>2. CASE c # b
    BY <1>1, <2>2 DEF MethodStep, OneServing, Serving, Loaded
  <2> QED
    BY <2>1, <2>2
<1> QED
  BY <1>1 DEF AgreeInv

\* IInv is inductive as long as one process serves at a time.
LEMMA StepKeepsIInv ==
    ASSUME IInv, OneServing, [Next]_vars
    PROVE  IInv'
<1>1. MemoryInv'
  BY MemoryNext DEF IInv
<1>2. CASE UNCHANGED <<journal, broker, issued, ran, told>>
  BY <1>1, <1>2 DEF IInv, FileInv, AgreeInv
<1>3. ASSUME NEW b \in Brokers, ControlStep(b) PROVE IInv'
  BY <1>1, <1>3, ControlFiles DEF IInv
<1>4. ASSUME NEW b \in Brokers, NEW o \in Operations, ActStep(b, o) PROVE IInv'
  BY <1>1, <1>4, ActFiles DEF IInv
<1>5. ASSUME NEW b \in Brokers, Loaded(broker[b]), NEW e, MethodStep(b, e) PROVE IInv'
  <2>1. Agreed(broker[b].records, journal)
    BY <1>5 DEF IInv, AgreeInv
  <2>2. (\A o \in Operations : FileMove(o)) /\ Agreed(e.records, e.journal)
    BY <1>5, <2>1, MethodMoves DEF IInv
  <2> QED
    BY <1>1, <1>5, <2>2, MethodFiles, MethodAgrees DEF IInv
<1> QED
  BY <1>2, <1>3, <1>4, <1>5, NextKinds DEF IInv

\* IInv holds at first.
LEMMA InitIInv ==
    ASSUME Init
    PROVE  IInv
<1>1. FileInv
  BY BrokerAssumption DEF Init, FileInv, NoRecords
<1>2. AgreeInv
  BY DEF Init, AgreeInv, Loaded, Ended
<1> QED
  BY <1>1, <1>2, MemoryInit DEF IInv

\* Through any number of processes, one serving at a time, a caller that was told "failed,
\* retrySafe" can submit again: the operation's recording has not begun and never will.
THEOREM RetrySafeHolds == Spec /\ []OneServing => []RetrySafeIsTrue
<1>1. IInv => RetrySafeIsTrue
  BY DEF IInv, FileInv, RetrySafeIsTrue
<1> QED
  BY <1>1, InitIInv, StepKeepsIInv, PTL DEF Spec

\* Under the same condition a serving broker answers from what is on file, whichever write
\* or removal failed, and the next broker can load every file.
THEOREM JournalHolds == Spec /\ []OneServing => []JournalAgrees
<1>1. IInv => JournalAgrees
  <2>1. IInv => \A o \in Present(journal) : IsValid(journal[o])
    BY DEF IInv, FileInv, Present
  <2>2. IInv => \A b \in Brokers :
           broker[b].at \notin {"ended", "launched", "open"} =>
               \A o \in Operations :
                   \/ broker[b].records[o] = journal[o]
                   \/ broker[b].records[o] = None /\ Terminal(journal[o])
    BY DEF IInv, AgreeInv, Agreed, Loaded
  <2> QED
    BY <2>1, <2>2 DEF JournalAgrees
<1> QED
  BY <1>1, InitIInv, StepKeepsIInv, PTL DEF Spec

----------------------------------------------------------------------------
(* The broker implements the life of an operation.                         *)

\* A transition of a record moves the life of its operation forward.
LEMMA ChangeLife ==
    ASSUME NEW r \in LongOperationRecord, IsValid(r), NEW s, NEW o, NEW acted,
           Change(r, s, o \in acted)
    PROVE  \/ LifeOf(r) = "accepted" /\ LifeOf(s) \in {"running", "cancelled"}
           \/ LifeOf(r) = "running" /\ LifeOf(s) = "stopping"
           \/ LifeOf(r) \in {"accepted", "cancelled"} /\ LifeOf(s) = "not-dispatched"
           \/ /\ LifeOf(r) \in {"running", "stopping"}
              /\ LifeOf(s) \in {"failed", "outcome-unknown"}
           \/ LifeOf(r) \in {"running", "stopping"} /\ o \in acted /\ LifeOf(s) = "completed"
<1>1. PICK now \in Nat :
        \/ CanStartDispatch(r) /\ s = Stamped(StartDispatch(r), now)
        \/ CanRequestCancel(r) /\ s = Stamped(RequestCancel(r), now)
        \/ CanComplete(r) /\ o \in acted /\ s = Stamped(Complete(r), now)
        \/ CanFail(r) /\ s = Stamped(Fail(r), now)
        \/ ~Terminal(r) /\ s = Stamped(RecoverAfterInterruption(r), now)
  BY DEF Change
<1>2. /\ ~Terminal(r)
      /\ r.status = "accepted" => ~r.dispatchStarted
      /\ r.status = "running" => r.dispatchStarted
      /\ r.status \in {"accepted", "running", "cancel-requested"}
  <2>1. ~Terminal(r)
    BY <1>1 DEF CanStartDispatch, CanRequestCancel, CanComplete, CanFail, Terminal, EndStatuses
  <2> QED
    BY <2>1 DEF IsValid, LongOperationRecord, Statuses, Terminal
<1>3. LifeOf(r) = IF r.status # "cancel-requested" THEN r.status
                  ELSE IF r.dispatchStarted THEN "stopping" ELSE "cancelled"
  BY <1>2 DEF LifeOf
<1>4. CASE CanStartDispatch(r) /\ s = Stamped(StartDispatch(r), now)
  <2>1. s.status = "running"
    BY <1>4 DEF Stamped, StartDispatch, LongOperationRecord
  <2> QED
    BY <1>3, <1>4, <2>1 DEF LifeOf, Terminal, EndStatuses, CanStartDispatch
<1>5. CASE CanRequestCancel(r) /\ s = Stamped(RequestCancel(r), now)
  <2>1. s.status = "cancel-requested" /\ s.dispatchStarted = r.dispatchStarted
    BY <1>5 DEF Stamped, RequestCancel, LongOperationRecord
  <2> QED
    BY <1>2, <1>3, <1>5, <2>1 DEF LifeOf, Terminal, EndStatuses, CanRequestCancel
<1>6. CASE CanComplete(r) /\ o \in acted /\ s = Stamped(Complete(r), now)
  <2>1. s.status = "completed"
    BY <1>6 DEF Stamped, Complete, LongOperationRecord
  <2> QED
    BY <1>2, <1>3, <1>6, <2>1 DEF LifeOf, Terminal, EndStatuses, CanComplete, EndOf, RetrySafe
<1>7. CASE CanFail(r) /\ s = Stamped(Fail(r), now)
  <2>1. s.status = "failed" /\ s.dispatchStarted = r.dispatchStarted
    BY <1>7 DEF Stamped, Fail, LongOperationRecord
  <2> QED
    BY <1>2, <1>3, <2>1 DEF LifeOf, Terminal, EndStatuses, EndOf, RetrySafe
<1>8. CASE ~Terminal(r) /\ s = Stamped(RecoverAfterInterruption(r), now)
  <2>1. /\ s.status = IF r.dispatchStarted THEN "outcome-unknown" ELSE "failed"
        /\ s.dispatchStarted = r.dispatchStarted
    BY <1>8 DEF Stamped, RecoverAfterInterruption, LongOperationRecord
  <2> QED
    BY <1>2, <1>3, <2>1 DEF LifeOf, Terminal, EndStatuses, EndOf, RetrySafe
<1> QED
  BY <1>1, <1>4, <1>5, <1>6, <1>7, <1>8

LifeMove(o) ==
    \/ Life(o)' = Life(o)
    \/ Life(o) = "none" /\ Life(o)' \in {"accepted", "not-dispatched"}
    \/ Life(o) = "accepted" /\ Life(o)' \in {"running", "cancelled"}
    \/ Life(o) = "running" /\ Life(o)' = "stopping"
    \/ Life(o) \in {"accepted", "cancelled"} /\ Life(o)' = "not-dispatched"
    \/ Life(o) \in {"running", "stopping"} /\ Life(o)' \in {"failed", "outcome-unknown"}
    \/ Life(o) \in {"running", "stopping"} /\ o \in ran /\ Life(o)' = "completed"
    \/ Life(o) \in {"not-dispatched", "completed", "failed", "outcome-unknown"}
         /\ Life(o)' = "gone"

\* A record that has ended stands for its end.
LEMMA EndLife ==
    ASSUME NEW r, Terminal(r)
    PROVE  /\ LifeOf(r) = EndOf(r)
           /\ EndOf(r) \in {"not-dispatched", "completed", "failed", "outcome-unknown"}
BY DEF Terminal, EndStatuses, LifeOf, EndOf

\* Every record stands for one of the lifecycle's states.
LEMMA LifeType ==
    ASSUME NEW r \in LongOperationRecord
    PROVE  LifeOf(r) \in Lifecycle!States
<1>1. CASE Terminal(r)
  BY <1>1, EndLife DEF Lifecycle!States, Lifecycle!Ends
<1>2. CASE ~Terminal(r)
  BY <1>2 DEF LifeOf, Lifecycle!States, Lifecycle!Dispatched, LongOperationRecord, Statuses,
     Terminal
<1> QED
  BY <1>1, <1>2

\* What happens to a file is a move of the operation's life.
LEMMA MoveLife ==
    ASSUME IInv, NEW o \in Operations, FileMove(o)
    PROVE  LifeMove(o)
<1>1. CASE (o \in issued' <=> o \in issued) /\ journal'[o] = journal[o]
  BY <1>1 DEF LifeMove, Life
<1>2. CASE /\ o \in issued' <=> o \in issued
           /\ journal[o] # None /\ Terminal(journal[o]) /\ journal'[o] = None
  <2>1. o \in issued
    BY <1>2 DEF IInv, MemoryInv, HistoryInv
  <2> QED
    BY <1>2, <2>1, EndLife DEF LifeMove, Life
<1>3. CASE /\ o \in issued' <=> o \in issued
           /\ journal[o] # None /\ Change(journal[o], journal'[o], o \in ran)
  <2>1. o \in issued /\ IsValid(journal[o]) /\ journal[o] \in LongOperationRecord
    BY <1>3 DEF IInv, MemoryInv, Typed, Records, HistoryInv, FileInv
  <2>2. journal'[o] # None
    BY <1>3, <2>1, ChangeAdvances
  <2>3. Life(o) = LifeOf(journal[o]) /\ Life(o)' = LifeOf(journal'[o])
    BY <1>3, <2>1, <2>2 DEF Life
  <2> QED
    BY <1>3, <2>1, <2>3, ChangeLife DEF LifeMove
<1>4. CASE o \notin issued /\ o \in issued' /\ Begins(journal'[o])
  <2>1. journal'[o] # None /\ LifeOf(journal'[o]) \in {"accepted", "not-dispatched"}
    BY <1>4, BeginsType
  <2> QED
    BY <1>4, <2>1 DEF LifeMove, Life
<1> QED
  BY <1>1, <1>2, <1>3, <1>4 DEF FileMove

life == [o \in Operations |-> Life(o)]

acted == [o \in Operations |-> o \in ran]

\* A move of a life is one of the actions of the abstract specification.
LifeStep(o) ==
    \/ Lifecycle!Accept(o) \/ Lifecycle!Dispatch(o) \/ Lifecycle!Cancel(o)
    \/ Lifecycle!Act(o) \/ Lifecycle!End(o) \/ Lifecycle!Expire(o)
    \/ Lifecycle!Become(o, life[o])

\* Such a move is an action of the lifecycle, or a stutter of that operation.
LEMMA MoveIsAction ==
    ASSUME IInv, NEW o \in Operations, LifeMove(o), ran' = ran
    PROVE  LifeStep(o)
BY DEF LifeMove, LifeStep, life, Lifecycle!Accept, Lifecycle!Dispatch, Lifecycle!Cancel,
   Lifecycle!End, Lifecycle!Expire, Lifecycle!Become, Lifecycle!Dispatched, Lifecycle!Ends

\* The operations' moves together are a step of the lifecycle.
LEMMA LifeSteps ==
    ASSUME IInv', \A o \in Operations : LifeStep(o) /\ (Lifecycle!Tell(o) \/ told'[o] = told[o])
    PROVE  Lifecycle!Next
<1>1. ASSUME NEW o \in Operations PROVE Life(o)' \in Lifecycle!States
  <2>1. journal'[o] # None => journal'[o] \in LongOperationRecord
    BY DEF IInv, MemoryInv, Typed, Records
  <2> QED
    BY <2>1, LifeType DEF Life, Lifecycle!States
<1>2. life' \in [Operations -> Lifecycle!States]
  BY <1>1 DEF life
<1> QED
  BY <1>2, Zenon DEF Lifecycle!Next, LifeStep, life

\* A recording that acts has its dispatch on file.
LEMMA ActIsAction ==
    ASSUME IInv, NEW b \in Brokers, NEW p \in Operations, ActStep(b, p)
    PROVE  \A o \in Operations : LifeStep(o) /\ told'[o] = told[o]
<1>1. journal[p] # None /\ ~Terminal(journal[p]) /\ journal[p].dispatchStarted
  BY ActFiles
<1>2. p \in issued /\ IsValid(journal[p]) /\ journal[p] \in LongOperationRecord
  BY <1>1 DEF IInv, MemoryInv, Typed, Records, HistoryInv, FileInv
<1>3. Life(p) \in Lifecycle!Dispatched
  BY <1>1, <1>2 DEF Life, LifeOf, IsValid, Lifecycle!Dispatched, LongOperationRecord,
     Statuses, Terminal
<1>4. life' = life
  BY DEF ActStep, Life, life
<1>5. LifeStep(p)
  <2>1. acted'[p] /\ p \in ran'
    BY DEF ActStep, acted
  <2> QED
    BY <1>3, <1>4, <2>1 DEF LifeStep, Lifecycle!Act, life, acted
<1>6. ASSUME NEW o \in Operations, o # p PROVE LifeStep(o)
  <2>1. acted'[o] = acted[o]
    BY <1>6 DEF ActStep, acted
  <2> QED
    BY <1>4, <2>1, Zenon DEF LifeStep, Lifecycle!Become, life, acted
<1>7. told' = told
  BY DEF ActStep
<1> QED
  BY <1>5, <1>6, <1>7

\* Each step of the broker is a step of the lifecycle or changes nothing there.
LEMMA StepImplements ==
    ASSUME IInv, IInv', OneServing, [Next]_vars
    PROVE  [Lifecycle!Next]_(Lifecycle!vars)
<1>1. CASE UNCHANGED <<journal, broker, issued, ran, told>>
  BY <1>1 DEF Lifecycle!vars, Life
<1>2. ASSUME NEW b \in Brokers, ControlStep(b)
      PROVE  [Lifecycle!Next]_(Lifecycle!vars)
  BY <1>2 DEF Lifecycle!vars, Life, ControlStep
<1>3. ASSUME NEW b \in Brokers, NEW p \in Operations, ActStep(b, p)
      PROVE  Lifecycle!Next
  BY <1>3, ActIsAction, LifeSteps
<1>4. ASSUME NEW b \in Brokers, Loaded(broker[b]), NEW e, MethodStep(b, e)
      PROVE  Lifecycle!Next
  <2>1. Agreed(broker[b].records, journal)
    BY <1>4 DEF IInv, AgreeInv
  <2>2. (\A o \in Operations : FileMove(o)) /\ Agreed(e.records, e.journal)
    BY <1>4, <2>1, MethodMoves DEF IInv
  <2>3. \A o \in Operations :
           \/ told'[o] = told[o]
           \/ /\ journal'[o] # None /\ Terminal(journal'[o])
              /\ told'[o] = EndOf(journal'[o])
              /\ told[o] \in {None, told'[o]}
    BY <1>4, <2>2, MethodFiles DEF IInv
  <2>4. ran' = ran
    BY <1>4 DEF MethodStep
  <2>5. \A o \in Operations : LifeStep(o)
    BY <2>2, <2>4, MoveLife, MoveIsAction
  <2>6. ASSUME NEW o \in Operations, told'[o] # told[o]
        PROVE  Lifecycle!Tell(o)
    <3>1. /\ journal'[o] # None /\ Terminal(journal'[o])
          /\ told'[o] = EndOf(journal'[o]) /\ told[o] \in {None, told'[o]}
      BY <2>3, <2>6
    <3>2. o \in issued'
      BY <3>1 DEF IInv, MemoryInv, HistoryInv
    <3>3. Life(o)' = EndOf(journal'[o]) /\ Life(o)' \in Lifecycle!Ends
      BY <3>1, <3>2, EndLife DEF Life, Lifecycle!Ends
    <3> QED
      BY <3>1, <3>3 DEF Lifecycle!Tell
  <2> QED
    BY <2>5, <2>6, LifeSteps
<1> QED
  BY <1>1, <1>2, <1>3, <1>4, NextKinds DEF IInv

\* The broker starts where the lifecycle starts.
LEMMA InitImplements ==
    ASSUME Init
    PROVE  Lifecycle!Init
<1>1. life = [o \in Operations |-> "none"] /\ told = [o \in Operations |-> None]
  BY DEF Init, life, Life, NoRecords
<1>2. acted = [o \in Operations |-> FALSE]
  <2>1. \A o \in Operations : (o \in ran) = FALSE
    BY DEF Init
  <2> QED
    BY <2>1, Zenon DEF acted
<1> QED
  BY <1>1, <1>2, Zenon DEF Lifecycle!Init, life, acted

\* Through any number of processes, one serving at a time, an operation goes one way through
\* its life: it acts after its dispatch is on file, a cancellation before that keeps it from
\* acting, it ends once, and all who are told its end are told the same.
THEOREM ImplementsLifecycle == Spec /\ []OneServing => RefinesLifecycle
<1> QED
  BY InitIInv, StepKeepsIInv, InitImplements, StepImplements, PTL
     DEF Spec, Lifecycle!Spec, RefinesLifecycle

\* A build with one process needs no condition.
THEOREM AloneImplementsLifecycle ==
    ASSUME NEW b, Brokers = {b}
    PROVE  Spec => []RetrySafeIsTrue /\ []JournalAgrees /\ RefinesLifecycle
<1>1. OneServing
  BY DEF OneServing
<1> QED
  BY <1>1, RetrySafeHolds, JournalHolds, ImplementsLifecycle, PTL
=============================================================================
