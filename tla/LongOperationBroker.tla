------------------------ MODULE LongOperationBroker ------------------------
(***************************************************************************)
(* The long operation broker of the Windows build                          *)
(* (src/src/long_operation_broker.rs, modules/long_operation_recording.rs, *)
(* modules/long_operation_registry.rs, components/long_operation_journal.rs): *)
(* a process that holds the first instance of a named pipe, recovers the   *)
(* journal it finds, then serves one connection after another, and runs    *)
(* each accepted operation on a thread of its own.  The registry's mutex   *)
(* makes a method one step; the time a method is given is read before the  *)
(* mutex is taken, so it is a step of its own.                             *)
(*                                                                         *)
(* What an operation records, the authentication of the peer, the frame    *)
(* and the policy check are left out: a connection that fails any of them  *)
(* touches nothing (CloseConnection).  Handles are random, so a new one is *)
(* one that was never given out.                                           *)
(***************************************************************************)
EXTENDS LongOperation, FiniteSets

CONSTANTS
    Brokers,             \* the processes that may run the broker, one after another
    Operations,          \* the handles the random source can produce
    MaximumActive,       \* MAX_ACTIVE_OPERATIONS
    MaximumTracked,      \* MAX_TRACKED_OPERATIONS
    MaximumTime,         \* bound of the wall clock
    JournalFails,        \* whether writing and removing files may fail
    None

ASSUME BrokerAssumption ==
    /\ {MaximumActive, MaximumTracked, MaximumTime} \subseteq Nat
    /\ JournalFails \in BOOLEAN
    /\ IsFiniteSet(Operations)
    /\ None \notin LongOperationRecord \cup EndStatuses \cup {"not-dispatched"}

VARIABLES
    clock,       \* SystemTime::now in milliseconds, taken to be monotone
    journal,     \* the final record files
    endpoint,    \* the process that holds the first pipe instance
    broker,      \* the state of each process
    issued,      \* history: the handles that were put on file
    ran,         \* history: the operations whose recording has begun to act
    told         \* history: the end that a caller was last told

vars == <<clock, journal, endpoint, broker, issued, ran, told>>

NoTask == [at |-> "none", cancelled |-> FALSE, now |-> 0]

Tasks ==
    [at : {"none", "spawned", "dispatching", "declining", "running", "completing",
           "failing", "finished"},
     cancelled : BOOLEAN, now : Nat]

Records == [Operations -> LongOperationRecord \cup {None}]

NoRecords == [o \in Operations |-> None]

Ended ==
    [at |-> "ended", now |-> 0, fatal |-> FALSE, signalled |-> FALSE,
     pending |-> {}, records |-> NoRecords, tasks |-> [o \in Operations |-> NoTask]]

BrokerStates ==
    [at : {"ended", "launched", "open", "recover", "loop", "listen", "handle", "relisten",
           "shutdown", "join"},
     now : Nat, fatal : BOOLEAN, signalled : BOOLEAN,
     pending : SUBSET Operations, records : Records, tasks : [Operations -> Tasks]]

Init ==
    /\ clock = 0
    /\ journal = NoRecords
    /\ endpoint = None
    /\ broker = [b \in Brokers |-> Ended]
    /\ issued = {}
    /\ ran = {}
    /\ told = NoRecords

----------------------------------------------------------------------------
(* The registry's methods.  Each is the set of its outcomes: the records   *)
(* in memory and on file afterwards, and whether it succeeded.             *)

Present(records) == {o \in Operations : records[o] # None}

Active(records) == {o \in Present(records) : ~Terminal(records[o])}

Without(records, gone) == [o \in Operations |-> IF o \in gone THEN None ELSE records[o]]

Outcome(records, file, ok) == [records |-> records, journal |-> file, ok |-> ok]

\* Mutant of Persist: the record in memory is replaced before the file is written.
PersistMemoryFirst(records, file, o, r) ==
    {Outcome([records EXCEPT ![o] = r], [file EXCEPT ![o] = r], TRUE),
     Outcome([records EXCEPT ![o] = r], file, FALSE)}

\* persist_record: the file is replaced as a whole, or stays.
Persist(records, file, o, r) ==
    {Outcome([records EXCEPT ![o] = r], [file EXCEPT ![o] = r], TRUE)}
        \cup (IF JournalFails THEN {Outcome(records, file, FALSE)} ELSE {})

\* expire: a handle leaves the index first, then its file goes; the first failure ends it.
Expire(records, file, now) ==
    LET expired == {o \in Present(records) : Expired(records[o], now)}
    IN {Outcome(Without(records, expired), Without(file, expired), TRUE)}
         \cup (IF ~JournalFails THEN {}
               ELSE UNION {{Outcome(Without(records, done \cup {bad}), Without(file, done), FALSE) :
                              done \in SUBSET (expired \ {bad})} : bad \in expired})

\* What a method does after expire has succeeded; where it failed, the method fails.
AfterExpire(records, file, now, Method(_, _)) ==
    UNION {IF e.ok THEN Method(e.records, e.journal) ELSE {e} : e \in Expire(records, file, now)}

\* candidate and ensure_monotonic_time.
IsCandidate(records, o, now) == records[o] # None /\ records[o].updatedAt <= now

\* finalize_mutation stamps the record that commit_candidate persists.
Stamped(r, now) == [r EXCEPT !.updatedAt = now]

Mutate(records, file, o, now, Can(_), Change(_)) ==
    LET Commit(m, f) ==
            IF IsCandidate(m, o, now) /\ Can(m[o])
            THEN Persist(m, f, o, Stamped(Change(m[o]), now))
            ELSE {Outcome(m, f, FALSE)}
    IN AfterExpire(records, file, now, Commit)

\* request_cancel succeeds without a change on a record that is cancelled or ended.
Cancel(records, file, o, now) ==
    LET Commit(m, f) ==
            IF ~IsCandidate(m, o, now) THEN {Outcome(m, f, FALSE)}
            ELSE IF CanRequestCancel(m[o])
                 THEN Persist(m, f, o, Stamped(RequestCancel(m[o]), now))
                 ELSE {Outcome(m, f, TRUE)}
    IN AfterExpire(records, file, now, Commit)

\* Mutant of HasRoom: one operation too many.
HasRoomForOneMore(records) ==
    /\ Cardinality(Present(records)) <= MaximumTracked
    /\ Cardinality(Active(records)) <= MaximumActive

HasRoom(records) ==
    /\ Cardinality(Present(records)) < MaximumTracked
    /\ Cardinality(Active(records)) < MaximumActive

\* accept.
Admit(records, file, o, now) ==
    LET Commit(m, f) ==
            IF HasRoom(m) THEN Persist(m, f, o, Accepted(now)) ELSE {Outcome(m, f, FALSE)}
    IN AfterExpire(records, file, now, Commit)

----------------------------------------------------------------------------
(* The broker's thread.                                                    *)

\* Process b takes fields of its state to new values and goes on at a place.
Goto(b, at, s) == broker' = [broker EXCEPT ![b] = [s EXCEPT !.at = at]]

Exit(b) ==
    /\ broker' = [broker EXCEPT ![b] = Ended]
    /\ endpoint' = IF endpoint = b THEN None ELSE endpoint

\* A launcher that finds no broker starts one.
Launch(b) ==
    /\ broker[b].at = "ended"
    /\ Goto(b, "launched", Ended)
    /\ UNCHANGED <<clock, journal, endpoint, issued, ran, told>>

\* ServerPipe::create_for: only the first instance is granted; without it run_server returns.
CreateEndpoint(b) ==
    /\ broker[b].at \in {"launched", "relisten"}
    /\ IF endpoint = None
       THEN /\ endpoint' = b
            /\ Goto(b, IF broker[b].at = "launched" THEN "open" ELSE "loop", broker[b])
       ELSE Exit(b)
    /\ UNCHANGED <<clock, journal, issued, ran, told>>

\* open goes on with the records that are left, and then the broker serves.
Proceed(b, s) ==
    IF s.pending = {} THEN Goto(b, "loop", [s EXCEPT !.now = 0]) ELSE Goto(b, "recover", s)

\* LongOperationRegistry::open, first part: the journal is loaded as a whole.
Load(b) ==
    /\ broker[b].at = "open"
    /\ IF Cardinality(Present(journal)) > MaximumTracked
       THEN Exit(b)
       ELSE /\ Proceed(b, [broker[b] EXCEPT !.now = clock, !.records = journal,
                                            !.pending = Present(journal)])
            /\ UNCHANGED endpoint
    /\ UNCHANGED <<clock, journal, issued, ran, told>>

\* What open does with one loaded record.
Recovered(records, file, o, now) ==
    LET r == records[o]
    IN IF Expired(r, now)
       THEN {Outcome(Without(records, {o}), Without(file, {o}), TRUE)}
              \cup (IF JournalFails THEN {Outcome(records, file, FALSE)} ELSE {})
       ELSE IF Terminal(r) THEN {Outcome(records, file, TRUE)}
       ELSE IF now < r.updatedAt THEN {Outcome(records, file, FALSE)}
       ELSE Persist(records, file, o, Stamped(RecoverAfterInterruption(r), now))

\* open, one turn of its loop; any failure ends the process.
Recover(b) ==
    /\ broker[b].at = "recover"
    /\ \E o \in broker[b].pending :
        \E e \in Recovered(broker[b].records, journal, o, broker[b].now) :
            /\ journal' = e.journal
            /\ IF e.ok
               THEN /\ Proceed(b, [broker[b] EXCEPT !.records = e.records, !.pending = @ \ {o}])
                    /\ UNCHANGED endpoint
               ELSE Exit(b)
    /\ UNCHANGED <<clock, issued, ran, told>>

Stopping(b) == broker[b].signalled \/ broker[b].fatal

\* shutdown reads the time and then takes the registry.
BeginShutdown(b) == Goto(b, "shutdown", [broker[b] EXCEPT !.now = clock])

\* The head of the loop: the pipe instance is still held when the broker shuts down.
Loop(b) ==
    /\ broker[b].at = "loop"
    /\ IF Stopping(b) THEN BeginShutdown(b) ELSE Goto(b, "listen", broker[b])
    /\ UNCHANGED <<clock, journal, endpoint, issued, ran, told>>

\* Mutant of AcceptCancelled: a waiting broker looks only at the signal.
AcceptSignalled(b) == broker[b].signalled

AcceptCancelled(b) == Stopping(b)

\* ServerPipe::accept consumes the listener, and releases it when it is cancelled.
StopListening(b) ==
    /\ broker[b].at = "listen"
    /\ AcceptCancelled(b)
    /\ BeginShutdown(b)
    /\ endpoint' = None
    /\ UNCHANGED <<clock, journal, issued, ran, told>>

\* serve_connection: a client connects, its request is read, then the time.  Which request
\* it is matters from handle_request on.
Accept(b) ==
    /\ broker[b].at = "listen"
    /\ Goto(b, "handle", [broker[b] EXCEPT !.now = clock])
    /\ UNCHANGED <<clock, journal, endpoint, issued, ran, told>>

\* reap_finished.
Reaped(tasks) == [o \in Operations |-> IF tasks[o].at = "finished" THEN NoTask ELSE tasks[o]]

EndOf(r) == IF RetrySafe(r) THEN "not-dispatched" ELSE r.status

\* The answer, with a record where the method succeeded, is written, or lost with the
\* connection; either way the pipe instance goes with it.
Answer(b, o, s, ok) ==
    /\ Goto(b, "relisten", [s EXCEPT !.now = 0])
    /\ endpoint' = None
    /\ \/ UNCHANGED told
       \/ /\ ok
          /\ s.records[o] # None
          /\ Terminal(s.records[o])
          /\ told' = [told EXCEPT ![o] = EndOf(s.records[o])]

\* handle_request serves a healthy broker only.
Handling(b) == broker[b].at = "handle" /\ ~broker[b].fatal

\* submit: the operation is put on file, then its thread is spawned.  Without a thread it
\* is failed at once; without that record it stays "accepted".
Submit(b) ==
    /\ Handling(b)
    /\ \E o \in Operations \ issued :
        \E e \in Admit(broker[b].records, journal, o, broker[b].now) :
            LET s == [broker[b] EXCEPT !.records = e.records, !.tasks = Reaped(@)]
            IN \/ /\ journal' = e.journal
                  /\ issued' = IF e.ok THEN issued \cup {o} ELSE issued
                  /\ Answer(b, o, IF e.ok THEN [s EXCEPT !.tasks[o].at = "spawned"] ELSE s, e.ok)
               \/ /\ e.ok
                  /\ issued' = issued \cup {o}
                  /\ \E f \in Mutate(e.records, e.journal, o, broker[b].now, CanFail, Fail) :
                        /\ journal' = f.journal
                        /\ Answer(b, o, [s EXCEPT !.records = f.records], f.ok)
    /\ UNCHANGED <<clock, ran>>

\* status: a query that drops what has expired.
Status(b) ==
    /\ Handling(b)
    /\ \E o \in Operations, e \in Expire(broker[b].records, journal, broker[b].now) :
        /\ journal' = e.journal
        /\ Answer(b, o, [broker[b] EXCEPT !.records = e.records, !.tasks = Reaped(@)], e.ok)
    /\ UNCHANGED <<clock, issued, ran>>

\* The token of a task.  Later than its start a recording that sees it may return early,
\* as it may anyhow, so only a task that has not started is told apart.
Revoked(task) == IF task.at = "spawned" THEN [task EXCEPT !.cancelled = TRUE] ELSE task

\* cancel: the request is on file before the thread learns of it.
CancelOperation(b) ==
    /\ Handling(b)
    /\ \E o \in Operations :
        \E e \in Cancel(broker[b].records, journal, o, broker[b].now) :
            LET s == [broker[b] EXCEPT !.records = e.records, !.tasks = Reaped(@)]
            IN /\ journal' = e.journal
               /\ Answer(b, o, IF e.ok /\ ~Terminal(e.records[o])
                               THEN [s EXCEPT !.tasks[o] = Revoked(@)] ELSE s, e.ok)
    /\ UNCHANGED <<clock, issued, ran>>

\* A peer that is not ours, a frame or an input that is refused, a broker that is not
\* healthy: the connection ends and nothing else happens.
CloseConnection(b) ==
    /\ broker[b].at = "handle"
    /\ Goto(b, "relisten", [broker[b] EXCEPT !.now = 0])
    /\ endpoint' = None
    /\ UNCHANGED <<clock, journal, issued, ran, told>>

\* The handles that shutdown has cancelled when its loop ends, at a failure or after the last.
CancelledSets(records, owned, now) ==
    {done \in SUBSET {o \in owned : IsCandidate(records, o, now)} :
        \/ done = owned
        \/ \E o \in owned \ done :
              ~IsCandidate(records, o, now) \/ (JournalFails /\ CanRequestCancel(records[o]))}

\* request_cancel on each of them.
CancelEach(records, done, now) ==
    [o \in Operations |->
        IF o \in done /\ CanRequestCancel(records[o])
        THEN Stamped(RequestCancel(records[o]), now) ELSE records[o]]

CopyTo(file, done, records) == [o \in Operations |-> IF o \in done THEN records[o] ELSE file[o]]

\* The cancellations of shutdown.  expire is done by the first; the later ones find nothing
\* left to expire.
Cancellations(records, file, owned, now) ==
    LET Commit(m, f) ==
            {Outcome(CancelEach(m, done, now), CopyTo(f, done, CancelEach(m, done, now)),
                     done = owned) : done \in CancelledSets(m, owned, now)}
    IN IF owned = {} THEN {Outcome(records, file, TRUE)}
       ELSE AfterExpire(records, file, now, Commit)

\* shutdown: the cancellations go on file as far as that works, every thread is told.
CancelTasks(b) ==
    /\ broker[b].at = "shutdown"
    /\ LET owned == {o \in Operations : broker[b].tasks[o].at # "none"}
       IN \E e \in Cancellations(broker[b].records, journal, owned, broker[b].now) :
            /\ journal' = e.journal
            /\ Goto(b, "join",
                    [broker[b] EXCEPT
                        !.now = 0, !.records = e.records,
                        !.tasks = [o \in Operations |-> Revoked(@[o])]])
    /\ UNCHANGED <<clock, endpoint, issued, ran, told>>

\* shutdown returns when every thread has been joined, and with it run_server.
Join(b) ==
    /\ broker[b].at = "join"
    /\ \A o \in Operations : broker[b].tasks[o].at \in {"none", "finished"}
    /\ Exit(b)
    /\ UNCHANGED <<clock, journal, issued, ran, told>>

----------------------------------------------------------------------------
(* The thread of operation o in process b.                                 *)

SetTask(b, o, task) == broker' = [broker EXCEPT ![b].tasks[o] = task]

\* The thread starts: it looks at its token, then transition_dispatch reads the time.
WorkerStarts(b, o) ==
    LET task == broker[b].tasks[o]
    IN /\ task.at = "spawned"
       /\ SetTask(b, o, [at |-> IF task.cancelled THEN "declining" ELSE "dispatching",
                         cancelled |-> FALSE, now |-> clock])
       /\ UNCHANGED <<clock, journal, endpoint, issued, ran, told>>

\* Mutant of AfterDispatch: the recording runs although its dispatch is not on file.
RunAnyway(ok) == "running"

AfterDispatch(ok) == IF ok THEN "running" ELSE "finished"

\* The thread leaves a registry method at a place; a failure makes the broker unhealthy.
WorkerLeaves(b, o, e, at) ==
    /\ journal' = e.journal
    /\ broker' = [broker EXCEPT
                    ![b].records = e.records,
                    ![b].tasks[o] = [@ EXCEPT !.at = at, !.now = 0],
                    ![b].fatal = @ \/ ~e.ok]
    /\ UNCHANGED <<clock, endpoint, issued, ran, told>>

\* transition_dispatch: under one lock, a cancellation on file or seen before is final,
\* and otherwise the dispatch goes on file.
WorkerDispatches(b, o) ==
    LET task == broker[b].tasks[o]
        records == broker[b].records
        cancelled == \/ task.at = "declining"
                     \/ records[o] # None /\ records[o].cancelRequested
    IN /\ task.at \in {"dispatching", "declining"}
       /\ \/ /\ cancelled
             /\ \E e \in Mutate(records, journal, o, task.now, CanFail, Fail) :
                    WorkerLeaves(b, o, e, "finished")
          \/ /\ ~cancelled
             /\ \E e \in Mutate(records, journal, o, task.now, CanStartDispatch, StartDispatch) :
                    WorkerLeaves(b, o, e, AfterDispatch(e.ok))

WorkerActs(b, o) ==
    /\ broker[b].tasks[o].at = "running"
    /\ o \notin ran
    /\ ran' = ran \cup {o}
    /\ UNCHANGED <<clock, journal, endpoint, broker, issued, told>>

\* The recording returns, fails or panics; transition_terminal reads the time.
WorkerReturns(b, o) ==
    LET task == broker[b].tasks[o]
    IN /\ task.at = "running"
       /\ \E at \in {"completing", "failing"} :
            /\ at = "completing" => o \in ran
            /\ SetTask(b, o, [task EXCEPT !.at = at, !.now = clock])
       /\ UNCHANGED <<clock, journal, endpoint, issued, ran, told>>

\* Mutant of WorkerSettles: the thread swallows the failure to record its end.
WorkerSettlesQuietly(b, o) ==
    LET task == broker[b].tasks[o]
        records == broker[b].records
    IN \/ /\ task.at = "completing"
          /\ \E e \in Mutate(records, journal, o, task.now, CanComplete, Complete) :
                WorkerLeaves(b, o, [e EXCEPT !.ok = TRUE], "finished")
       \/ /\ task.at = "failing"
          /\ \E e \in Mutate(records, journal, o, task.now, CanFail, Fail) :
                WorkerLeaves(b, o, [e EXCEPT !.ok = TRUE], "finished")

\* transition_terminal.
WorkerSettles(b, o) ==
    LET task == broker[b].tasks[o]
        records == broker[b].records
    IN \/ /\ task.at = "completing"
          /\ \E e \in Mutate(records, journal, o, task.now, CanComplete, Complete) :
                WorkerLeaves(b, o, e, "finished")
       \/ /\ task.at = "failing"
          /\ \E e \in Mutate(records, journal, o, task.now, CanFail, Fail) :
                WorkerLeaves(b, o, e, "finished")

----------------------------------------------------------------------------
(* The environment.                                                        *)

\* The broker is asked to stop.
Signal(b) ==
    /\ broker[b].at \notin {"ended", "launched"}
    /\ ~broker[b].signalled
    /\ broker' = [broker EXCEPT ![b].signalled = TRUE]
    /\ UNCHANGED <<clock, journal, endpoint, issued, ran, told>>

\* The process dies with its threads, or leaves run_server without a shutdown because the
\* pipe failed.
Crash(b) ==
    /\ broker[b].at # "ended"
    /\ Exit(b)
    /\ UNCHANGED <<clock, journal, issued, ran, told>>

Tick ==
    /\ clock < MaximumTime
    /\ clock' = clock + 1
    /\ UNCHANGED <<journal, endpoint, broker, issued, ran, told>>

BrokerStep(b) ==
    \/ CreateEndpoint(b)
    \/ Load(b)
    \/ Recover(b)
    \/ Loop(b)
    \/ StopListening(b)
    \/ Submit(b)
    \/ Status(b)
    \/ CancelOperation(b)
    \/ CloseConnection(b)
    \/ CancelTasks(b)
    \/ Join(b)

WorkerStep(b, o) ==
    \/ WorkerStarts(b, o)
    \/ WorkerDispatches(b, o)
    \/ WorkerReturns(b, o)
    \/ WorkerSettles(b, o)

Next ==
    \/ Tick
    \/ \E b \in Brokers :
        \/ Launch(b)
        \/ Accept(b)
        \/ Signal(b)
        \/ Crash(b)
        \/ BrokerStep(b)
        \/ \E o \in Operations : WorkerActs(b, o) \/ WorkerStep(b, o)

\* A connection has a deadline, a recording has a length, and threads are scheduled.
Fairness ==
    \A b \in Brokers :
        WF_vars(BrokerStep(b)) /\ \A o \in Operations : WF_vars(WorkerStep(b, o))

Spec == Init /\ [][Next]_vars /\ Fairness

----------------------------------------------------------------------------
(* Properties.                                                             *)

\* Every variable has its type, and no registry holds more records, or more that are not
\* ended, than MAX_TRACKED_OPERATIONS and MAX_ACTIVE_OPERATIONS allow.
TypeOK ==
    /\ clock \in Nat
    /\ journal \in Records
    /\ endpoint \in Brokers \cup {None}
    /\ broker \in [Brokers -> BrokerStates]
    /\ issued \subseteq Operations
    /\ ran \subseteq Operations
    /\ told \in [Operations -> EndStatuses \cup {"not-dispatched", None}]
    /\ \A b \in Brokers :
        /\ Cardinality(Present(broker[b].records)) <= MaximumTracked
        /\ broker[b].at # "recover" => Cardinality(Active(broker[b].records)) <= MaximumActive

\* A caller that was told "failed, retrySafe" may submit again: the operation's recording
\* has not begun and never will, across cancellations, crashes and recoveries.
RetrySafeIsTrue == \A o \in Operations : told[o] = "not-dispatched" => o \notin ran

\* The journal-first order of commit_candidate: what a serving broker answers from is what
\* is on file, whatever write failed.  Only a file whose removal failed may be left over,
\* and it holds an end.  Every file can be loaded by the next broker.
JournalAgrees ==
    /\ \A o \in Present(journal) : IsValid(journal[o])
    /\ \A b \in Brokers :
        broker[b].at \notin {"ended", "launched", "open"} =>
            \A o \in Operations :
                \/ broker[b].records[o] = journal[o]
                \/ broker[b].records[o] = None /\ Terminal(journal[o])

LifeOf(r) ==
    IF Terminal(r) THEN EndOf(r)
    ELSE IF r.status # "cancel-requested" THEN r.status
    ELSE IF r.dispatchStarted THEN "stopping" ELSE "cancelled"

Life(o) ==
    IF o \notin issued THEN "none"
    ELSE IF journal[o] = None THEN "gone" ELSE LifeOf(journal[o])

Lifecycle ==
    INSTANCE OperationLifecycle
    WITH life <- [o \in Operations |-> Life(o)], acted <- [o \in Operations |-> o \in ran]

\* Through any number of broker processes, an operation's record goes one way: it acts only
\* once its dispatch is on file, a cancellation before that keeps it from acting, it ends
\* once, and no two callers are told different ends.
RefinesLifecycle == Lifecycle!Spec

\* A broker that was asked to stop, or could not record what a worker did, ends: no thread,
\* no waiting connection and no failing write keeps it.
ShutdownEnds == \A b \in Brokers : Stopping(b) ~> broker[b].at = "ended"

\* An operation with a thread reaches an end on file, or its broker ends and leaves it to
\* the recovery of the next.
OperationsSettle ==
    \A b \in Brokers, o \in Operations :
        broker[b].tasks[o].at # "none"
            ~> \/ broker[b].at = "ended"
               \/ journal[o] = None
               \/ Terminal(journal[o])

\* While files can be written, the end that a recording proves by completing goes on file:
\* a cancellation that races with it does not take its place.
CompletionWins ==
    [][\A b \in Brokers, o \in Operations :
         (/\ ~JournalFails
          /\ broker[b].tasks[o].at = "completing"
          /\ broker'[b].tasks[o].at = "finished")
             => journal'[o].status = "completed"]_vars
=============================================================================
