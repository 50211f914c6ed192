--------------------------- MODULE LongOperation ----------------------------
(***************************************************************************)
(* The record of a long operation and its state machine                    *)
(* (src/src/modules/long_operation.rs, long_operation_registry.rs and      *)
(* long_operation_registry_record.rs).  The result, the error and the      *)
(* revision number are left out: a result is there exactly when the status *)
(* is "completed".  The time of expiry is always that of the last change   *)
(* plus the retention, so it is not a field of its own.                    *)
(***************************************************************************)
EXTENDS Naturals

CONSTANT Retention     \* TERMINAL_RETENTION_MILLISECONDS

ASSUME RetentionAssumption == Retention \in Nat

EndStatuses == {"completed", "failed", "outcome-unknown"}

Statuses == {"accepted", "running", "cancel-requested"} \cup EndStatuses

LongOperationRecord ==
    [status : Statuses, dispatchStarted : BOOLEAN, cancelRequested : BOOLEAN, updatedAt : Nat]

\* LongOperationState::restore and validate_record: what a document on file may say.
IsValid(r) ==
    /\ r.status \in {"running", "completed", "outcome-unknown"} => r.dispatchStarted
    /\ r.status = "accepted" => ~r.dispatchStarted
    /\ r.status = "cancel-requested" => r.cancelRequested

Terminal(r) == r.status \in EndStatuses

RetrySafe(r) == r.status = "failed" /\ ~r.dispatchStarted

Expired(r, now) == Terminal(r) /\ r.updatedAt + Retention <= now

Accepted(now) ==
    [status |-> "accepted", dispatchStarted |-> FALSE, cancelRequested |-> FALSE,
     updatedAt |-> now]

----------------------------------------------------------------------------
(* The transitions.  Each has the condition under which the state machine  *)
(* allows it; finalize_mutation stamps the new record.                     *)

CanStartDispatch(r) == r.status = "accepted"

StartDispatch(r) == [r EXCEPT !.status = "running", !.dispatchStarted = TRUE]

\* request_cancel changes a record that is neither ended nor cancelled yet.
CanRequestCancel(r) == r.status \in {"accepted", "running"}

RequestCancel(r) == [r EXCEPT !.status = "cancel-requested", !.cancelRequested = TRUE]

CanComplete(r) == r.dispatchStarted /\ ~Terminal(r)

Complete(r) == [r EXCEPT !.status = "completed"]

CanFail(r) == ~Terminal(r)

Fail(r) == [r EXCEPT !.status = "failed"]

\* Mutant of RecoverAfterInterruption: a cancelled operation is taken for one that was
\* never dispatched.
RecoverCancelledAsFailed(r) ==
    [r EXCEPT !.status = IF r.dispatchStarted /\ ~r.cancelRequested
                         THEN "outcome-unknown" ELSE "failed",
              !.dispatchStarted = r.dispatchStarted /\ ~r.cancelRequested]

\* recover_after_interruption: the fact on file decides.
RecoverAfterInterruption(r) ==
    [r EXCEPT !.status = IF r.dispatchStarted THEN "outcome-unknown" ELSE "failed"]
=============================================================================
