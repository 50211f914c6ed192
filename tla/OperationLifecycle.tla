------------------------- MODULE OperationLifecycle -------------------------
(***************************************************************************)
(* What the long operation broker promises about an operation handle: one  *)
(* way through its states, whatever restarts lie in between.  An operation *)
(* acts only after its dispatch is on record, a cancellation that comes    *)
(* first keeps it from ever acting, it ends once, and everybody who is     *)
(* told how it ended is told the same.                                     *)
(*                                                                         *)
(* The actions speak of one operation; in a step of the broker each        *)
(* operation makes one of them or none.                                    *)
(***************************************************************************)
CONSTANTS Operations, None

VARIABLES
    life,    \* where each operation is: "none" before it is accepted, "gone" once expired
    acted,   \* its action may have had an effect
    told     \* the end that a caller was told, None before

vars == <<life, acted, told>>

Dispatched == {"running", "stopping"}

Ends == {"not-dispatched", "completed", "failed", "outcome-unknown"}

States == {"none", "accepted", "cancelled", "gone"} \cup Dispatched \cup Ends

Init ==
    /\ life = [o \in Operations |-> "none"]
    /\ acted = [o \in Operations |-> FALSE]
    /\ told = [o \in Operations |-> None]

Become(o, state) == life'[o] = state /\ acted'[o] = acted[o]

\* A handle may be given out for an operation that never got a worker.
Accept(o) == life[o] = "none" /\ \E s \in {"accepted", "not-dispatched"} : Become(o, s)

Dispatch(o) == life[o] = "accepted" /\ Become(o, "running")

Cancel(o) ==
    \/ life[o] = "accepted" /\ Become(o, "cancelled")
    \/ life[o] = "running" /\ Become(o, "stopping")

Act(o) == life[o] \in Dispatched /\ life'[o] = life[o] /\ acted'[o]

End(o) ==
    \/ life[o] \in {"accepted", "cancelled"} /\ Become(o, "not-dispatched")
    \/ life[o] \in Dispatched /\ \E end \in {"failed", "outcome-unknown"} : Become(o, end)
    \/ life[o] \in Dispatched /\ acted[o] /\ Become(o, "completed")

Expire(o) == life[o] \in Ends /\ Become(o, "gone")

\* What a caller is told is where the operation then is, and stays true.
Tell(o) ==
    /\ life'[o] \in Ends
    /\ told[o] \in {None, life'[o]}
    /\ told'[o] = life'[o]

Next ==
    /\ life' \in [Operations -> States]
    /\ \A o \in Operations :
        /\ \/ Accept(o) \/ Dispatch(o) \/ Cancel(o) \/ Act(o) \/ End(o) \/ Expire(o)
           \/ Become(o, life[o])
        /\ Tell(o) \/ told'[o] = told[o]

Spec == Init /\ [][Next]_vars
=============================================================================
