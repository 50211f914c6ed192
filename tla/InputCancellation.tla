------------------------- MODULE InputCancellation -------------------------
(***************************************************************************)
(* The cancellation registry that the frame reader and the single owner    *)
(* thread of a desktop broker share                                        *)
(* (src/src/components/desktop_session_input_cancellation.rs).  Every      *)
(* method holds the registry's mutex from its first to its last line, so   *)
(* each is one atomic operator from a registry value to the next.  An      *)
(* entry is never removed and its token never replaced, so the token a     *)
(* caller got from prepare_input is the "requested" field of its entry.    *)
(***************************************************************************)
EXTENDS Naturals, FiniteSets

CONSTANTS Nonces,          \* request nonces
          MaximumEntries   \* maximum_entries: how many nonces it remembers

ASSUME CancellationAssumption ==
    /\ IsFiniteSet(Nonces)
    /\ MaximumEntries \in Nat \ {0}

FinalStates == {"active", "completed", "cancelled"}

\* CancellationEntry; "absent" stands for a nonce that is not in the map.
CancellationEntry ==
    [state : FinalStates \cup {"absent"}, seen : BOOLEAN, requested : BOOLEAN]

Registries == [Nonces -> CancellationEntry]

AbsentEntry == [state |-> "absent", seen |-> FALSE, requested |-> FALSE]

EmptyRegistry == [n \in Nonces |-> AbsentEntry]

Present(entries) == {n \in Nonces : entries[n].state # "absent"}

HasRoom(entries) == Cardinality(Present(entries)) < MaximumEntries

IsCancelled(entries, n) == entries[n].requested

(***************************************************************************)
(* prepare_input: mark a known entry as seen, or insert a fresh active one *)
(* when there is room.  Without room the caller gets a token nobody else   *)
(* holds: IsRegistered of the result tells the two cases apart.            *)
(* The first operator is a mutant: a known entry gets a fresh token.       *)
(***************************************************************************)
PrepareInputFresh(entries, n) ==
    IF entries[n].state # "absent" \/ HasRoom(entries)
    THEN [entries EXCEPT ![n] = [state |-> "active", seen |-> TRUE, requested |-> FALSE]]
    ELSE entries

PrepareInput(entries, n) ==
    IF entries[n].state # "absent"
    THEN [entries EXCEPT ![n].seen = TRUE]
    ELSE IF HasRoom(entries)
    THEN [entries EXCEPT ![n] = [state |-> "active", seen |-> TRUE, requested |-> FALSE]]
    ELSE entries

IsRegistered(entries, n) == entries[n].state # "absent"

(***************************************************************************)
(* request_cancel: set the token of a known active entry; for an unknown   *)
(* nonce insert a tombstone, an unseen entry whose token is already set.   *)
(* A full registry drops the request.                                      *)
(* The first operator is a mutant: an unknown nonce gets no tombstone.     *)
(***************************************************************************)
RequestCancelKnown(entries, n) ==
    IF entries[n].state # "absent"
    THEN [entries EXCEPT ![n].requested = @ \/ entries[n].state = "active"]
    ELSE entries

RequestCancel(entries, n) ==
    IF entries[n].state # "absent"
    THEN [entries EXCEPT ![n].requested = @ \/ entries[n].state = "active"]
    ELSE IF HasRoom(entries)
    THEN [entries EXCEPT ![n] = [state |-> "active", seen |-> FALSE, requested |-> TRUE]]
    ELSE entries

\* Mutant of Finish: the outcome of the input is not looked at.
FinishCompleted(entries, n, cancelled) ==
    IF entries[n].state = "absent"
    THEN entries
    ELSE [entries EXCEPT ![n].state = "completed"]

\* finish: settle a known entry.
Finish(entries, n, cancelled) ==
    IF entries[n].state = "absent"
    THEN entries
    ELSE [entries EXCEPT ![n].state = IF cancelled THEN "cancelled" ELSE "completed"]

CancelStatuses == {"unknown-request", "cancellation-requested", "too-late", "cancelled"}

\* status: what a cancel request is told about its target.
Status(entries, n) ==
    CASE ~entries[n].seen                                       -> "unknown-request"
      [] entries[n].seen /\ entries[n].state = "cancelled"      -> "cancelled"
      [] entries[n].seen /\ entries[n].state = "active"
                         /\ entries[n].requested                -> "cancellation-requested"
      [] OTHER                                                  -> "too-late"

\* cancel_all_active: set the token of every input that has begun and not ended.
CancelAllActive(entries) ==
    [n \in Nonces |->
        [entries[n] EXCEPT !.requested = @ \/ (entries[n].seen /\ entries[n].state = "active")]]
============================================================================
