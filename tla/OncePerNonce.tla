---------------------------- MODULE OncePerNonce ---------------------------
(***************************************************************************)
(* What a desktop broker promises a client that repeats frames: a request  *)
(* nonce stands for one execution.  Input events happen on its behalf only *)
(* until it is settled; once settled, its request and response never       *)
(* change, the response does not deny events that happened, and every      *)
(* later answer to the same request is that response.  A frame that may    *)
(* not run is refused and leaves nothing behind.                           *)
(***************************************************************************)
EXTENDS Naturals

CONSTANTS Nonces, Requests, Responses, Refusals, Open,
          Chord  \* most events of one write

VARIABLES settled,   \* per nonce, Open or [fingerprint, response]
          events,    \* per nonce, the input events of its steps that left
          releases,  \* per nonce, the releases of its keys when it was stopped
          replies    \* the <<request, response>> pairs given to clients

vars == <<settled, events, releases, replies>>

Init ==
    /\ settled = [n \in Nonces |-> Open]
    /\ events = [n \in Nonces |-> 0]
    /\ releases = [n \in Nonces |-> 0]
    /\ replies = {}

Send(n) ==
    /\ settled[n] = Open
    /\ \E count \in 0..Chord : events' = [events EXCEPT ![n] = @ + count]
    /\ \E count \in 0..events[n] + 1 : releases' = [releases EXCEPT ![n] = @ + count]
    /\ UNCHANGED <<settled, replies>>

\* acceptedMayHaveOccurred may not be denied once anything left.  The count of events is
\* exact but for the one write whose flush failed: it may be counted as one event and
\* not have left, or have left and not be counted.  No more is released than was sent.
Honest(response, sent, released) ==
    /\ sent + released > 0 => response.accepted
    /\ response.events <= sent + 1
    /\ sent <= response.events + Chord
    /\ released <= response.events

Settle(n) ==
    /\ settled[n] = Open
    /\ \E request \in Requests, response \in Responses :
          /\ request.nonce = n
          /\ response.outcome \notin Refusals
          /\ Honest(response, events[n], releases[n])
          /\ settled' = [settled EXCEPT ![n] =
                            [fingerprint |-> request, response |-> response]]
    /\ UNCHANGED <<events, releases, replies>>

Reply ==
    /\ \E request \in Requests, response \in Responses :
          /\ \/ response.outcome \in Refusals
             \/ settled[request.nonce] = [fingerprint |-> request, response |-> response]
          /\ replies' = replies \cup {<<request, response>>}
    /\ UNCHANGED <<settled, events, releases>>

Next ==
    \/ \E n \in Nonces : Send(n) \/ Settle(n)
    \/ Reply

Spec == Init /\ [][Next]_vars
============================================================================
