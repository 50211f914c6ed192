-------------------------- MODULE MCDesktopBroker --------------------------
(* The stdio broker with three nonces: an input, another that the registry *)
(* has no room for, frames that conflict on a nonce, cancels, an operation *)
(* that a full ledger refuses and one that it admits.                      *)
EXTENDS DesktopBroker

CONSTANTS a, b, c

MCNonces == {a, b, c}

Req(nonce, operation, target, steps, observation) ==
    [nonce |-> nonce, operation |-> operation, target |-> target, valid |-> TRUE,
     steps |-> steps, observation |-> observation]

MCRequests ==
    { Req(a, "interact", a, 4, TRUE),           \* room for a chord, and an observation
      Req(b, "input-cancel", a, 0, FALSE),
      Req(b, "input-pointer", b, 1, FALSE),
      Req(b, "open", b, 0, FALSE),              \* other semantics, same nonce
      Req(c, "shutdown", c, 0, FALSE),
      [Req(c, "input-cancel", a, 0, FALSE) EXCEPT !.valid = FALSE],
      Req(c, "input-cancel", b, 0, FALSE) }

MCReserveLimit ==
    [class \in ReserveClasses |->
        CASE class = "shutdowns"     -> 1
          [] class = "cancellations" -> 2
          [] OTHER                   -> 0]
============================================================================
