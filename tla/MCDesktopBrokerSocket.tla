----------------------- MODULE MCDesktopBrokerSocket -----------------------
(* The socket broker with three calls, two readers at a time and room for  *)
(* one queued request.  One call is an input of one event or a malformed   *)
(* frame, one a cancel of it, one the same input again, another request    *)
(* under its nonce or a shutdown.                                          *)
EXTENDS DesktopBrokerSocket

CONSTANTS a, b, c, call1, call2, call3

MCNonces == {a, b, c}
MCCalls == {call1, call2, call3}

Req(nonce, operation, target, steps) ==
    [nonce |-> nonce, operation |-> operation, target |-> target, valid |-> TRUE,
     steps |-> steps, observation |-> FALSE]

Input == Req(a, "interact", a, 1)
Cancel == Req(b, "input-cancel", a, 0)
Conflicting == Req(a, "open", a, 0)
Stop == Req(c, "shutdown", c, 0)

MCRequests == {Input, Cancel, Conflicting, Stop}

MCFrames ==
    [caller \in MCCalls |->
        CASE caller = call1 -> {Input, None}
          [] caller = call2 -> {Cancel}
          [] caller = call3 -> {Input, Conflicting, Stop}]

MCReserveLimit ==
    [class \in ReserveClasses |-> IF class \in {"shutdowns", "cancellations"} THEN 1 ELSE 0]
============================================================================
