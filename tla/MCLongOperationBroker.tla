----------------------- MODULE MCLongOperationBroker -----------------------
(* Instance of LongOperationBroker for TLC. *)
EXTENDS LongOperationBroker
=============================================================================
