--------------------------- MODULE MCRelayDelivery ---------------------------
(* A daemon's connection and a frontend's, with an outbox small enough to  *)
(* fill up.                                                                *)
EXTENDS RelayDelivery

CONSTANTS c0, c1
=============================================================================
