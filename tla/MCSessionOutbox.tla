--------------------------- MODULE MCSessionOutbox ---------------------------
(* The session outbox with a one- or two-slot channel and a queue bound of  *)
(* two: overflow, eviction and cancellation all happen within six deltas.   *)
EXTENDS SessionOutbox
=============================================================================
