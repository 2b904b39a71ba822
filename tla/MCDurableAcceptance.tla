------------------------ MODULE MCDurableAcceptance -------------------------
(* A finite instance of DurableAcceptance: two attempts at the same or at  *)
(* different deliveries, under a payload key that is rotated.              *)
EXTENDS DurableAcceptance
=============================================================================
