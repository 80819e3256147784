----------------------------- MODULE MCStallClock -----------------------------
(* StallClock for TLC.  The code's waits are 15, 45 and 120 seconds with a  *)
(* grace of 3; the instance keeps their order and leaves room between them. *)
EXTENDS StallClock
=============================================================================
