----------------------------- MODULE MCSpscRing -----------------------------
(* Model values and bounds for SpscRing: see the .cfg file. *)
EXTENDS SpscRing
=============================================================================
