------------------------------ MODULE MCDramMsg ------------------------------
(* Model values and bounds for DramMsg: see the .cfg file. *)
EXTENDS DramMsg
=============================================================================
