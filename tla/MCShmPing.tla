------------------------------ MODULE MCShmPing ------------------------------
(* Model values and bounds for ShmPing: see the .cfg file. *)
EXTENDS ShmPing
=============================================================================
