---------------------------- MODULE MCRpmsgDevice ----------------------------
(* Model values and bounds for RpmsgDevice: see the .cfg files. *)
EXTENDS RpmsgRefinement, TLC
=============================================================================
