---------------------------- MODULE MCSunxiRproc ----------------------------
(* Bounds for SunxiRproc: see the .cfg files. *)
EXTENDS SunxiRproc
=============================================================================
