----------------------------- MODULE MCRxReorder -----------------------------
(* Model values and bounds for RxReorder: see the .cfg file. *)
EXTENDS RxReorder
=============================================================================
