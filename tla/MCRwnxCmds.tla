----------------------------- MODULE MCRwnxCmds -----------------------------
(* Model values and bounds for RwnxCmds: see the .cfg file. *)
EXTENDS RwnxCmds, TLC

CONSTANTS c1, c2

(* "plain" is "wanted" without the wait for an empty queue, which another   *)
(* caller may end at any time: it adds no behaviour here.                   *)
MCKinds == c1 :> {"wanted", "deferred"} @@ c2 :> {"wanted", "traffic", "silent"}
=============================================================================
