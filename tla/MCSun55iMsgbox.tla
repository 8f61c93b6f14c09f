--------------------------- MODULE MCSun55iMsgbox ---------------------------
(* Model values and bounds for Sun55iMsgbox: see the .cfg files. *)
EXTENDS Sun55iMsgbox
=============================================================================
