--------------------------- MODULE MCResizeQueue ---------------------------
(***************************************************************************)
(* Two uploads, of one picture or of two, and two worker processes.        *)
(***************************************************************************)
EXTENDS ResizeQueue
=============================================================================
