--------------------------- MODULE MCStatistics ---------------------------
(***************************************************************************)
(* One Statistics call of two methods and two consumers.                   *)
(***************************************************************************)
EXTENDS Statistics
=============================================================================
