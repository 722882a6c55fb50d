------------------------------ MODULE MCTCache ------------------------------
(***************************************************************************)
(* A few calls of TGet over one key.                                       *)
(***************************************************************************)
EXTENDS TCache
=============================================================================
