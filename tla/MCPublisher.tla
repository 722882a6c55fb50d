---------------------------- MODULE MCPublisher ----------------------------
(***************************************************************************)
(* The event bus alone, in its most general environment.                   *)
(***************************************************************************)
EXTENDS Publisher
=============================================================================
