---------------------------- MODULE MCDiscovery -----------------------------
(***************************************************************************)
(* Three servers, any of them running when the client starts.              *)
(***************************************************************************)
EXTENDS Discovery
=============================================================================
