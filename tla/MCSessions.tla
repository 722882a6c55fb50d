----------------------------- MODULE MCSessions -----------------------------
(***************************************************************************)
(* All the programs; two users, one of them with two tabs.                 *)
(***************************************************************************)
EXTENDS Sessions

CONSTANTS t1, t2, t3, ann, bob

MCOwner == t1 :> ann @@ t2 :> ann @@ t3 :> bob

(* Enough to check two sessions one of which is in another tab, to close   *)
(* one in a tab while the other checks it, and to swap two welcomes.       *)
MCMaxAsks ==
  [p \in Programs |->
     CASE p = "service1" -> t1 :> 2 @@ t2 :> 1 @@ t3 :> 2
       [] p = "redis" -> t1 :> 1 @@ t2 :> 1 @@ t3 :> 2
       [] p \in {"json-rpc", "gateway"} -> t1 :> 2 @@ t2 :> 1 @@ t3 :> 1
       [] p = "balanced" -> t1 :> 2 @@ t2 :> 0 @@ t3 :> 0
       [] OTHER -> t1 :> 1 @@ t2 :> 1 @@ t3 :> 1]
=============================================================================
