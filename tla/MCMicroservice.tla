-------------------------- MODULE MCMicroservice --------------------------
(***************************************************************************)
(* The service with the access list of service_test.go and named calls.    *)
(***************************************************************************)
EXTENDS Microservice, TLC

CONSTANTS biz1, biz2, anon, bad1, log1, log2, stat1

Admin(name) == <<"", "main.Admin", name>>
Biz(name) == <<"", "main.Biz", name>>

MCAclData ==
  (<<"logger">> :> <<Admin("Logging")>>) @@
  (<<"stat">> :> <<Admin("Statistics")>>) @@
  (<<"biz_user">> :> <<Biz("Check"), Biz("Add")>>) @@
  (<<"typo">> :> <<<<"", "main.Biz">>>>) @@
  (<<"biz_", "admin">> :> <<Biz("*")>>)

(* biz2 is a biz_admin whose name came in two header values; anon has no   *)
(* header; the list of bad1's consumer has a path of two segments.          *)
MCMethod ==
  [c \in Event |->
     CASE c = biz2 -> Biz("Test")
       [] c \in {log1, log2} -> Admin("Logging")
       [] c = stat1 -> Admin("Statistics")
       [] OTHER -> Biz("Check")]

MCHeader ==
  [c \in Event |->
     CASE c = bad1 -> <<<<"typo">>>>
       [] c = biz1 -> <<<<"biz_user">>>>
       [] c = biz2 -> <<<<"biz_">>, <<"admin">>>>
       [] c \in {log1, log2} -> <<<<"logger">>>>
       [] c = stat1 -> <<<<"stat">>>>
       [] OTHER -> <<>>]
=============================================================================
