-------------------------------- MODULE Acl --------------------------------
(***************************************************************************)
(* The access list of the hw7 microservice: acl.loadData, acl.accessCheck  *)
(* and acl.auth of src/hw7_microservice/service.go.                        *)
(*                                                                         *)
(* A path such as "/main.Biz/Check" is the sequence strings.Split(path,    *)
(* "/") returns: <<"", "main.Biz", "Check">>.  Access data is a function   *)
(* from consumer names to sequences of paths.  A consumer name is a        *)
(* sequence of fragments, because auth joins the values of the "consumer"  *)
(* header: the values <<"biz_">> and <<"admin">> make the consumer         *)
(* <<"biz_", "admin">>.                                                    *)
(***************************************************************************)
EXTENDS Naturals, Sequences, SequencesExt

(* t[1] and t[2] of an entry with fewer than three segments are out of     *)
(* range: the goroutine panics.                                            *)
Malformed(entry) == Len(entry) < 3

(* The comparison of one entry with the method: same service, and the same *)
(* name or the wildcard.                                                   *)
Grants(entry, method) ==
  /\ entry[2] = method[2]
  /\ entry[3] \in {"*", method[3]}

(* The entries at which the loop over the consumer's methods ends early:   *)
(* by returning true or by panicking.                                      *)
Decisive(methods, method) ==
  {i \in DOMAIN methods : Malformed(methods[i]) \/ Grants(methods[i], method)}

(* Faulty: the whole list is taken apart before any entry is compared.     *)
accessCheck_ParsesAllFirst(data, consumer, method) ==
  IF consumer \notin DOMAIN data
    THEN "deny"
    ELSE LET methods == data[consumer]
         IN  CASE \E i \in DOMAIN methods : Malformed(methods[i]) -> "panic"
               [] Decisive(methods, method) = {} -> "deny"
               [] OTHER -> "allow"

(* The loop over the consumer's methods ends at entry i.                   *)
StopsAt(i, methods, method) ==
  /\ i \in Decisive(methods, method)
  /\ \A j \in Decisive(methods, method) : i <= j

(* A malformed entry only matters when no entry before it grants the       *)
(* method.                                                                 *)
accessCheck(data, consumer, method) ==
  IF consumer \notin DOMAIN data
    THEN "deny"
    ELSE LET methods == data[consumer]
             stops   == {i \in DOMAIN methods : StopsAt(i, methods, method)}
         IN  CASE \E i \in stops : ~Malformed(methods[i]) -> "allow"
               [] \E i \in stops : Malformed(methods[i])  -> "panic"
               [] OTHER -> "deny"

(* strings.Join(c, "") of the header's values.                             *)
JoinedConsumer(header) == FlattenSeq(header)

(* auth: a call without the header is denied and has no consumer.          *)
auth(data, header, method) ==
  IF header = <<>>
    THEN [verdict |-> "deny", consumer |-> <<>>]
    ELSE [verdict  |-> accessCheck(data, JoinedConsumer(header), method),
          consumer |-> JoinedConsumer(header)]
=============================================================================
