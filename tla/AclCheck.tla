------------------------------ MODULE AclCheck ------------------------------
(***************************************************************************)
(* What the list of service_test.go means, to compare the answers of auth  *)
(* with: a full path grants that method, a path ending in "*" grants the   *)
(* service.  A call of auth is one state, for every list, header and method*)
(* of the constants.                                                       *)
(***************************************************************************)
EXTENDS Acl

CONSTANTS
  Segment,    \* what strings.Split may leave between two slashes
  Lists,      \* the access data
  Headers,    \* the values of the header "consumer"
  Calls       \* the methods

(* What comes before the first slash of a path.                            *)
Root == ""

(* strings.Split makes a sequence of segments of every path of a list; a   *)
(* method is one that gRPC has found, "/service/method".                   *)
ASSUME AclAssumption ==
  /\ \A data \in Lists : \A name \in DOMAIN data :
       data[name] \in Seq(Seq(Segment))
  /\ Calls \subseteq {Root} \X Segment \X Segment

VARIABLE call    \* the arguments of auth

AuthInit == call \in Lists \X Headers \X Calls
AuthSpec == AuthInit /\ [][FALSE]_call

(* The service's wildcard for a method.                                    *)
Wildcard(m) == <<Root, m[2], "*">>

WellFormed(entry) == Len(entry) = 3 /\ entry[1] = Root

(* On lists of well-formed paths the loop over split segments decides what *)
(* a set of paths would: the method itself or its service's wildcard is    *)
(* listed, under the name the header's values make together.               *)
AllowsIffListed(data, header, m) ==
  LET name == JoinedConsumer(header)
      list == IF name \in DOMAIN data THEN ToSet(data[name]) ELSE {}
  IN  (\A e \in list : WellFormed(e)) =>
        (auth(data, header, m).verdict = "allow"
           <=> header # <<>> /\ {m, Wildcard(m)} \cap list # {})

(* A malformed path does not take away what the paths before it grant, and *)
(* never grants anything itself: without such a path it is a panic.        *)
MalformedOnlyAfter(data, header, m) ==
  LET name == JoinedConsumer(header)
      list == IF name \in DOMAIN data THEN data[name] ELSE <<>>
      cut  == {i \in DOMAIN list : Malformed(list[i])}
      good == {list[i] : i \in {j \in DOMAIN list : \A k \in cut : j < k}}
  IN  header # <<>> /\ cut # {} =>
        auth(data, header, m).verdict =
          IF \E e \in good : e[2] = m[2] /\ e[3] \in {"*", m[3]}
          THEN "allow" ELSE "panic"

(* The loop over the split paths, with its return, its panic and the joined*)
(* header, grants what the paths of the list say, and a malformed path     *)
(* counts only if nothing before it grants the call.                       *)
AuthDecides ==
  /\ AllowsIffListed(call[1], call[2], call[3])
  /\ MalformedOnlyAfter(call[1], call[2], call[3])
=============================================================================
