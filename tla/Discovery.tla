----------------------------- MODULE Discovery ------------------------------
(***************************************************************************)
(* Service discovery of src/microservices/grpc_lb_sd: servers register     *)
(* themselves in consul; the client lists them, dials the first one, hands *)
(* the others to the balancer of gRPC and then polls consul and hands over *)
(* what has changed.  A batch of updates goes through three channels of    *)
(* testWatcher: its length through side, the updates through update, and   *)
(* readDone tells inject that they were read.                              *)
(***************************************************************************)
EXTENDS Integers, Sequences, SequencesExt, FiniteSets

CONSTANTS
  Address,     \* of servers
  MaxChanges,  \* bound: starts, stops and crashes of servers
  MaxFaults    \* bound: requests to consul that fail

ASSUME DiscoveryAssumption == IsFiniteSet(Address)

VARIABLES
  running,     \* servers that listen
  consul,      \* addresses registered as session-api
  changes, faults,
  main,        \* client: "list", "dial", "inject", "loop" or "dead"
  servers,     \* client: as listed at the start
  curr,        \* client: currAddrs of runOnlineServiceDiscovery
  inj, todo,   \* inject: where it is, updates it has not sent
  side, update, \* channels of capacity 1
  reader,      \* Resolve's goroutine has not received from readDone yet
  next, left, batch, \* Next: where it is, updates to receive, received
  addrs,       \* balancer: rr.addrs, a list without repetition
  addrCh,      \* balancer: channel of capacity 1 for the newest list
  conns        \* balancer: addresses gRPC keeps a connection for

environment == <<running, consul, changes, faults>>
client == <<main, servers, curr>>
injector == <<inj, todo>>
watcher == <<next, left, batch>>
balancer == <<addrs, addrCh, conns>>
vars == <<environment, client, injector, side, update, reader, watcher,
          balancer>>

Add(a) == [op |-> "add", addr |-> a]
Delete(a) == [op |-> "delete", addr |-> a]
Updates == {Add(a) : a \in Address} \cup {Delete(a) : a \in Address}

(* A length of 0 would end the watcher for good, so none is ever sent.     *)
TypeOK ==
  /\ running \subseteq Address /\ consul \subseteq Address
  /\ changes \in 0..MaxChanges /\ faults \in 0..MaxFaults
  /\ main \in {"list", "dial", "inject", "loop", "dead"}
  /\ ToSet(servers) \subseteq Address /\ IsInjective(servers)
  /\ curr \subseteq Address
  /\ inj \in {"idle", "send", "await"}
  /\ ToSet(todo) \subseteq Updates
  /\ Len(side) <= 1 /\ ToSet(side) \subseteq 1..Cardinality(Address)
  /\ Len(update) <= 1 /\ ToSet(update) \subseteq Updates
  /\ reader \in BOOLEAN
  /\ next \in {"side", "update", "done", "apply"}
  /\ left \in 0..Cardinality(Address)
  /\ ToSet(batch) \subseteq Updates
  /\ addrs \subseteq Address
  /\ Len(addrCh) <= 1
  /\ conns \subseteq Address

Init ==
  /\ running \in SUBSET Address /\ consul = running
  /\ changes = 0 /\ faults = 0
  /\ main = "list" /\ servers = <<>> /\ curr = {}
  /\ inj = "idle" /\ todo = <<>>
  /\ side = <<>> /\ update = <<>> /\ reader = FALSE
  /\ next = "side" /\ left = 0 /\ batch = <<>>
  /\ addrs = {} /\ addrCh = <<>> /\ conns = {}

-----------------------------------------------------------------------------
(* The servers.  One that is killed, or fails to deregister, stays listed. *)

Change == changes < MaxChanges /\ changes' = changes + 1

StartServer(a) ==
  /\ a \notin running /\ Change
  /\ running' = running \cup {a}
  /\ consul' = consul \cup {a}
  /\ UNCHANGED <<faults, client, injector, side, update, reader, watcher,
                 balancer>>

StopServer(a) ==
  /\ a \in running /\ Change
  /\ running' = running \ {a}
  /\ consul' \in {consul, consul \ {a}}
  /\ UNCHANGED <<faults, client, injector, side, update, reader, watcher,
                 balancer>>

-----------------------------------------------------------------------------
(* main.                                                                   *)

(* Resolve leaves the first address in the channels for the watcher that   *)
(* Dial starts, and a goroutine that receives from readDone once.          *)
(* Faulty: without that goroutine.                                         *)
Resolve_NoReader(addr) ==
  side' = <<1>> /\ update' = <<Add(addr)>> /\ reader' = FALSE

Resolve(addr) ==
  side' = <<1>> /\ update' = <<Add(addr)>> /\ reader' = TRUE

ListServers ==
  /\ main = "list" /\ consul # {}
  /\ servers' \in SetToSeqs(consul)
  /\ main' = "dial"
  /\ Resolve(servers'[1])
  /\ UNCHANGED <<environment, curr, injector, watcher, balancer>>

(* main takes the first of no servers.                                     *)
NoServers ==
  /\ main = "list" /\ consul = {}
  /\ main' = "dead"
  /\ UNCHANGED <<environment, servers, curr, injector, side, update, reader,
                 watcher, balancer>>

(* Dial blocks until there is a connection.                                *)
Dialled ==
  /\ main = "dial" /\ conns \cap running # {}
  /\ main' = "inject"
  /\ todo' = [i \in 1..(Len(servers) - 1) |-> Add(servers[i + 1])]
  /\ inj' = IF Len(servers) > 1 THEN "send" ELSE "idle"
  /\ UNCHANGED <<environment, servers, curr, side, update, reader, watcher,
                 balancer>>

StartDiscovery ==
  /\ main = "inject" /\ inj = "idle"
  /\ main' = "loop"
  /\ curr' = ToSet(servers)
  /\ UNCHANGED <<environment, servers, injector, side, update, reader,
                 watcher, balancer>>

(* The client is killed by a request to consul that fails.                 *)
ConsulFails ==
  /\ main = "list" \/ (main = "loop" /\ inj = "idle")
  /\ faults < MaxFaults /\ faults' = faults + 1
  /\ main' = "dead"
  /\ UNCHANGED <<running, consul, changes, servers, curr, injector, side,
                 update, reader, watcher, balancer>>

-----------------------------------------------------------------------------
(* runOnlineServiceDiscovery and inject.                                   *)

(* The updates for some addresses.                                         *)
Deletes(s) == [i \in DOMAIN s |-> Delete(s[i])]
Adds(s) == [i \in DOMAIN s |-> Add(s[i])]

(* A tick that finds differences: removals first, and the maps are visited *)
(* in any order.                                                           *)
Poll ==
  /\ main = "loop" /\ inj = "idle" /\ curr # consul
  /\ \E s \in SetToSeqs(curr \ consul), t \in SetToSeqs(consul \ curr) :
       todo' = Deletes(s) \o Adds(t)
  /\ curr' = consul
  /\ inj' = "send"
  /\ UNCHANGED <<environment, main, servers, side, update, reader, watcher,
                 balancer>>

Alive == main # "dead"

(* inject tells the length first; "await" is behind that send, and lasts   *)
(* until readDone.                                                         *)
Announce ==
  /\ Alive /\ inj = "send" /\ side = <<>>
  /\ side' = <<Len(todo)>>
  /\ inj' = "await"
  /\ UNCHANGED <<environment, client, todo, update, reader, watcher, balancer>>

(* Faulty: inject does not receive from readDone.                          *)
SendUpdate_NoWait ==
  /\ Alive /\ inj = "await" /\ todo # <<>> /\ update = <<>>
  /\ update' = <<Head(todo)>>
  /\ todo' = Tail(todo)
  /\ inj' = IF Len(todo) = 1 THEN "idle" ELSE inj
  /\ UNCHANGED <<environment, client, side, reader, watcher, balancer>>

SendUpdate ==
  /\ Alive /\ inj = "await" /\ todo # <<>> /\ update = <<>>
  /\ update' = <<Head(todo)>>
  /\ todo' = Tail(todo)
  /\ UNCHANGED <<environment, client, inj, side, reader, watcher, balancer>>

-----------------------------------------------------------------------------
(* Next, called by the balancer's goroutine, and what the balancer does    *)
(* with its result.                                                        *)

ReceiveLength ==
  /\ Alive /\ next = "side" /\ side # <<>>
  /\ left' = side[1] /\ side' = <<>>
  /\ next' = "update" /\ batch' = <<>>
  /\ UNCHANGED <<environment, client, injector, update, reader, balancer>>

ReceiveUpdate ==
  /\ Alive /\ next = "update" /\ update # <<>>
  /\ batch' = Append(batch, update[1]) /\ update' = <<>>
  /\ left' = left - 1
  /\ next' = IF left = 1 THEN "done" ELSE "update"
  /\ UNCHANGED <<environment, client, injector, side, reader, balancer>>

(* readDone has no buffer: it goes to whoever waits, the goroutine of      *)
(* Resolve or inject.                                                      *)
ReadDone ==
  /\ Alive /\ next = "done"
  /\ \/ reader /\ reader' = FALSE /\ UNCHANGED inj
     \/ inj = "await" /\ todo = <<>> /\ inj' = "idle" /\ UNCHANGED reader
  /\ next' = "apply"
  /\ UNCHANGED <<environment, client, todo, side, update, left, batch,
                 balancer>>

(* watchAddrUpdates: the loop over the updates.  What is said last of an   *)
(* address decides: adding it twice or deleting what is gone does nothing. *)
Names(us, a) == {i \in DOMAIN us : us[i].addr = a}
IsLast(is, i) == i \in is /\ \A j \in is : j <= i

AllApplied(list, us) ==
  {a \in Address :
     IF Names(us, a) = {} THEN a \in list
     ELSE \E i \in Names(us, a) : IsLast(Names(us, a), i) /\ us[i].op = "add"}

(* Faulty: a list that was not fetched yet is left in the channel.         *)
Apply_KeepsOldList ==
  /\ Alive /\ next = "apply"
  /\ addrs' = AllApplied(addrs, batch)
  /\ addrCh' = IF addrCh = <<>> THEN <<addrs'>> ELSE addrCh
  /\ next' = "side" /\ batch' = <<>>
  /\ UNCHANGED <<environment, client, injector, side, update, reader, left,
                 conns>>

(* The newest list replaces one that was not fetched yet.                  *)
Apply ==
  /\ Alive /\ next = "apply"
  /\ addrs' = AllApplied(addrs, batch)
  /\ addrCh' = <<addrs'>>
  /\ next' = "side" /\ batch' = <<>>
  /\ UNCHANGED <<environment, client, injector, side, update, reader, left,
                 conns>>

(* lbWatcher opens and closes connections until they fit the list.         *)
Connect ==
  /\ Alive /\ addrCh # <<>>
  /\ conns' = addrCh[1] /\ addrCh' = <<>>
  /\ UNCHANGED <<environment, client, injector, side, update, reader, watcher,
                 addrs>>

Next ==
  \/ \E a \in Address : StartServer(a) \/ StopServer(a)
  \/ NoServers \/ ConsulFails
  \/ ListServers \/ Dialled \/ StartDiscovery
  \/ Poll \/ Announce \/ SendUpdate
  \/ ReceiveLength \/ ReceiveUpdate \/ ReadDone \/ Apply \/ Connect

Spec == Init /\ [][Next]_vars

(* The client's goroutines go on, its ticker ticks and it is connected to  *)
(* servers that run; servers need not start or stop.                       *)
Fairness ==
  /\ WF_vars(ListServers) /\ WF_vars(Dialled) /\ WF_vars(StartDiscovery)
  /\ WF_vars(Poll) /\ WF_vars(Announce) /\ WF_vars(SendUpdate)
  /\ WF_vars(ReceiveLength) /\ WF_vars(ReceiveUpdate) /\ WF_vars(ReadDone)
  /\ WF_vars(Apply) /\ WF_vars(Connect)

FairSpec == Spec /\ Fairness

-----------------------------------------------------------------------------
(* What the client has decided the balancer shall know.                    *)
Intended ==
  CASE main = "list" -> {}
    [] main = "dial" -> {servers[1]}
    [] main = "inject" -> ToSet(servers)
    [] OTHER -> curr

(* Updates between the client and rr.addrs, oldest first.                  *)
OnTheWay == batch \o update \o todo

(* client_lb.go: applying what is on its way to the list of the balancer   *)
(* yields exactly the addresses the client believes in, so the two can     *)
(* never drift apart for good; and when inject returns, its batch was read *)
(* to the last update and nothing of it is left in a channel for the next  *)
(* batch to be mixed with.                                                 *)
NothingLostOnTheWay ==
  /\ Alive => AllApplied(addrs, OnTheWay) = Intended
  /\ inj = "idle" /\ main \in {"inject", "loop"}
     => /\ side = <<>> /\ update = <<>> /\ todo = <<>>
        /\ next \in {"side", "apply"}

(* runOnlineServiceDiscovery: once servers stop coming and going, a client *)
(* that polls and stays alive is connected to exactly those in consul, and *)
(* remains so - which includes servers that were killed.                   *)
ListsConverge ==
  <>[](main = "loop" => conns = consul /\ addrs = consul)

(* Dial: the client gets past it, unless the first server of the list is   *)
(* gone for good; other servers do not help, because the balancer is told  *)
(* of them only afterwards.                                                *)
DialReturns == <>[](main = "dial" => servers[1] \notin running)
=============================================================================
