------------------------------ MODULE Sessions ------------------------------
(***************************************************************************)
(* The session programs of the microservice lectures and of the redis      *)
(* example.  All keep sessions by id and serve login, logout and a page    *)
(* that welcomes who is logged in; they differ in where the sessions are   *)
(* and in what their code makes of a missing session and of a failed call. *)
(*                                                                         *)
(*   service1, service1-lite, service2-lite   a map in the same process    *)
(*   net-rpc, net-rpc-lite                    a server behind net/rpc      *)
(*   json-rpc                                 the methods over HTTP        *)
(*   grpc, grpc-lite, grpc_2, balanced        a server behind gRPC         *)
(*   gateway, gateway-lite                    REST in front of gRPC        *)
(*   redis                                    redis, by one connection     *)
(*                                                                         *)
(* A "-lite" client and that of grpc_2 run a fixed script once.  `program' *)
(* is the one that runs; it never changes.  The operations are named after *)
(* the managers' methods: the login page creates, the main page checks and *)
(* the logout page deletes.                                                *)
(*                                                                         *)
(* Ids come from math/rand, which nobody seeds: the n-th id is the same in *)
(* every process, so an id is the number n of its draw.                    *)
(***************************************************************************)
EXTENDS Naturals, Sequences, FiniteSets, TLC, Functions

CONSTANTS
  Program,       \* the programs to run
  Tab, Owner,    \* browser tabs or clients, and whose they are
  Client,        \* the tabs that stand for the clients with a script
  MaxAsks,       \* bound: requests of each tab, by program
  MaxId,         \* bound: ids drawn by a process
  MaxFaults      \* bound: breaks, stops and expirations

VARIABLES
  program,
  up,        \* the process that holds the sessions, or redis's client, runs
  link,      \* the connection of the pages to the manager works
  store,     \* the sessions: id -> login
  drawn,     \* ids drawn by the running process
  pc,        \* where the request of a tab is
  req,       \* its operation and id
  reply,     \* what its manager returned
  orphans,   \* calls whose caller was told of trouble and that go on
  wire,      \* replies of redis nobody has read, in the order of the commands
  jar,       \* the id in the tab's cookie; 0 if there is none
  answer,    \* what the tab was answered; none while it waits
  asks,      \* requests the tab has made
  faults,
  raced,     \* the map was used during an unlocked write (history)
  crossed,   \* a reply of redis was read by the wrong goroutine (history)
  holders,   \* which id was given for which login (history)
  crash      \* the runtime stopped the process: who was in the map (history)

vars == <<program, up, link, store, drawn, pc, req, reply, orphans, wire, jar,
          answer, asks, faults, raced, crossed, holders, crash>>

Scripts == {"service1-lite", "service2-lite", "net-rpc-lite", "grpc-lite",
            "grpc_2", "gateway-lite"}

(* Faulty: the managers behind gRPC too give the lock back too early.      *)
Unlocked_Grpc == {"service1", "service1-lite", "service2-lite", "grpc"}

Unlocked == {"service1", "service1-lite", "service2-lite"}
OneProcess == Unlocked \cup {"json-rpc", "gateway"}
NeverRedials == {"net-rpc", "net-rpc-lite", "redis"}
ZeroSession == {"net-rpc", "net-rpc-lite", "json-rpc"}

Programs ==
  Scripts \cup OneProcess \cup NeverRedials \cup {"grpc", "balanced"}

ASSUME SessionsAssumption ==
  /\ Program \subseteq Programs
  /\ IsFiniteSet(Tab) /\ DOMAIN Owner = Tab
  /\ MaxId \in Nat /\ MaxFaults \in Nat

User == {Owner[t] : t \in Tab}
Id == 1..MaxId
NoRequest == [op |-> "none", id |-> 0]

(* What managers return.  A zero Session has the empty login.              *)
NoLogin == ""
Found(u) == [is |-> "session", login |-> u]
Made(i) == [is |-> "id", id |-> i]
Nil == [is |-> "nil"]
Done == [is |-> "done"]
NotFound == [is |-> "not found"]
Error == [is |-> "error"]
None == [is |-> "none"]

(* What tabs are answered.                                                 *)
Welcome(u) == [is |-> "welcome", login |-> u]
Cookie(i) == [is |-> "cookie", id |-> i]
LoginForm == [is |-> "form"]
LoggedOut == [is |-> "out"]
Status500 == [is |-> "500"]
Status401 == [is |-> "401"]
Panicked == [is |-> "panic"]
Aborted == [is |-> "aborted"]

----------------------------------------------------------------------------
(* The managers: what an operation makes of the map and returns.           *)

With(i, u) == [j \in {i} \cup DOMAIN store |-> IF j = i THEN u ELSE store[j]]
Without(i) == Restrict(store, DOMAIN store \ {i})

Service1Manager(op, i, u) ==
  CASE op = "create" -> [store |-> With(i, u), reply |-> Made(i)]
    [] op = "check" ->
         [store |-> store,
          reply |-> IF i \in DOMAIN store THEN Found(store[i]) ELSE Nil]
    [] op = "delete" -> [store |-> Without(i), reply |-> Done]

Service1LiteManager(op, i, u) == Service1Manager(op, i, u)
Service2LiteManager(op, i, u) == Service1Manager(op, i, u)

(* net/rpc: Check of an unknown id leaves *out as it was made.             *)
NetRpcManager(op, i, u) ==
  CASE op = "create" -> [store |-> With(i, u), reply |-> Made(i)]
    [] op = "check" ->
         [store |-> store,
          reply |-> Found(IF i \in DOMAIN store THEN store[i] ELSE NoLogin)]
    [] op = "delete" -> [store |-> Without(i), reply |-> Done]

JsonRpcManager(op, i, u) == NetRpcManager(op, i, u)

(* Faulty: Delete forgets to delete.                                       *)
GrpcManager_Keeps(op, i, u) ==
  [store |-> IF op = "create" THEN With(i, u) ELSE store,
   reply |-> CASE op = "create" -> Made(i)
               [] op = "delete" -> Done
               [] OTHER -> IF i \in DOMAIN store THEN Found(store[i]) ELSE NotFound]

(* gRPC: Check of an unknown id is the error NotFound.                     *)
GrpcManager(op, i, u) ==
  CASE op = "create" -> [store |-> With(i, u), reply |-> Made(i)]
    [] op = "check" ->
         [store |-> store,
          reply |-> IF i \in DOMAIN store THEN Found(store[i]) ELSE NotFound]
    [] op = "delete" -> [store |-> Without(i), reply |-> Done]

Grpc2Manager(op, i, u) == GrpcManager(op, i, u)
GatewayManager(op, i, u) == GrpcManager(op, i, u)

(* The balanced servers do not share sessions: Check makes one up.         *)
BalancedManager(op, i, u) ==
  IF op = "check" THEN [store |-> store, reply |-> Found("made up")]
  ELSE GrpcManager(op, i, u)

(* The generated handlers call the manager, in grpc_2 by way of an         *)
(* interceptor that returns what the call returned.                        *)
GrpcHandler(op, i, u) == GrpcManager(op, i, u)
GatewayService(op, i, u) == GatewayManager(op, i, u)
Grpc2Interceptor(op, i, u) == Grpc2Manager(op, i, u)

(* SET, GET and DEL, with the replies of redis.                            *)
Redis(op, i, u) ==
  CASE op = "create" -> [store |-> With(i, u), reply |-> [is |-> "OK"]]
    [] op = "check" ->
         [store |-> store,
          reply |-> IF i \in DOMAIN store THEN Found(store[i]) ELSE Nil]
    [] op = "delete" -> [store |-> Without(i), reply |-> [is |-> "integer"]]

(* What the manager makes of the reply it reads, whose ever it is.         *)
RedisManager(op, i, r) ==
  CASE op = "create" -> IF r.is = "OK" THEN Made(i) ELSE Error
    [] op = "check" -> IF r.is = "session" THEN r ELSE Nil
    [] op = "delete" -> Done

Manager(op, i, u) ==
  CASE program = "service1" -> Service1Manager(op, i, u)
    [] program = "service1-lite" -> Service1LiteManager(op, i, u)
    [] program = "service2-lite" -> Service2LiteManager(op, i, u)
    [] program \in {"net-rpc", "net-rpc-lite"} -> NetRpcManager(op, i, u)
    [] program = "json-rpc" -> JsonRpcManager(op, i, u)
    [] program \in {"grpc", "grpc-lite"} -> GrpcHandler(op, i, u)
    [] program = "grpc_2" -> Grpc2Interceptor(op, i, u)
    [] program \in {"gateway", "gateway-lite"} -> GatewayService(op, i, u)
    [] program = "balanced" -> BalancedManager(op, i, u)
    [] program = "redis" -> Redis(op, i, u)

----------------------------------------------------------------------------
(* The pages and clients: what they make of what the manager returned.     *)

(* checkSession with innerPage, loginPage, logoutPage.                     *)
Service1Page(op, r) ==
  CASE op = "check" /\ r.is = "session" -> Welcome(r.login)
    [] op = "check" /\ r = Nil -> LoginForm
    [] op = "create" /\ r.is = "id" -> Cookie(r.id)
    [] op = "create" /\ r = Nil -> Panicked       \* sess.ID of a nil sess
    [] op = "delete" -> LoggedOut
    [] OTHER -> Status500

(* The client methods print an error and return nil.                       *)
NetRpcClient(op, r) == IF r = Error /\ op # "delete" THEN Nil ELSE r
NetRpcPage(op, r) == Service1Page(op, NetRpcClient(op, r))

(* The stubs return nil and the error; the pages look at the error.        *)
GrpcClient(op, r) == r
GrpcPage(op, r) == Service1Page(op, GrpcClient(op, r))
RedisPage(op, i, r) == Service1Page(op, RedisManager(op, i, r))

(* The endpoints of JSON-RPC and of the gateway show what they are given.  *)
JsonRpcHandler(op, r) ==
  CASE r.is = "session" -> Welcome(r.login)
    [] r.is = "id" -> Cookie(r.id)
    [] r = Done -> LoggedOut
    [] OTHER -> Status500

GatewayRequest(op, r) == r
GatewayHandler(op, r) ==
  CASE GatewayRequest(op, r).is = "session" -> Welcome(r.login)
    [] GatewayRequest(op, r).is = "id" -> Cookie(r.id)
    [] GatewayRequest(op, r) = Done -> LoggedOut
    [] OTHER -> Status500

(* The scripts print, but an id they were not given is nil.                *)
Service1LiteClient(op, r) == Service1Page(op, r)
Service2LiteClient(op, r) == Service1Page(op, r)
GrpcLiteClient(op, r) ==
  IF op = "create" /\ r = Error THEN Panicked
  ELSE Service1Page(op, GrpcClient(op, r))
Grpc2Client(op, r) == GrpcLiteClient(op, r)
GatewayLiteClient(op, r) == GrpcLiteClient(op, r)
NetRpcLiteMethods(op, r) == IF r = Error /\ op # "delete" THEN Nil ELSE r
NetRpcLiteClient(op, r) == Service1Page(op, NetRpcLiteMethods(op, r))

Page(t, op, r) ==
  CASE program = "service1" -> Service1Page(op, r)
    [] program = "service1-lite" -> Service1LiteClient(op, r)
    [] program = "service2-lite" -> Service2LiteClient(op, r)
    [] program = "net-rpc" -> NetRpcPage(op, r)
    [] program = "net-rpc-lite" -> NetRpcLiteClient(op, r)
    [] program = "json-rpc" -> JsonRpcHandler(op, r)
    [] program \in {"grpc", "balanced"} -> GrpcPage(op, r)
    [] program = "grpc-lite" -> GrpcLiteClient(op, r)
    [] program = "grpc_2" -> Grpc2Client(op, r)
    [] program = "gateway" -> GatewayHandler(op, r)
    [] program = "gateway-lite" -> GatewayLiteClient(op, r)
    [] program = "redis" -> RedisPage(op, req[t].id, r)

(* Create, Check, Delete, Check.                                           *)
Script == <<"create", "check", "delete", "check">>

----------------------------------------------------------------------------
Init ==
  /\ program \in Program
  /\ up = TRUE /\ link = TRUE
  /\ store = << >> /\ drawn = 0
  /\ pc = [t \in Tab |-> "idle"]
  /\ req = [t \in Tab |-> NoRequest]
  /\ reply = [t \in Tab |-> None]
  /\ orphans = {} /\ wire = << >>
  /\ jar = [t \in Tab |-> 0]
  /\ answer = [t \in Tab |-> None]
  /\ asks = [t \in Tab |-> 0]
  /\ faults = 0
  /\ raced = FALSE /\ crossed = FALSE /\ holders = {} /\ crash = {}

history == <<raced, crossed, holders, crash>>
process == <<program, up, link, faults, orphans>>

Goto(t, where) == pc' = [pc EXCEPT ![t] = where]
Returns(t, r) ==
  /\ Goto(t, "replied")
  /\ reply' = [reply EXCEPT ![t] = r]

(* The tabs that share a cookie: those of one browser; a client is alone.  *)
Sharing(t) ==
  IF program \in Scripts THEN {t} ELSE {s \in Tab : Owner[s] = Owner[t]}

(* May tab t make the request op now?  Without an id there is nothing to   *)
(* ask an endpoint.  A script in the manager's own process is its only     *)
(* user.                                                                   *)
MayAsk(t, op) ==
  /\ program \in OneProcess \cup {"redis"} => up
  /\ IF program \in Scripts
       THEN /\ t \in Client /\ asks[t] < Len(Script)
            /\ op = Script[asks[t] + 1]
            /\ program \in Unlocked => \A s \in Tab \ {t} : asks[s] = 0
       ELSE /\ asks[t] < MaxAsks[program][t]
            /\ program \in {"json-rpc", "gateway"} /\ jar[t] = 0 => op = "create"

(* A request comes in.  A page answers by itself if there is no cookie,    *)
(* or if a password is wrong, which only the redis example looks at.       *)
AnsweredAtOnce(t, op) ==
  CASE op # "create" /\ jar[t] = 0 ->
         {Page(t, op, IF op = "check" THEN Nil ELSE Done)}
    [] op = "create" /\ program = "redis" -> {Status401}
    [] OTHER -> {}

Ask(t, op) ==
  /\ pc[t] = "idle"
  /\ MayAsk(t, op)
  /\ asks' = [asks EXCEPT ![t] = @ + 1]
  /\ \/ /\ \E a \in AnsweredAtOnce(t, op) : answer' = [answer EXCEPT ![t] = a]
        /\ UNCHANGED <<pc, req>>
     \/ /\ op = "create" \/ jar[t] # 0
        /\ Goto(t, "asked")
        /\ req' = [req EXCEPT ![t] =
                     [op |-> op, id |-> IF op = "create" THEN 0 ELSE jar[t]]]
        /\ answer' = [answer EXCEPT ![t] = None]
  /\ UNCHANGED <<process, store, drawn, reply, wire, jar, history>>

(* Faulty: the generator does not advance.                                 *)
Draw_NotAdvancing(t) ==
  /\ pc[t] = "asked" /\ req[t].op = "create" /\ up
  /\ program \in NeverRedials \ {"redis"} => link
  /\ drawn' = 1
  /\ req' = [req EXCEPT ![t].id = 1]
  /\ Goto(t, "drawn")
  /\ UNCHANGED <<process, store, reply, wire, jar, answer, asks, history>>

(* The id of a new session, drawn outside the lock or, in service1, in it. *)
Draw(t) ==
  /\ pc[t] = "asked" /\ req[t].op = "create" /\ up
  /\ program \in NeverRedials \ {"redis"} => link
  /\ drawn < MaxId
  /\ drawn' = drawn + 1
  /\ req' = [req EXCEPT ![t].id = drawn + 1]
  /\ Goto(t, "drawn")
  /\ UNCHANGED <<process, store, reply, wire, jar, answer, asks, history>>

Using(t) == Manager(req[t].op, req[t].id, Owner[t])

Holds(t) == holders' = holders \cup {<<req[t].id, Owner[t]>>}

(* The managers that write under their lock.                               *)
CreateLocked(t) ==
  /\ pc[t] = "drawn" /\ program \notin Unlocked \cup {"redis"}
  /\ store' = Using(t).store
  /\ Returns(t, Using(t).reply)
  /\ Holds(t)
  /\ UNCHANGED <<process, drawn, req, wire, jar, answer, asks, raced, crossed, crash>>

Writers == {t \in Tab : pc[t] = "writing"}

(* The runtime may notice two goroutines in a map, and ends the process;   *)
(* every request in it is lost.                                            *)
Die ==
  /\ up' = FALSE
  /\ store' = << >>
  /\ pc' = [t \in Tab |-> "idle"]
  /\ reply' = [t \in Tab |-> None]
  /\ req' = [t \in Tab |-> NoRequest]
  /\ answer' = [t \in Tab |-> IF pc[t] = "idle" THEN answer[t] ELSE Aborted]
  /\ orphans' = {}
  /\ UNCHANGED <<program, link, drawn, wire, jar, asks, faults, raced, crossed, holders>>

Caught(t) ==
  /\ Writers \ {t} # {}
  /\ crash' = Writers \cup {t}
  /\ Die

(* service1 has given the lock back when it begins to write.               *)
CreateUnlocked(t) ==
  /\ pc[t] = "drawn" /\ program \in Unlocked
  /\ \/ /\ Goto(t, "writing")
        /\ raced' = (raced \/ Writers # {})
        /\ UNCHANGED <<process, store, drawn, req, reply, wire, jar, answer, asks,
                       crossed, holders, crash>>
     \/ Caught(t)

(* Of two unlocked writes one may be lost.                                 *)
Written(t) ==
  /\ pc[t] = "writing"
  /\ \/ /\ \/ store' = Using(t).store
           \/ Writers # {t} /\ UNCHANGED store
        /\ Returns(t, Using(t).reply)
        /\ raced' = (raced \/ Writers # {t})
        /\ Holds(t)
        /\ UNCHANGED <<process, drawn, req, wire, jar, answer, asks, crossed, crash>>
     \/ Caught(t)

(* Check and Delete, under the lock.                                       *)
Serve(t) ==
  /\ pc[t] = "asked" /\ req[t].op # "create" /\ up /\ program # "redis"
  /\ program \in NeverRedials => link
  /\ \/ /\ store' = Using(t).store
        /\ Returns(t, Using(t).reply)
        /\ raced' = (raced \/ Writers # {})
        /\ UNCHANGED <<process, drawn, req, wire, jar, answer, asks, crossed, holders, crash>>
     \/ Caught(t)

(* redis: a goroutine sends its command, which is executed in its turn...  *)
SendCommand(t) ==
  /\ program = "redis" /\ link
  /\ pc[t] = (IF req[t].op = "create" THEN "drawn" ELSE "asked")
  /\ store' = Using(t).store
  /\ wire' = Append(wire, [to |-> t, of |-> Using(t).reply])
  /\ Goto(t, "waiting")
  /\ IF req[t].op = "create" THEN Holds(t) ELSE UNCHANGED holders
  /\ UNCHANGED <<process, drawn, req, reply, jar, answer, asks, raced, crossed, crash>>

(* ...and reads the next reply.  Nothing keeps the goroutines apart; that  *)
(* they tear a reply is a Break of the connection.                         *)
ReadReply(t) ==
  /\ pc[t] = "waiting" /\ wire # << >>
  /\ Returns(t, Head(wire).of)
  /\ wire' = Tail(wire)
  /\ crossed' = (crossed \/ Head(wire).to # t)
  /\ UNCHANGED <<process, store, drawn, req, jar, answer, asks, raced, holders, crash>>

(* The page answers; a browser keeps the cookie, or drops it.  A script    *)
(* that panics is over.                                                    *)
Answer(t) ==
  LET a == Page(t, req[t].op, reply[t])
      Keep(i) == jar' = [s \in Tab |-> IF s \in Sharing(t) THEN i ELSE jar[s]]
  IN  /\ pc[t] = "replied"
      /\ answer' = [answer EXCEPT ![t] = a]
      /\ CASE a.is = "cookie" -> Keep(a.id)
           [] a = LoggedOut /\ program \notin Scripts -> Keep(0)
           [] OTHER -> UNCHANGED jar
      /\ asks' = IF a = Panicked /\ program \in Scripts
                 THEN [asks EXCEPT ![t] = Len(Script)] ELSE asks
      /\ Goto(t, "idle")
      /\ reply' = [reply EXCEPT ![t] = None]
      /\ req' = [req EXCEPT ![t] = NoRequest]
      /\ UNCHANGED <<process, store, drawn, wire, history>>

----------------------------------------------------------------------------
(* What else happens.                                                      *)

Calling(t) ==
  /\ pc[t] \in {"asked", "drawn", "waiting"}
               \cup (IF program = "redis" THEN {} ELSE {"replied"})
  /\ program = "redis" /\ req[t].op = "create" => pc[t] # "asked"

(* A call that finds no server, or a connection that is never made again.  *)
Refused(t) ==
  /\ program \notin OneProcess
  /\ pc[t] \in {"asked", "drawn"} /\ (~up \/ ~link)
  /\ program = "redis" /\ req[t].op = "create" => pc[t] = "drawn"
  /\ Returns(t, Error)
  /\ UNCHANGED <<process, store, drawn, req, wire, jar, answer, asks, history>>

Fault == faults < MaxFaults /\ faults' = faults + 1

(* The calls under way fail; the manager may have executed them.           *)
CallsFail(ts) ==
  /\ pc' = [t \in Tab |-> IF t \in ts THEN "replied" ELSE pc[t]]
  /\ reply' = [t \in Tab |-> IF t \in ts THEN Error ELSE reply[t]]

(* Or it executes them later: nothing tells a manager's goroutine, or redis*)
(* with a command in its socket, that the caller has given up.  Calls that *)
(* never reached it are among them too, and take no further step.          *)
Outlive(ts) ==
  {[of |-> t, op |-> req[t].op, id |-> req[t].id, n |-> faults'] :
     t \in {s \in ts : /\ up /\ pc[s] \in {"asked", "drawn"}
                        /\ req[s].op # "check"}}

OrphanDraw(o) ==
  /\ o.op = "create" /\ o.id = 0 /\ drawn < MaxId
  /\ drawn' = drawn + 1
  /\ orphans' = (orphans \ {o}) \cup {[o EXCEPT !.id = drawn + 1]}
  /\ UNCHANGED <<program, up, link, faults, store, pc, req, reply, wire, jar,
                 answer, asks, history>>

OrphanWrite(o) ==
  /\ o.id # 0
  /\ store' = Manager(o.op, o.id, Owner[o.of]).store
  /\ holders' = holders \cup (IF o.op = "create" THEN {<<o.id, Owner[o.of]>>} ELSE {})
  /\ orphans' = orphans \ {o}
  /\ UNCHANGED <<program, up, link, faults, drawn, pc, req, reply, wire, jar,
                 answer, asks, raced, crossed, crash>>

(* The connection breaks.  gRPC makes a new one.                           *)
Break ==
  /\ Fault
  /\ link /\ program \notin OneProcess
  /\ link' = (program \notin NeverRedials)
  /\ CallsFail({t \in Tab : Calling(t)})
  /\ orphans' = orphans \cup Outlive({t \in Tab : Calling(t)})
  /\ wire' = << >>
  /\ UNCHANGED <<program, up, store, drawn, req, jar, answer, asks, history>>

(* The gateway's client goes: CloseNotify cancels the context of its call. *)
ClientGone(t) ==
  /\ Fault
  /\ program = "gateway" /\ Calling(t)
  /\ CallsFail({t})
  /\ orphans' = orphans \cup Outlive({t})
  /\ UNCHANGED <<program, up, link, store, drawn, req, wire, jar, answer, asks, history>>

(* The process with the sessions stops, or redis's client, whose commands  *)
(* may still be executed.                                                  *)
Stop ==
  /\ Fault
  /\ program \notin {"service1-lite", "service2-lite"}
  /\ up /\ up' = FALSE
  /\ IF program = "redis"
       THEN /\ UNCHANGED store
            /\ orphans' = orphans \cup Outlive({t \in Tab : Calling(t)})
       ELSE store' = << >> /\ orphans' = {}
  /\ wire' = << >>
  /\ IF program \in OneProcess \cup {"redis"}
       THEN /\ pc' = [t \in Tab |-> "idle"]
            /\ reply' = [t \in Tab |-> None]
            /\ req' = [t \in Tab |-> NoRequest]
            /\ answer' = [t \in Tab |-> IF pc[t] = "idle" THEN answer[t] ELSE Aborted]
            /\ UNCHANGED link
       ELSE /\ CallsFail({t \in Tab : Calling(t)})
            /\ link' = (program \notin NeverRedials)
            /\ UNCHANGED <<req, answer>>
  /\ UNCHANGED <<program, drawn, jar, asks, history>>

(* It is started again and draws the ids from the first.                   *)
Start ==
  /\ ~up /\ up' = TRUE
  /\ drawn' = 0
  /\ link' = (link \/ program = "redis")
  /\ UNCHANGED <<program, faults, store, pc, req, reply, orphans, wire, jar,
                 answer, asks, history>>

(* redis drops a session after a day.                                      *)
Expire(i) ==
  /\ Fault
  /\ program = "redis"
  /\ store' = Without(i)
  /\ UNCHANGED <<program, up, link, drawn, pc, req, reply, orphans, wire, jar,
                 answer, asks, history>>

Goes(t) ==
  \/ Draw(t) \/ CreateLocked(t) \/ CreateUnlocked(t) \/ Written(t) \/ Serve(t)
  \/ SendCommand(t) \/ ReadReply(t) \/ Answer(t) \/ Refused(t)

Next ==
  \/ \E t \in Tab : \/ \E op \in {"create", "check", "delete"} : Ask(t, op)
                    \/ Goes(t)
                    \/ ClientGone(t)
  \/ Break \/ Stop \/ Start
  \/ \E i \in DOMAIN store : Expire(i)
  \/ \E o \in orphans : OrphanDraw(o) \/ OrphanWrite(o)

Spec == Init /\ [][Next]_vars

----------------------------------------------------------------------------
(* A page welcomes its visitor by the login he gave when he was handed the *)
(* id.  Four things break this: the balanced servers make a session up,    *)
(* Check over net/rpc welcomes nobody where there is no session, goroutines*)
(* of the redis example read each other's replies, and a process that was  *)
(* started again hands out the ids of its predecessor.                     *)
WelcomeIsOwn ==
  \A t \in Tab : answer[t].is = "welcome" =>
    \/ answer[t].login = Owner[t]
    \/ program = "balanced"
    \/ answer[t].login = NoLogin /\ program \in ZeroSession
    \/ crossed
    \/ /\ faults > 0 \/ crash # {}
       /\ \E i \in Id :
            {<<i, Owner[t]>>, <<i, answer[t].login>>} \subseteq holders

(* The runtime ends a process for its use of the map only in service1,     *)
(* where AuthCreateSession writes behind the lock, and only while another  *)
(* request is in the map.                                                  *)
CrashOnlyInService1 ==
  crash # {} => program = "service1" /\ Cardinality(crash) > 1

(* Each manager, seen through its pages, is one map with operations that   *)
(* take effect in one step between the call and the answer: who logged in  *)
(* stays so until somebody logs out with his id, and not after it, unless  *)
(* the process stops.  A login or logout whose caller was told of trouble  *)
(* takes effect at most once, before that or at any time after it.  Nothing*)
(* is promised once the unlocked writes of service1 or the replies of redis*)
(* have met, nor of the balanced servers; and where a missing session looks*)
(* like one with the empty login, nothing if somebody logs in with that.   *)
Result(i, r) ==
  CASE r.is = "session" /\ r.login \in User -> <<"person", r.login>>
    [] r.is = "id" -> <<"key", r.id>>
    [] r.is = "OK" -> <<"key", i>>
    [] r.is \in {"done", "integer"} -> <<"gone">>
    [] r = Error -> <<"trouble">>
    [] OTHER -> <<"nobody">>

WantOf(op) ==
  CASE op = "create" -> "open" [] op = "check" -> "look" [] op = "delete" -> "close"

ReplyTo(t) == wire[CHOOSE n \in DOMAIN wire : wire[n].to = t].of

DueTo(t) ==
  CASE pc[t] \in {"asked", "drawn", "writing"} ->
         <<"call", WantOf(req[t].op), IF req[t].op = "create" THEN 0 ELSE req[t].id>>
    [] pc[t] = "replied" -> Result(req[t].id, reply[t])
    [] pc[t] = "waiting" ->
         Result(req[t].id, ReplyTo(t))
    [] OTHER -> <<"nothing">>

(* What a call that goes on may still do.                                  *)
LateCall(o) ==
  [by |-> o.of, n |-> o.n,
   call |-> <<"call", WantOf(o.op), IF o.op = "create" THEN 0 ELSE o.id>>]

Shown(a) ==
  CASE a.is = "welcome" /\ a.login \in User -> <<"person", a.login>>
    [] a.is = "cookie" -> <<"key", a.id>>
    [] a = LoggedOut -> <<"gone">>
    [] a = None -> <<"nothing">>
    [] a \in {Status500, Status401, Panicked, Aborted} -> <<"trouble">>
    [] OTHER -> <<"nobody">>

Store == INSTANCE SessionStore WITH
           Caller <- Tab, Key <- Id, Person <- User, known <- store,
           due <- [t \in Tab |-> DueTo(t)], told <- [t \in Tab |-> Shown(answer[t])],
           late <- {LateCall(o) : o \in orphans}

StoreRefined ==
  /\ Store!Init
  /\ [][\/ crossed' \/ raced' \/ program = "balanced"
        \/ NoLogin \in User /\ program \in ZeroSession
        \/ Store!Next]_(Store!storeVars)
=============================================================================
