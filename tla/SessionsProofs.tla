--------------------------- MODULE SessionsProofs ---------------------------
(***************************************************************************)
(* WelcomeIsOwn, CrashOnlyInService1 and StoreRefined of Sessions, for     *)
(* every program and any number of tabs, requests and faults.              *)
(***************************************************************************)
EXTENDS Sessions, FiniteSetTheorems, TLAPS

Ops == {"create", "check", "delete"}
Place == {"idle", "asked", "drawn", "writing", "waiting", "replied"}
Request == [op : Ops \cup {"none"}, id : 0..MaxId]
Login == User \cup {NoLogin, "made up"}
Reply ==
  [is : {"nil", "done", "not found", "error", "none", "OK", "integer"}]
  \cup [is : {"session"}, login : Login]
  \cup [is : {"id"}, id : 0..MaxId]

SessionTypes ==
  /\ program \in Programs /\ drawn \in 0..MaxId /\ faults \in Nat
  /\ pc \in [Tab -> Place] /\ req \in [Tab -> Request]
  /\ reply \in [Tab -> Reply] /\ wire \in Seq([to : Tab, of : Reply])
  /\ jar \in [Tab -> 0..MaxId] /\ asks \in [Tab -> Nat]
  /\ DOMAIN answer = Tab
  /\ DOMAIN store \subseteq Id /\ \A i \in DOMAIN store : store[i] \in User
  /\ holders \subseteq Id \X User
  /\ \A t \in Tab :
       /\ pc[t] # "idle" => req[t].op \in Ops
       /\ pc[t] \in {"drawn", "writing"} =>
            req[t].op = "create" /\ req[t].id \in Id

(* A fault leaves at most one call of a tab to go on.                      *)
OrphanTypes ==
  /\ orphans \subseteq [of : Tab, op : Ops, id : 0..MaxId, n : 1..faults]
  /\ \A o \in orphans : o.op # "check"
  /\ \A o, p \in orphans : o.of = p.of /\ o.n = p.n => o = p

(* Only the unlocked managers have requests that write, and a script has   *)
(* its manager for itself.                                                 *)
WritersOfService1 ==
  /\ \A t \in Tab : pc[t] = "writing" => program \in Unlocked
  /\ \A t \in Tab : pc[t] # "idle" => asks[t] > 0
  /\ program \in {"service1-lite", "service2-lite"} =>
       \A s, t \in Tab : asks[s] > 0 /\ asks[t] > 0 => s = t

CrashInv ==
  SessionTypes /\ OrphanTypes /\ WritersOfService1 /\ CrashOnlyInService1

(* Whatever there is of a session was given for that login once: the entry *)
(* of the map, the cookie, the id of a request, and what a manager found.  *)
Held(i, t) == <<i, Owner[t]>> \in holders

Honest(i, r) ==
  r.is = "session" =>
    \/ <<i, r.login>> \in holders
    \/ program = "balanced"
    \/ r.login = NoLogin /\ program \in ZeroSession

StoreIsHeld == \A i \in DOMAIN store : <<i, store[i]>> \in holders

CookiesAreHeld == \A t \in Tab : jar[t] # 0 => Held(jar[t], t)

RequestIsHeld(t) ==
  (pc[t] # "idle" /\ req[t].op # "create") \/ pc[t] = "waiting"
    => Held(req[t].id, t)

ReplyIsHeld(t) ==
  pc[t] = "replied" =>
    /\ crossed \/ Honest(req[t].id, reply[t])
    /\ reply[t].is = "id" => req[t].op = "create" /\ reply[t].id = req[t].id
    /\ reply[t].is \in {"id", "OK", "session"} => Held(req[t].id, t)

RequestsAreHeld == \A t \in Tab : RequestIsHeld(t)
RepliesAreHeld == \A t \in Tab : ReplyIsHeld(t)

(* As long as everybody read his own, the replies of redis belong to       *)
(* different goroutines that wait for them.                                *)
WireIsHeld ==
  /\ \A n \in 1..Len(wire) : program = "redis" /\ wire[n].of.is # "id"
  /\ ~crossed => \A n \in 1..Len(wire) :
       /\ pc[wire[n].to] = "waiting"
       /\ Honest(req[wire[n].to].id, wire[n].of)
       /\ \A m \in 1..Len(wire) : m # n => wire[m].to # wire[n].to

HeldInv ==
  /\ StoreIsHeld /\ CookiesAreHeld /\ RequestsAreHeld /\ RepliesAreHeld
  /\ WireIsHeld

(* Until a process is started again, an id is given once.                  *)
Quiet == faults = 0 /\ crash = {}

Creating(t) == pc[t] \in {"drawn", "writing"}

IdsGivenOnce ==
  /\ \A g, h \in holders : g[1] = h[1] => g = h
  /\ \A h \in holders : h[1] <= drawn
  /\ \A t \in Tab : Creating(t) =>
       /\ req[t].id <= drawn
       /\ \A h \in holders : h[1] # req[t].id
       /\ \A s \in Tab \ {t} : Creating(s) => req[s].id # req[t].id

IdsAreNew == Quiet => up /\ IdsGivenOnce

WelcomesAreHeld ==
  \A t \in Tab : answer[t].is = "welcome" =>
    \/ program = "balanced"
    \/ answer[t].login = NoLogin /\ program \in ZeroSession
    \/ crossed
    \/ \E i \in Id :
         {<<i, Owner[t]>>, <<i, answer[t].login>>} \subseteq holders

(* What an operation may make of the map, and return: nothing appears in   *)
(* the map but what create puts there, and a check finds what is there,    *)
(* unless it makes something up.                                           *)
MayDo(op, i, u, m) ==
  /\ \A j \in DOMAIN m.store :
       \/ j \in DOMAIN store /\ m.store[j] = store[j]
       \/ op = "create" /\ j = i /\ m.store[j] = u
  /\ \/ /\ op = "check"
        /\ \/ i \in DOMAIN store /\ m.reply = Found(store[i])
           \/ m.reply = Found("made up") /\ program = "balanced"
           \/ /\ m.reply = Found(NoLogin)
              /\ program \in ZeroSession
     \/ op = "create" /\ m.reply = Made(i) /\ program # "redis"
     \/ op = "create" /\ m.reply = [is |-> "OK"]
     \/ m.reply \in {Nil, Done, NotFound, [is |-> "integer"]}

(* So does every program.                                                  *)
LEMMA ManagerDoes ==
  ASSUME program \in Programs, NEW op \in Ops, NEW i, NEW u
  PROVE  MayDo(op, i, u, Manager(op, i, u))
<1>1. /\ \A j \in DOMAIN With(i, u) :
           \/ j \in DOMAIN store /\ With(i, u)[j] = store[j]
           \/ j = i /\ With(i, u)[j] = u
      /\ \A j \in DOMAIN Without(i) :
           j \in DOMAIN store /\ Without(i)[j] = store[j]
  BY DEF With, Without, Restrict
<1> HIDE DEF With, Without
<1>2. op = "create" /\ program # "redis" =>
        MayDo(op, i, u, [store |-> With(i, u), reply |-> Made(i)])
  BY <1>1 DEF MayDo
<1>3. /\ op = "check" /\ i \in DOMAIN store =>
           MayDo(op, i, u, [store |-> store, reply |-> Found(store[i])])
      /\ op = "check" => \A r \in {Nil, NotFound} :
           MayDo(op, i, u, [store |-> store, reply |-> r])
  BY DEF MayDo
<1>4. op = "delete" => \A r \in {Done, [is |-> "integer"]} :
        MayDo(op, i, u, [store |-> Without(i), reply |-> r])
  BY <1>1 DEF MayDo
<1>5. CASE Manager(op, i, u) = Service1Manager(op, i, u) /\ program # "redis"
  BY <1>2, <1>3, <1>4, <1>5 DEF Ops, Service1Manager
<1>6. CASE Manager(op, i, u) = GrpcManager(op, i, u) /\ program # "redis"
  BY <1>2, <1>3, <1>4, <1>6 DEF Ops, GrpcManager
<1>7. CASE program \in ZeroSession
  <2>1. op = "check" =>
          MayDo(op, i, u, [store |-> store,
                           reply |-> Found(IF i \in DOMAIN store
                                           THEN store[i] ELSE NoLogin)])
    BY <1>7 DEF MayDo
  <2>2. Manager(op, i, u) = NetRpcManager(op, i, u)
    BY <1>7 DEF Manager, JsonRpcManager, ZeroSession
  <2> QED
    BY <1>2, <1>4, <1>7, <2>1, <2>2 DEF Ops, NetRpcManager, ZeroSession
<1>8. CASE program = "balanced"
  <2>1. op = "check" =>
          MayDo(op, i, u, [store |-> store, reply |-> Found("made up")])
    BY <1>8 DEF MayDo
  <2>2. Manager(op, i, u) = BalancedManager(op, i, u)
    BY <1>8 DEF Manager
  <2> QED
    BY <1>2, <1>4, <1>8, <2>1, <2>2 DEF Ops, BalancedManager, GrpcManager
<1>9. CASE program = "redis"
  <2>1. op = "create" =>
          MayDo(op, i, u, [store |-> With(i, u), reply |-> [is |-> "OK"]])
    BY <1>1 DEF MayDo
  <2>2. Manager(op, i, u) = Redis(op, i, u)
    BY <1>9 DEF Manager
  <2> QED
    BY <1>3, <1>4, <2>1, <2>2 DEF Ops, Redis
<1>10. \/ Manager(op, i, u) = Service1Manager(op, i, u) /\ program # "redis"
       \/ Manager(op, i, u) = GrpcManager(op, i, u) /\ program # "redis"
       \/ program \in ZeroSession \cup {"balanced", "redis"}
  BY DEF Programs, Scripts, OneProcess, NeverRedials, Unlocked, Manager,
     Service1LiteManager, Service2LiteManager, GrpcHandler, Grpc2Manager,
     Grpc2Interceptor, GatewayManager, GatewayService, ZeroSession
<1> QED
  BY <1>5, <1>6, <1>7, <1>8, <1>9, <1>10

(* A page welcomes whom its manager found, and the cookie is the id of the *)
(* request that created a session.                                         *)
LEMMA PageShows ==
  ASSUME program \in Programs, NEW t, NEW op \in Ops, NEW r
  PROVE  LET a == Page(t, op, r) IN
         /\ a.is = "welcome" => r.is = "session" /\ a.login = r.login
         /\ a.is = "cookie" =>
              \/ r.is = "id" /\ a.id = r.id
              \/ r.is = "OK" /\ op = "create" /\ a.id = req[t].id
<1> USE DEF Ops, Nil, Done, Error, Made, Welcome, Cookie, LoginForm, LoggedOut,
            Status500, Panicked, Service1Page
<1>1. CASE program \in Unlocked
  BY <1>1 DEF Page, Service1LiteClient, Service2LiteClient, Unlocked
<1>2. CASE program \in {"net-rpc", "net-rpc-lite"}
  BY <1>2 DEF Page, NetRpcPage, NetRpcClient, NetRpcLiteMethods, NetRpcLiteClient
<1>3. CASE program \in {"grpc", "balanced"}
  BY <1>3 DEF Page, GrpcPage, GrpcClient
<1>4. CASE program \in {"grpc-lite", "grpc_2", "gateway-lite"}
  BY <1>4 DEF Page, GrpcLiteClient, Grpc2Client, GatewayLiteClient, GrpcClient
<1>5. CASE program \in {"json-rpc", "gateway"}
  BY <1>5 DEF Page, JsonRpcHandler, GatewayHandler, GatewayRequest
<1>6. CASE program = "redis"
  BY <1>6 DEF Page, RedisPage, RedisManager
<1> QED
  BY <1>1, <1>2, <1>3, <1>4, <1>5, <1>6
  DEF Programs, Scripts, OneProcess, NeverRedials, Unlocked

LEMMA ReplyShapes ==
  /\ {Nil, Done, NotFound, Error, None, [is |-> "OK"], [is |-> "integer"]}
       \subseteq Reply
  /\ \A u \in Login : Found(u) \in Reply
  /\ \A i \in 0..MaxId : Made(i) \in Reply
<1>1. {Nil, Done, NotFound, Error, None, [is |-> "OK"], [is |-> "integer"]}
        \subseteq
        [is : {"nil", "done", "not found", "error", "none", "OK", "integer"}]
  BY DEF Nil, Done, NotFound, Error, None
<1>2. \A u \in Login : Found(u) \in [is : {"session"}, login : Login]
  BY DEF Found
<1>3. \A i \in 0..MaxId : Made(i) \in [is : {"id"}, id : 0..MaxId]
  BY DEF Made
<1> QED
  BY <1>1, <1>2, <1>3 DEF Reply

(* What the manager does to the map and returns is of the right types.     *)
LEMMA UsingTypes ==
  ASSUME SessionTypes, NEW t \in Tab, pc[t] # "idle",
         req[t].op = "create" => req[t].id \in Id
  PROVE  /\ MayDo(req[t].op, req[t].id, Owner[t], Using(t))
         /\ req[t].op \in Ops /\ req[t].id \in 0..MaxId /\ Owner[t] \in User
         /\ Using(t).reply \in Reply
         /\ DOMAIN Using(t).store \subseteq Id
         /\ \A i \in DOMAIN Using(t).store : Using(t).store[i] \in User
<1>1. /\ req[t].op \in Ops /\ req[t].id \in 0..MaxId /\ Owner[t] \in User
      /\ program \in Programs
      /\ DOMAIN store \subseteq Id /\ \A i \in DOMAIN store : store[i] \in User
  BY DEF SessionTypes, Request, User
<1>2. MayDo(req[t].op, req[t].id, Owner[t], Using(t))
  BY <1>1, ManagerDoes DEF Using
<1>3. Using(t).reply \in Reply
  BY <1>1, <1>2, ReplyShapes DEF MayDo, Login
<1>4. /\ DOMAIN Using(t).store \subseteq Id
      /\ \A i \in DOMAIN Using(t).store : Using(t).store[i] \in User
  BY <1>1, <1>2 DEF MayDo
<1> QED
  BY <1>1, <1>2, <1>3, <1>4

LEMMA TypesInit == Init => SessionTypes /\ OrphanTypes
  BY SessionsAssumption, ReplyShapes
  DEF Init, SessionTypes, OrphanTypes, Place, Request, NoRequest, Ops, User, Id

(* What a call that goes on draws and writes.                              *)
LEMMA ManagerWrites ==
  ASSUME program \in Programs, NEW i, NEW u
  PROVE  /\ Manager("create", i, u).store = With(i, u)
         /\ Manager("delete", i, u).store = Without(i)
<1>1. CASE program \in Unlocked
  BY <1>1 DEF Unlocked, Manager, Service1Manager, Service1LiteManager,
     Service2LiteManager
<1>2. CASE program \in ZeroSession
  BY <1>2 DEF ZeroSession, Manager, NetRpcManager, JsonRpcManager
<1>3. CASE program \in {"grpc", "grpc-lite", "grpc_2", "gateway", "gateway-lite",
                        "balanced"}
  BY <1>3 DEF Manager, GrpcHandler, GrpcManager, Grpc2Interceptor, Grpc2Manager,
     GatewayService, GatewayManager, BalancedManager
<1>4. CASE program = "redis"
  BY <1>4 DEF Manager, Redis
<1> QED
  BY <1>1, <1>2, <1>3, <1>4
  DEF Programs, Scripts, OneProcess, NeverRedials, Unlocked, ZeroSession

LEMMA OrphanWrites ==
  ASSUME SessionTypes, OrphanTypes, NEW o \in orphans, OrphanWrite(o)
  PROVE  /\ o.of \in Tab /\ o.id \in Id /\ Owner[o.of] \in User
         /\ \/ /\ o.op = "create" /\ store' = With(o.id, Owner[o.of])
               /\ holders' = holders \cup {<<o.id, Owner[o.of]>>}
            \/ /\ o.op = "delete" /\ store' = Without(o.id)
               /\ holders' = holders
<1>1. /\ o.of \in Tab /\ o.id \in 0..MaxId /\ o.op \in {"create", "delete"}
      /\ program \in Programs
  BY DEF OrphanTypes, SessionTypes, Ops
<1>2. o.id # 0 /\ store' = Manager(o.op, o.id, Owner[o.of]).store
  BY DEF OrphanWrite
<1>3. o.id \in Id /\ Owner[o.of] \in User
  BY <1>1, <1>2, SessionsAssumption DEF Id, User
<1>4. CASE o.op = "create"
  BY <1>1, <1>2, <1>3, <1>4, ManagerWrites DEF OrphanWrite
<1>5. CASE o.op = "delete"
  BY <1>1, <1>2, <1>3, <1>5, ManagerWrites DEF OrphanWrite
<1> QED
  BY <1>1, <1>3, <1>4, <1>5

(* What the calls that fail leave.                                         *)
LEMMA OutliveTypes ==
  ASSUME SessionTypes, OrphanTypes, NEW ts \in SUBSET Tab, Fault,
         \A t \in ts : pc[t] # "idle",
         orphans' = orphans \cup Outlive(ts)
  PROVE  OrphanTypes'
<1>1. faults \in Nat /\ faults' = faults + 1
  BY DEF Fault, SessionTypes
<1>2. \A o \in orphans' \ orphans :
        /\ o \in [of : Tab, op : Ops, id : 0..MaxId, n : 1..faults']
        /\ o.n = faults' /\ o.op # "check"
        /\ o = [of |-> o.of, op |-> req[o.of].op, id |-> req[o.of].id, n |-> faults']
  BY <1>1 DEF Outlive, SessionTypes, Request
<1>3. \A o \in orphans :
        o \in [of : Tab, op : Ops, id : 0..MaxId, n : 1..faults] /\ o.n # faults'
  BY <1>1 DEF OrphanTypes
<1>4. orphans' \subseteq [of : Tab, op : Ops, id : 0..MaxId, n : 1..faults']
  BY <1>1, <1>2, <1>3
<1>5. \A o \in orphans' : o.op # "check"
  BY <1>2 DEF OrphanTypes
<1>6. \A o, p \in orphans' : o.of = p.of /\ o.n = p.n => o = p
  BY <1>2, <1>3 DEF OrphanTypes
<1> QED
  BY <1>4, <1>5, <1>6 DEF OrphanTypes

LEMMA OrphansNext ==
  SessionTypes /\ OrphanTypes /\ [Next]_vars => OrphanTypes'
<1> SUFFICES ASSUME SessionTypes, OrphanTypes, [Next]_vars PROVE OrphanTypes'
  OBVIOUS
<1>1. CASE UNCHANGED <<orphans, faults>>
  BY <1>1 DEF OrphanTypes
<1>2. CASE orphans' = {}
  BY <1>2 DEF OrphanTypes
<1>3. ASSUME NEW t \in Tab, ClientGone(t) PROVE OrphanTypes'
  BY <1>3, OutliveTypes DEF ClientGone, Calling
<1>4. CASE Break \/ (Stop /\ program = "redis")
  <2> DEFINE ts == {t \in Tab : Calling(t)}
  <2>1. \A t \in ts : pc[t] # "idle"
    BY DEF Calling
  <2>2. Fault /\ orphans' = orphans \cup Outlive(ts)
    BY <1>4 DEF Break, Stop
  <2> HIDE DEF ts
  <2>3. ts \in SUBSET Tab
    BY DEF ts
  <2> QED
    BY <2>1, <2>2, <2>3, OutliveTypes
<1>5. ASSUME NEW o \in orphans, OrphanDraw(o) PROVE OrphanTypes'
  <2> DEFINE d == [o EXCEPT !.id = drawn + 1]
  <2>1. /\ orphans' = (orphans \ {o}) \cup {d} /\ UNCHANGED faults
        /\ drawn + 1 \in 0..MaxId /\ o.op = "create"
    BY <1>5, SessionsAssumption DEF OrphanDraw, SessionTypes
  <2>2. o \in [of : Tab, op : Ops, id : 0..MaxId, n : 1..faults]
    BY DEF OrphanTypes
  <2>3. /\ d \in [of : Tab, op : Ops, id : 0..MaxId, n : 1..faults]
        /\ d.of = o.of /\ d.n = o.n /\ d.op = o.op
    BY <2>1, <2>2
  <2> HIDE DEF d
  <2>4. /\ orphans' \subseteq [of : Tab, op : Ops, id : 0..MaxId, n : 1..faults']
        /\ \A p \in orphans' : p.op # "check"
    BY <2>1, <2>3 DEF OrphanTypes
  <2>5. \A p, q \in orphans' : p.of = q.of /\ p.n = q.n => p = q
    BY <2>1, <2>3 DEF OrphanTypes
  <2> QED
    BY <2>4, <2>5 DEF OrphanTypes
<1>6. ASSUME NEW o \in orphans, OrphanWrite(o) PROVE OrphanTypes'
  <2>1. orphans' = orphans \ {o} /\ UNCHANGED faults
    BY <1>6 DEF OrphanWrite
  <2> QED
    BY <2>1 DEF OrphanTypes
<1>7. ASSUME NEW t \in Tab, Goes(t)
      PROVE  UNCHANGED <<orphans, faults>> \/ orphans' = {}
  BY <1>7 DEF Goes, process, Draw, CreateLocked, CreateUnlocked, Written, Serve,
     SendCommand, ReadReply, Answer, Refused, Caught, Die
<1>8. ASSUME NEW i, Expire(i) PROVE OrphanTypes'
  BY <1>8 DEF Expire, Fault, OrphanTypes, SessionTypes
<1>9. ASSUME Stop, program # "redis" PROVE orphans' = {}
  BY <1>9 DEF Stop
<1>10. \/ Start \/ (\E t \in Tab, op \in Ops : Ask(t, op)) \/ UNCHANGED vars
       => UNCHANGED <<orphans, faults>>
  BY DEF Start, Ask, process, vars
<1> QED
  BY <1>1, <1>2, <1>3, <1>4, <1>5, <1>6, <1>7, <1>8, <1>9, <1>10 DEF Next, Ops

LEMMA TypesNext ==
  SessionTypes /\ OrphanTypes /\ [Next]_vars => SessionTypes'
<1> SUFFICES ASSUME SessionTypes, OrphanTypes, [Next]_vars PROVE SessionTypes'
  OBVIOUS
<1> USE SessionsAssumption DEF process, history, Goto, Returns, Fault
<1>0. /\ NoRequest \in Request /\ None \in Reply /\ Error \in Reply
      /\ << >> \in Seq([to : Tab, of : Reply])
      /\ DOMAIN << >> = {}
  BY ReplyShapes DEF NoRequest, Request, Ops
<1>1. ASSUME NEW t \in Tab, NEW op \in Ops, Ask(t, op) PROVE SessionTypes'
  <2>1. jar[t] \in 0..MaxId
    BY DEF SessionTypes
  <2>2. [op |-> op, id |-> IF op = "create" THEN 0 ELSE jar[t]] \in Request
    BY <2>1 DEF Request
  <2>3. /\ DOMAIN answer' = Tab
        /\ asks' \in [Tab -> Nat]
    BY <1>1 DEF SessionTypes, Ask
  <2>4. CASE UNCHANGED <<pc, req>>
    BY <1>1, <2>3, <2>4 DEF SessionTypes, Ask
  <2>5. CASE ~UNCHANGED <<pc, req>>
    <3> DEFINE r == [op |-> op, id |-> IF op = "create" THEN 0 ELSE jar[t]]
    <3>1. pc' = [pc EXCEPT ![t] = "asked"] /\ req' = [req EXCEPT ![t] = r]
      BY <1>1, <2>5 DEF Ask
    <3>2. r \in Request /\ r.op \in Ops
      BY <2>2
    <3> HIDE DEF r
    <3> QED
      BY <1>1, <2>3, <3>1, <3>2 DEF SessionTypes, Ask, Place
  <2> QED
    BY <2>4, <2>5
<1>2. ASSUME NEW t \in Tab, Draw(t) PROVE SessionTypes'
  BY <1>2 DEF SessionTypes, Draw, Request, Ops, Place, Id
<1>3. ASSUME NEW t \in Tab, CreateLocked(t) PROVE SessionTypes'
  <2>1. pc[t] = "drawn" /\ req[t].op = "create" /\ req[t].id \in Id
    BY <1>3 DEF CreateLocked, SessionTypes
  <2> QED
    BY <1>3, <2>1, UsingTypes DEF SessionTypes, CreateLocked, Holds, Place
<1>4. ASSUME Die, UNCHANGED wire PROVE SessionTypes'
  BY <1>4, <1>0 DEF SessionTypes, Die, Place
<1>5. ASSUME NEW t \in Tab, CreateUnlocked(t) PROVE SessionTypes'
  <2>1. CASE Caught(t)
    BY <2>1, <1>4 DEF Caught, Die
  <2>2. CASE ~Caught(t)
    BY <1>5, <2>2 DEF SessionTypes, CreateUnlocked, Place
  <2> QED
    BY <2>1, <2>2
<1>6. ASSUME NEW t \in Tab, Written(t) PROVE SessionTypes'
  <2>1. CASE Caught(t)
    BY <2>1, <1>4 DEF Caught, Die
  <2>2. CASE ~Caught(t)
    <3>1. pc[t] = "writing" /\ req[t].op = "create" /\ req[t].id \in Id
      BY <1>6 DEF Written, SessionTypes
    <3>2. /\ DOMAIN store' \subseteq Id /\ \A i \in DOMAIN store' : store'[i] \in User
      BY <1>6, <2>2, <3>1, UsingTypes DEF Written, SessionTypes
    <3>3. reply' \in [Tab -> Reply]
      BY <1>6, <2>2, <3>1, UsingTypes DEF Written, SessionTypes
    <3>4. holders' \subseteq Id \X User
      BY <1>6, <2>2, <3>1, UsingTypes DEF Written, SessionTypes, Holds
    <3> QED
      BY <1>6, <2>2, <3>2, <3>3, <3>4 DEF SessionTypes, Written, Place
  <2> QED
    BY <2>1, <2>2
<1>7. ASSUME NEW t \in Tab, Serve(t) PROVE SessionTypes'
  <2>1. CASE Caught(t)
    BY <2>1, <1>4 DEF Caught, Die
  <2>2. CASE ~Caught(t)
    <3>1. pc[t] = "asked" /\ req[t].op # "create"
      BY <1>7 DEF Serve
    <3> QED
      BY <1>7, <2>2, <3>1, UsingTypes DEF SessionTypes, Serve, Place
  <2> QED
    BY <2>1, <2>2
<1>8. ASSUME NEW t \in Tab, SendCommand(t) PROVE SessionTypes'
  <2>1. /\ pc[t] \in {"drawn", "asked"}
        /\ req[t].op = "create" => pc[t] = "drawn" /\ req[t].id \in Id
    BY <1>8 DEF SendCommand, SessionTypes
  <2> QED
    BY <1>8, <2>1, UsingTypes DEF SessionTypes, SendCommand, Holds, Place
<1>9. ASSUME NEW t \in Tab, ReadReply(t) PROVE SessionTypes'
  <2>1. /\ Head(wire).of \in Reply
        /\ Tail(wire) \in Seq([to : Tab, of : Reply])
    <3>1. wire # << >> /\ wire \in Seq([to : Tab, of : Reply])
      BY <1>9 DEF ReadReply, SessionTypes
    <3> HIDE DEF Reply
    <3> DEFINE Message == [to : Tab, of : Reply]
    <3>2. \A m \in Message : m.of \in Reply
      OBVIOUS
    <3>3. wire \in Seq(Message)
      BY <3>1
    <3> HIDE DEF Message
    <3>4. Head(wire) \in Message /\ Tail(wire) \in Seq(Message)
      BY <3>1, <3>3
    <3> QED
      BY <3>2, <3>4 DEF Message
  <2> QED
    BY <1>9, <2>1 DEF SessionTypes, ReadReply, Place
<1>10. ASSUME NEW t \in Tab, Answer(t) PROVE SessionTypes'
  <2> DEFINE a == Page(t, req[t].op, reply[t])
  <2>1. a.is = "cookie" => a.id \in 0..MaxId
    <3>1. req[t].op \in Ops /\ program \in Programs /\ reply[t] \in Reply
          /\ req[t].id \in 0..MaxId
      BY <1>10 DEF Answer, SessionTypes, Request
    <3>2. reply[t].is = "id" => reply[t].id \in 0..MaxId
      BY <3>1 DEF Reply
    <3> DEFINE op == req[t].op
               r == reply[t]
    <3> HIDE DEF op, r
    <3>3. Page(t, op, r).is = "cookie" =>
            \/ r.is = "id" /\ Page(t, op, r).id = r.id
            \/ Page(t, op, r).id = req[t].id
      <4>1. program \in Programs /\ op \in Ops
        BY <3>1 DEF op
      <4> QED
        BY <4>1, PageShows
    <3> QED
      BY <3>1, <3>2, <3>3 DEF op, r
  <2>2. jar' \in [Tab -> 0..MaxId]
    <3>1. CASE UNCHANGED jar
      BY <3>1 DEF SessionTypes
    <3>2. ASSUME NEW i \in 0..MaxId,
                 jar' = [s \in Tab |-> IF s \in Sharing(t) THEN i ELSE jar[s]]
          PROVE  jar' \in [Tab -> 0..MaxId]
      BY <3>2 DEF SessionTypes
    <3>3. \/ UNCHANGED jar
          \/ \E i \in 0..MaxId :
               jar' = [s \in Tab |-> IF s \in Sharing(t) THEN i ELSE jar[s]]
      BY <1>10, <2>1 DEF Answer
    <3> QED
      BY <3>1, <3>2, <3>3
  <2>3. asks' \in [Tab -> Nat]
    BY <1>10 DEF Answer, SessionTypes, Script
  <2> QED
    BY <1>10, <1>0, <2>2, <2>3 DEF SessionTypes, Answer, Place
<1>11. ASSUME NEW t \in Tab, Refused(t) PROVE SessionTypes'
  BY <1>11, <1>0 DEF SessionTypes, Refused, Place
<1>12. ASSUME NEW t \in Tab, ClientGone(t) PROVE SessionTypes'
  BY <1>12, <1>0 DEF SessionTypes, ClientGone, CallsFail, Calling, Place
<1>13. CASE Break
  BY <1>13, <1>0 DEF SessionTypes, Break, CallsFail, Calling, Place
<1>14. CASE Stop
  <2>1. CASE program \in OneProcess \cup {"redis"}
    <3>1. /\ DOMAIN answer' = Tab
          /\ pc' \in [Tab -> Place] /\ \A t \in Tab : pc'[t] = "idle"
          /\ req' \in [Tab -> Request]
          /\ reply' \in [Tab -> Reply]
      BY <1>14, <2>1, <1>0 DEF Stop, Place
    <3> QED
      BY <1>14, <2>1, <3>1, <1>0 DEF SessionTypes, Stop
  <2>2. CASE program \notin OneProcess \cup {"redis"}
    <3>1. /\ pc' \in [Tab -> Place] /\ UNCHANGED req
          /\ \A t \in Tab :
               \/ pc'[t] = pc[t]
               \/ pc'[t] = "replied" /\ pc[t] # "idle"
      <4> DEFINE ts == {t \in Tab : Calling(t)}
      <4>1. CallsFail(ts) /\ UNCHANGED req
        BY <1>14, <2>2 DEF Stop
      <4>2. \A t \in ts : pc[t] # "idle"
        BY DEF Calling
      <4> HIDE DEF ts
      <4> QED
        BY <4>1, <4>2 DEF SessionTypes, CallsFail, Place
    <3>2. reply' \in [Tab -> Reply]
      BY <1>14, <2>2, <1>0 DEF SessionTypes, Stop, CallsFail
    <3> QED
      BY <1>14, <2>2, <3>1, <3>2, <1>0 DEF SessionTypes, Stop
  <2> QED
    BY <2>1, <2>2
<1>15. CASE Start
  BY <1>15, <1>0 DEF SessionTypes, Start
<1>16. ASSUME NEW i, Expire(i) PROVE SessionTypes'
  BY <1>16 DEF SessionTypes, Expire, Without, Restrict
<1>17. CASE UNCHANGED vars
  BY <1>17 DEF SessionTypes, vars
<1>18. ASSUME NEW o \in orphans, OrphanDraw(o) PROVE SessionTypes'
  BY <1>18 DEF SessionTypes, OrphanDraw
<1>19. ASSUME NEW o \in orphans, OrphanWrite(o) PROVE SessionTypes'
  <2>1. /\ DOMAIN store' \subseteq Id
        /\ \A i \in DOMAIN store' : store'[i] \in User
        /\ holders' \subseteq Id \X User
    <3>1. /\ o.id \in Id /\ Owner[o.of] \in User /\ DOMAIN store \subseteq Id
          /\ \A i \in DOMAIN store : store[i] \in User
          /\ holders \subseteq Id \X User
      BY <1>19, OrphanWrites DEF SessionTypes
    <3>2. CASE /\ store' = With(o.id, Owner[o.of])
               /\ holders' = holders \cup {<<o.id, Owner[o.of]>>}
      BY <3>1, <3>2 DEF With
    <3>3. CASE store' = Without(o.id) /\ holders' = holders
      BY <3>1, <3>3 DEF Without, Restrict
    <3> QED
      BY <1>19, <3>2, <3>3, OrphanWrites
  <2> QED
    BY <1>19, <2>1 DEF SessionTypes, OrphanWrite
<1> QED
  BY <1>1, <1>2, <1>3, <1>5, <1>6, <1>7, <1>8, <1>9, <1>10, <1>11, <1>12,
     <1>13, <1>14, <1>15, <1>16, <1>17, <1>18, <1>19 DEF Next, Goes, Ops

(* Everything is of its type, the calls that go on after their failure too.*)
THEOREM TypeInvariant == Spec => [](SessionTypes /\ OrphanTypes)
  BY TypesInit, TypesNext, OrphansNext, PTL DEF Spec

----------------------------------------------------------------------------
(* Two tabs that are not the same make a set of more than one.             *)
LEMMA TwoAreMoreThanOne ==
  ASSUME NEW ts \in SUBSET Tab, NEW s \in ts, NEW t \in ts, s # t
  PROVE  Cardinality(ts) > 1
<1>1. IsFiniteSet(ts)
  BY SessionsAssumption, FS_Subset
<1>2. /\ IsFiniteSet({s}) /\ Cardinality({s}) = 1
  BY FS_Singleton
<1>3. {s} \subseteq ts /\ {s} # ts
  OBVIOUS
<1>4. Cardinality({s}) <= Cardinality(ts)
      /\ (Cardinality({s}) = Cardinality(ts) => {s} = ts)
  BY <1>1, <1>3, FS_Subset
<1>5. Cardinality(ts) \in Nat
  BY <1>1, FS_CardinalityType
<1> QED
  BY <1>2, <1>3, <1>4, <1>5

(* Where the runtime catches two requests in the map, they are in service1.*)
LEMMA CaughtInService1 ==
  ASSUME SessionTypes, WritersOfService1, NEW t \in Tab, pc[t] # "idle",
         Caught(t)
  PROVE  program = "service1" /\ Cardinality(crash') > 1
<1>1. PICK s \in Writers \ {t} : TRUE
  BY DEF Caught
<1>2. /\ s \in Tab /\ s # t /\ pc[s] = "writing"
      /\ s \in crash' /\ t \in crash' /\ crash' \subseteq Tab
  BY <1>1 DEF Caught, Writers
<1>3. program \in Unlocked /\ asks[s] > 0 /\ asks[t] > 0
  BY <1>2 DEF WritersOfService1
<1>4. program = "service1"
  BY <1>2, <1>3 DEF WritersOfService1, Unlocked
<1> QED
  BY <1>2, <1>4, TwoAreMoreThanOne

(* What the actions other than Ask and Answer do to the tabs: nobody begins*)
(* a request, and only the unlocked managers begin to write.               *)
NobodyAsks ==
  /\ UNCHANGED <<program, asks>>
  /\ \A t \in Tab : pc'[t] # "idle" => pc[t] # "idle"
  /\ \A t \in Tab : pc'[t] = "writing" => pc[t] = "writing" \/ program \in Unlocked

LEMMA GoesAsksNobody ==
  ASSUME SessionTypes, NEW t \in Tab, Goes(t), ~Answer(t)
  PROVE  NobodyAsks
<1> USE DEF process, Goto, Returns, NobodyAsks
<1>1. pc \in [Tab -> Place]
  BY DEF SessionTypes
<1>2. ASSUME Die PROVE NobodyAsks
  BY <1>2 DEF Die
<1>3. CASE Caught(t)
  BY <1>2, <1>3 DEF Caught, Die
<1>4. CASE ~Caught(t)
  BY <1>1, <1>4 DEF Goes, Draw, CreateLocked, CreateUnlocked, Written, Serve,
     SendCommand, ReadReply, Refused
<1> QED
  BY <1>3, <1>4

LEMMA OthersAskNobody ==
  ASSUME SessionTypes,
         \/ \E t \in Tab : ClientGone(t)
         \/ Break \/ Stop \/ Start
         \/ \E i \in DOMAIN store : Expire(i)
         \/ \E o \in orphans : OrphanDraw(o) \/ OrphanWrite(o)
         \/ UNCHANGED vars
  PROVE  NobodyAsks
<1> USE DEF NobodyAsks, Place
<1>1. pc \in [Tab -> Place]
  BY DEF SessionTypes
<1>2. ASSUME NEW ts, CallsFail(ts), \A t \in ts : Calling(t),
             UNCHANGED <<program, asks>>
      PROVE  NobodyAsks
  BY <1>1, <1>2 DEF CallsFail, Calling
<1>3. ASSUME NEW t \in Tab, ClientGone(t) PROVE NobodyAsks
  <2>1. CallsFail({t}) /\ Calling(t)
    BY <1>3 DEF ClientGone
  <2> QED
    BY <1>2, <1>3, <2>1 DEF ClientGone
<1>4. CASE Break
  <2>1. CallsFail({t \in Tab : Calling(t)})
    BY <1>4 DEF Break
  <2> QED
    BY <1>2, <1>4, <2>1 DEF Break
<1>5. CASE Stop
  <2>1. \/ CallsFail({t \in Tab : Calling(t)})
        \/ pc' = [t \in Tab |-> "idle"]
    BY <1>5 DEF Stop
  <2>2. UNCHANGED <<program, asks>>
    BY <1>5 DEF Stop
  <2>3. CASE CallsFail({t \in Tab : Calling(t)})
    BY <1>2, <2>2, <2>3
  <2>4. CASE pc' = [t \in Tab |-> "idle"]
    BY <2>2, <2>4
  <2> QED
    BY <2>1, <2>3, <2>4
<1>6. CASE Start \/ (\E i \in DOMAIN store : Expire(i)) \/ UNCHANGED vars
  BY <1>6 DEF Start, Expire, vars
<1>7. CASE \E o \in orphans : OrphanDraw(o) \/ OrphanWrite(o)
  <2>1. UNCHANGED <<program, asks, pc>>
    BY <1>7 DEF OrphanDraw, OrphanWrite
  <2> QED
    BY <2>1
<1> QED
  BY <1>3, <1>4, <1>5, <1>6, <1>7

LEMMA WritersNext ==
  SessionTypes /\ WritersOfService1 /\ [Next]_vars => WritersOfService1'
<1> SUFFICES ASSUME SessionTypes, WritersOfService1, [Next]_vars
             PROVE  WritersOfService1'
  OBVIOUS
<1>1. /\ pc \in [Tab -> Place] /\ asks \in [Tab -> Nat]
  BY DEF SessionTypes
<1>2. CASE NobodyAsks
  BY <1>2 DEF WritersOfService1, NobodyAsks
<1>3. ASSUME NEW t \in Tab, NEW op, Ask(t, op) PROVE WritersOfService1'
  <2>1. /\ UNCHANGED program /\ asks' = [asks EXCEPT ![t] = @ + 1]
        /\ pc' = pc \/ pc' = [pc EXCEPT ![t] = "asked"]
    BY <1>3 DEF Ask, Goto, process
  <2>2. program \in {"service1-lite", "service2-lite"} =>
          \A s \in Tab \ {t} : asks[s] = 0
    BY <1>3 DEF Ask, MayAsk, Scripts, Unlocked
  <2> QED
    BY <1>1, <2>1, <2>2 DEF WritersOfService1
<1>4. ASSUME NEW t \in Tab, Answer(t) PROVE WritersOfService1'
  <2>1. /\ UNCHANGED program /\ pc[t] = "replied"
        /\ asks' = asks \/ asks' = [asks EXCEPT ![t] = 4]
        /\ pc' = [pc EXCEPT ![t] = "idle"]
    BY <1>4 DEF Answer, Goto, process, Script
  <2> QED
    BY <1>1, <2>1 DEF WritersOfService1
<1> QED
  BY <1>2, <1>3, <1>4, GoesAsksNobody, OthersAskNobody DEF Next

LEMMA CrashNext == CrashInv /\ [Next]_vars => CrashInv'
<1> SUFFICES ASSUME CrashInv, [Next]_vars PROVE CrashInv'
  OBVIOUS
<1> USE DEF CrashInv
<1>1. SessionTypes' /\ WritersOfService1'
  BY TypesNext, WritersNext
<1>0. OrphanTypes'
  BY OrphansNext
<1>2. \/ UNCHANGED <<program, crash>>
      \/ \E t \in Tab : pc[t] # "idle" /\ Caught(t) /\ UNCHANGED program
  <2>1. ASSUME NEW t \in Tab, Goes(t)
        PROVE  /\ UNCHANGED program
               /\ UNCHANGED crash \/ (pc[t] # "idle" /\ Caught(t))
    BY <2>1 DEF Goes, process, history, Draw, CreateLocked, CreateUnlocked,
       Written, Serve, SendCommand, ReadReply, Answer, Refused, Caught, Die
  <2>2. UNCHANGED <<program, crash>> \/ \E t \in Tab : Goes(t)
    BY DEF Next, vars, process, history, Ask, ClientGone, Break, Stop, Start,
       Expire, OrphanDraw, OrphanWrite
  <2> QED
    BY <2>1, <2>2
<1>3. CrashOnlyInService1'
  BY <1>2, CaughtInService1 DEF CrashOnlyInService1
<1> QED
  BY <1>0, <1>1, <1>3

LEMMA CrashInvariant == Spec => []CrashInv
<1>1. Init => CrashInv
  BY TypesInit DEF Init, CrashInv, WritersOfService1, CrashOnlyInService1
<1> QED
  BY <1>1, CrashNext, PTL DEF Spec

(* The runtime ends a process for its use of the map only in service1,     *)
(* whose AuthCreateSession writes behind the lock, and with two requests   *)
(* in the map.                                                             *)
THEOREM CrashOnlyInService1Correct == Spec => []CrashOnlyInService1
<1>1. CrashInv => CrashOnlyInService1
  BY DEF CrashInv
<1> QED
  BY <1>1, CrashInvariant, PTL

----------------------------------------------------------------------------
(* The program stays, what was given for a login was given for good, and   *)
(* so is it with the replies that were crossed.                            *)
Grows ==
  UNCHANGED program /\ holders \subseteq holders' /\ (crossed => crossed')

LEMMA NextGrows == [Next]_vars => Grows
<1> SUFFICES ASSUME [Next]_vars PROVE Grows
  OBVIOUS
<1> USE DEF Grows, process, history, Holds
<1>1. ASSUME NEW t \in Tab, Goes(t), ~Caught(t) PROVE Grows
  <2>1. UNCHANGED program
    BY <1>1 DEF Goes, Draw, CreateLocked, CreateUnlocked, Written, Serve,
       SendCommand, ReadReply, Answer, Refused
  <2>2. UNCHANGED crossed \/ crossed' = (crossed \/ Head(wire).to # t)
    BY <1>1 DEF Goes, Draw, CreateLocked, CreateUnlocked, Written, Serve,
       SendCommand, ReadReply, Answer, Refused
  <2>3. UNCHANGED holders \/ Holds(t)
    BY <1>1 DEF Goes, Draw, CreateLocked, CreateUnlocked, Written, Serve,
       SendCommand, ReadReply, Answer, Refused
  <2>4. holders \subseteq holders'
    BY <2>3
  <2>5. crossed => crossed'
    BY <2>2
  <2> QED
    BY <2>1, <2>4, <2>5
<1>2. ASSUME NEW t \in Tab, Caught(t) PROVE Grows
  BY <1>2 DEF Caught, Die
<1>3. CASE UNCHANGED <<program, crossed, holders>>
  BY <1>3
<1>4. \/ UNCHANGED <<program, crossed, holders>>
      \/ \E t \in Tab : Goes(t)
      \/ \E o \in orphans : OrphanWrite(o)
  BY DEF Next, vars, Ask, ClientGone, Break, Stop, Start, Expire, OrphanDraw
<1>5. ASSUME NEW o \in orphans, OrphanWrite(o) PROVE Grows
  BY <1>5 DEF OrphanWrite
<1> QED
  BY <1>1, <1>2, <1>3, <1>4, <1>5

LEMMA TabStays ==
  ASSUME Grows, NEW t, RequestIsHeld(t), ReplyIsHeld(t),
         pc'[t] = pc[t], req'[t] = req[t], reply'[t] = reply[t]
  PROVE  RequestIsHeld(t)' /\ ReplyIsHeld(t)'
  BY DEF Grows, RequestIsHeld, ReplyIsHeld, Held, Honest

LEMMA TabIsIdle ==
  ASSUME NEW t, pc'[t] = "idle"
  PROVE  RequestIsHeld(t)' /\ ReplyIsHeld(t)'
  BY DEF RequestIsHeld, ReplyIsHeld

LEMMA TabFails ==
  ASSUME Grows, NEW t, RequestIsHeld(t), pc[t] # "idle",
         pc'[t] = "replied", req'[t] = req[t], reply'[t] = Error
  PROVE  RequestIsHeld(t)' /\ ReplyIsHeld(t)'
  BY DEF Grows, RequestIsHeld, ReplyIsHeld, Held, Honest, Error

(* The replies on the wire stay who they are for as long as the goroutines *)
(* that wait for them go on waiting.                                       *)
LEMMA WireStays ==
  ASSUME Grows, WireIsHeld, UNCHANGED <<wire, crossed>>,
         program = "redis" => \A t \in Tab : pc[t] = "waiting" =>
           pc'[t] = "waiting" /\ req'[t] = req[t],
         SessionTypes
  PROVE  WireIsHeld'
<1> DEFINE Message == [to : Tab, of : Reply]
<1>1. wire \in Seq(Message) /\ \A m \in Message : m.to \in Tab
  BY DEF SessionTypes
<1> HIDE DEF Message
<1>2. \A n \in 1..Len(wire) : wire[n].to \in Tab
  BY <1>1
<1>3. ASSUME ~crossed', NEW n \in 1..Len(wire)
      PROVE  /\ pc'[wire[n].to] = "waiting"
             /\ Honest(req[wire[n].to].id, wire[n].of)'
             /\ \A m \in 1..Len(wire) : m # n => wire[m].to # wire[n].to
  <2>1. /\ wire[n].to \in Tab /\ pc[wire[n].to] = "waiting"
        /\ Honest(req[wire[n].to].id, wire[n].of)
        /\ \A m \in 1..Len(wire) : m # n => wire[m].to # wire[n].to
    BY <1>2, <1>3 DEF WireIsHeld
  <2>2. pc'[wire[n].to] = "waiting" /\ req'[wire[n].to] = req[wire[n].to]
    BY <2>1 DEF WireIsHeld
  <2> QED
    BY <2>1, <2>2 DEF Grows, Honest
<1> QED
  BY <1>3 DEF Grows, WireIsHeld

LEMMA WireIsEmpty == WireIsHeld /\ program # "redis" /\ SessionTypes => wire = << >>
  BY DEF WireIsHeld, SessionTypes

(* What a manager does rests on what was given.                            *)
LEMMA UsingHolds ==
  ASSUME SessionTypes, StoreIsHeld, NEW t \in Tab, pc[t] # "idle",
         req[t].op = "create" => req[t].id \in Id
  PROVE  /\ Honest(req[t].id, Using(t).reply)
         /\ Using(t).reply.is = "id" =>
              /\ req[t].op = "create" /\ program # "redis"
              /\ Using(t).reply.id = req[t].id
         /\ Using(t).reply.is = "OK" => req[t].op = "create"
         /\ Using(t).reply.is = "session" => req[t].op = "check"
         /\ \A i \in DOMAIN Using(t).store :
              \/ <<i, Using(t).store[i]>> \in holders
              \/ /\ req[t].op = "create" /\ i = req[t].id
                 /\ Using(t).store[i] = Owner[t]
<1> DEFINE m == Using(t)
           op == req[t].op
           i == req[t].id
<1>1. MayDo(op, i, Owner[t], m)
  BY UsingTypes
<1> HIDE DEF m, op, i
<1> DEFINE r == m.reply
<1>a. /\ \A u : Found(u).is = "session" /\ Found(u).login = u
      /\ \A n : Made(n).is = "id" /\ Made(n).id = n
      /\ \A a \in {Nil, Done, NotFound, [is |-> "integer"], [is |-> "OK"]} :
           a.is # "session" /\ a.is # "id"
      /\ \A a \in {Nil, Done, NotFound, [is |-> "integer"]} : a.is # "OK"
  BY DEF Found, Made, Nil, Done, NotFound
<1>b. \/ /\ op = "check"
         /\ \/ i \in DOMAIN store /\ r = Found(store[i])
            \/ r = Found("made up") /\ program = "balanced"
            \/ /\ r = Found(NoLogin)
               /\ program \in ZeroSession
      \/ op = "create" /\ r = Made(i) /\ program # "redis"
      \/ op = "create" /\ r = [is |-> "OK"]
      \/ r \in {Nil, Done, NotFound, [is |-> "integer"]}
  BY <1>1 DEF MayDo
<1> HIDE DEF r
<1>2. Honest(i, r)
  BY <1>a, <1>b DEF Honest, StoreIsHeld
<1>3. /\ r.is = "id" => op = "create" /\ program # "redis" /\ r.id = i
      /\ r.is = "OK" => op = "create"
      /\ r.is = "session" => op = "check"
  BY <1>a, <1>b
<1>4. \A j \in DOMAIN m.store :
        \/ <<j, m.store[j]>> \in holders
        \/ op = "create" /\ j = i /\ m.store[j] = Owner[t]
  BY <1>1 DEF MayDo, StoreIsHeld
<1> QED
  BY <1>2, <1>3, <1>4 DEF m, op, i, r

(* ...so the map does after it.                                            *)
LEMMA StoreStaysHeld ==
  ASSUME SessionTypes, StoreIsHeld, Grows, NEW t \in Tab, pc[t] # "idle",
         req[t].op = "create" => req[t].id \in Id /\ Holds(t),
         store' = Using(t).store
  PROVE  StoreIsHeld'
  BY UsingHolds DEF StoreIsHeld, Grows, Holds

(* So does the tab, when the manager has returned to it.                   *)
LEMMA ReturnIsHeld ==
  ASSUME SessionTypes, StoreIsHeld, Grows, NEW t \in Tab, RequestIsHeld(t),
         pc[t] # "idle", req[t].op = "create" => req[t].id \in Id /\ Holds(t),
         Returns(t, Using(t).reply), UNCHANGED req
  PROVE  RequestIsHeld(t)' /\ ReplyIsHeld(t)'
<1>1. pc'[t] = "replied" /\ reply'[t] = Using(t).reply /\ req'[t] = req[t]
  BY DEF SessionTypes, Returns, Goto
<1>2. RequestIsHeld(t)'
  BY <1>1 DEF RequestIsHeld, Held, Grows
<1>3. Honest(req[t].id, reply[t])'
  BY <1>1, UsingHolds DEF Honest, Grows
<1>4. reply'[t].is \in {"id", "OK", "session"} => Held(req[t].id, t)'
  BY <1>1, UsingHolds DEF RequestIsHeld, Held, Holds, Grows
<1> QED
  BY <1>1, <1>2, <1>3, <1>4, UsingHolds DEF ReplyIsHeld

(* A step of one tab, and calls that fail.                                 *)
LEMMA OneTab ==
  ASSUME Grows, RequestsAreHeld, RepliesAreHeld, NEW t \in Tab,
         \A s \in Tab \ {t} :
           pc'[s] = pc[s] /\ req'[s] = req[s] /\ reply'[s] = reply[s],
         RequestIsHeld(t)' /\ ReplyIsHeld(t)'
  PROVE  RequestsAreHeld' /\ RepliesAreHeld'
  BY TabStays DEF RequestsAreHeld, RepliesAreHeld

LEMMA CallsFailHeld ==
  ASSUME Grows, RequestsAreHeld, RepliesAreHeld, SessionTypes, UNCHANGED req,
         NEW ts, CallsFail(ts), \A t \in ts : Calling(t)
  PROVE  RequestsAreHeld' /\ RepliesAreHeld'
<1> SUFFICES ASSUME NEW t \in Tab
             PROVE  RequestIsHeld(t)' /\ ReplyIsHeld(t)'
  BY DEF RequestsAreHeld, RepliesAreHeld
<1>1. RequestIsHeld(t) /\ ReplyIsHeld(t)
  BY DEF RequestsAreHeld, RepliesAreHeld
<1>2. CASE t \in ts
  <2>1. pc'[t] = "replied" /\ reply'[t] = Error /\ req'[t] = req[t]
    BY <1>2 DEF CallsFail
  <2>2. pc[t] # "idle"
    BY <1>2 DEF Calling
  <2> QED
    BY <1>1, <2>1, <2>2, TabFails
<1>3. CASE t \notin ts
  <2>1. pc'[t] = pc[t] /\ reply'[t] = reply[t] /\ req'[t] = req[t]
    BY <1>3 DEF CallsFail
  <2> QED
    BY <1>1, <2>1, TabStays
<1> QED
  BY <1>2, <1>3

LEMMA CookiesStay ==
  Grows /\ CookiesAreHeld /\ UNCHANGED jar => CookiesAreHeld'
  BY DEF Grows, CookiesAreHeld, Held

LEMMA StoreStays == Grows /\ StoreIsHeld /\ UNCHANGED store => StoreIsHeld'
  BY DEF Grows, StoreIsHeld

LEMMA NoStore == store' = << >> => StoreIsHeld'
  BY DEF StoreIsHeld

LEMMA NoWire == wire' = << >> => WireIsHeld'
  BY DEF WireIsHeld

(* The sharing tabs are those of the same owner.                           *)
LEMMA SharingOwner ==
  \A t \in Tab : \A s \in Sharing(t) : s \in Tab /\ Owner[s] = Owner[t]
  BY DEF Sharing

LEMMA AnswerHeld ==
  ASSUME SessionTypes, HeldInv, Grows, NEW t \in Tab, Answer(t)
  PROVE  HeldInv'
<1> DEFINE op == req[t].op
           r == reply[t]
           i == req[t].id
           a == Page(t, op, r)
<1>1. /\ pc[t] = "replied" /\ op \in Ops /\ program \in Programs
      /\ pc' = [pc EXCEPT ![t] = "idle"] /\ pc \in [Tab -> Place]
      /\ reply' = [reply EXCEPT ![t] = None] /\ reply \in [Tab -> Reply]
      /\ req' = [req EXCEPT ![t] = NoRequest] /\ req \in [Tab -> Request]
      /\ UNCHANGED <<wire, crossed, store, holders>>
  BY DEF Answer, Goto, process, history, SessionTypes
<1>2. /\ r.is = "id" => op = "create" /\ r.id = i
      /\ r.is \in {"id", "OK"} => Held(i, t)
  BY <1>1 DEF HeldInv, RepliesAreHeld, ReplyIsHeld
<1>3. a.is = "cookie" => Held(a.id, t)
  <2> HIDE DEF op, r, i
  <2>1. Page(t, op, r).is = "cookie" =>
          \/ r.is = "id" /\ Page(t, op, r).id = r.id
          \/ r.is = "OK" /\ Page(t, op, r).id = i
    BY <1>1, PageShows DEF i
  <2> QED
    BY <1>2, <2>1
<1>4. \/ UNCHANGED jar
      \/ \E n : /\ n = 0 \/ Held(n, t)
               /\ jar' = [s \in Tab |-> IF s \in Sharing(t) THEN n ELSE jar[s]]
  BY <1>3 DEF Answer
<1>5. CookiesAreHeld'
  <2>1. CASE UNCHANGED jar
    BY <2>1, CookiesStay DEF HeldInv
  <2>2. ASSUME NEW n, n = 0 \/ Held(n, t),
               jar' = [s \in Tab |-> IF s \in Sharing(t) THEN n ELSE jar[s]]
        PROVE  CookiesAreHeld'
    BY <2>2, SharingOwner DEF CookiesAreHeld, HeldInv, Held, Grows
  <2> QED
    BY <1>4, <2>1, <2>2
<1>6. RequestsAreHeld' /\ RepliesAreHeld'
  BY <1>1, OneTab, TabIsIdle DEF HeldInv
<1>7. WireIsHeld'
  BY <1>1, WireStays DEF HeldInv
<1> QED
  BY <1>1, <1>5, <1>6, <1>7, StoreStays DEF HeldInv

LEMMA SendCommandHeld ==
  ASSUME SessionTypes, HeldInv, Grows, NEW t \in Tab, SendCommand(t)
  PROVE  HeldInv'
<1> DEFINE m == [to |-> t, of |-> Using(t).reply]
           Message == [to : Tab, of : Reply]
<1>1. /\ program = "redis" /\ pc[t] \in {"drawn", "asked"}
      /\ req[t].op = "create" => pc[t] = "drawn" /\ req[t].id \in Id /\ Holds(t)
      /\ store' = Using(t).store /\ pc' = [pc EXCEPT ![t] = "waiting"]
      /\ wire' = Append(wire, m)
      /\ UNCHANGED <<req, reply, jar, crossed>>
      /\ pc \in [Tab -> Place]
  BY DEF SendCommand, Goto, SessionTypes
<1>2. StoreIsHeld'
  BY <1>1, StoreStaysHeld DEF HeldInv
<1>3. Held(req[t].id, t)'
  <2>1. CASE req[t].op = "create"
    BY <1>1, <2>1 DEF Holds, Held
  <2>2. CASE req[t].op # "create"
    BY <1>1, <2>2
    DEF HeldInv, RequestsAreHeld, RequestIsHeld, Held, Grows
  <2> QED
    BY <2>1, <2>2
<1>4. RequestsAreHeld' /\ RepliesAreHeld'
  <2>1. RequestIsHeld(t)' /\ ReplyIsHeld(t)'
    BY <1>1, <1>3 DEF RequestIsHeld, ReplyIsHeld
  <2> QED
    BY <1>1, <2>1, OneTab DEF HeldInv
<1>5. WireIsHeld'
  <2>1. m.to = t /\ m.of = Using(t).reply
    OBVIOUS
  <2>2. wire \in Seq(Message) /\ \A n \in Message : n.to \in Tab
    BY DEF SessionTypes
  <2>3. m \in Message
    BY <1>1, UsingTypes
  <2>4. Honest(req[t].id, Using(t).reply) /\ Using(t).reply.is # "id"
    BY <1>1, UsingHolds DEF HeldInv
  <2>5. /\ m.of.is = "session" =>
             \/ <<req'[t].id, m.of.login>> \in holders'
             \/ program' = "balanced"
             \/ /\ m.of.login = NoLogin
                /\ program' \in ZeroSession
        /\ m.of.is # "id"
    BY <1>1, <2>1, <2>4 DEF Honest, Grows
  <2> HIDE DEF m, Message
  <2>6. /\ Len(wire') = Len(wire) + 1 /\ Len(wire) \in Nat
        /\ wire'[Len(wire) + 1] = m
        /\ \A n \in 1..Len(wire) : wire'[n] = wire[n] /\ wire[n].to \in Tab
    BY <1>1, <2>2, <2>3
  <2>7. \A n \in 1..Len(wire') : n \in 1..Len(wire) \/ n = Len(wire) + 1
    BY <2>6
  <2>8. \A n \in 1..Len(wire') : program' = "redis" /\ wire'[n].of.is # "id"
    BY <1>1, <2>5, <2>6, <2>7 DEF HeldInv, WireIsHeld, Grows
  <2>9. ASSUME ~crossed', NEW n \in 1..Len(wire)
        PROVE  /\ pc[wire[n].to] = "waiting" /\ wire[n].to # t
               /\ pc'[wire[n].to] = "waiting"
               /\ Honest(req[wire[n].to].id, wire[n].of)'
               /\ \A k \in 1..Len(wire) : k # n => wire[k].to # wire[n].to
    <3>1. /\ pc[wire[n].to] = "waiting"
          /\ Honest(req[wire[n].to].id, wire[n].of)
          /\ \A k \in 1..Len(wire) : k # n => wire[k].to # wire[n].to
      BY <1>1, <2>9 DEF HeldInv, WireIsHeld, Grows
    <3>2. wire[n].to # t /\ pc'[wire[n].to] = "waiting"
      BY <1>1, <2>6, <3>1
    <3>3. /\ wire'[n] = wire[n]
          /\ Honest(req[wire[n].to].id, wire[n].of)'
      BY <1>1, <2>6, <3>1 DEF Honest, Grows
    <3> QED
      BY <3>1, <3>2, <3>3
  <2>10. ASSUME ~crossed', NEW n \in 1..Len(wire')
         PROVE  /\ pc'[wire'[n].to] = "waiting"
                /\ Honest(req[wire[n].to].id, wire[n].of)'
                /\ \A k \in 1..Len(wire') : k # n => wire'[k].to # wire'[n].to
    <3>1. CASE n \in 1..Len(wire)
      BY <2>1, <2>6, <2>7, <2>9, <2>10, <3>1
    <3>2. CASE n = Len(wire) + 1
      <4>1. wire'[n] = m /\ pc'[t] = "waiting"
        BY <1>1, <2>6, <3>2
      <4>2. Honest(req[wire[n].to].id, wire[n].of)'
        BY <2>1, <2>5, <4>1 DEF Honest
      <4>3. \A k \in 1..Len(wire') : k # n => wire'[k].to # t
        BY <2>6, <2>7, <2>9, <2>10, <3>2
      <4> QED
        BY <2>1, <4>1, <4>2, <4>3
    <3> QED
      BY <2>7, <3>1, <3>2
  <2> QED
    BY <2>8, <2>10 DEF WireIsHeld
<1> QED
  BY <1>1, <1>2, <1>4, <1>5, CookiesStay DEF HeldInv

LEMMA ReadReplyHeld ==
  ASSUME SessionTypes, HeldInv, Grows, NEW t \in Tab, ReadReply(t)
  PROVE  HeldInv'
<1> DEFINE Message == [to : Tab, of : Reply]
<1>1. /\ pc[t] = "waiting" /\ wire # << >>
      /\ pc' = [pc EXCEPT ![t] = "replied"] /\ pc \in [Tab -> Place]
      /\ reply' = [reply EXCEPT ![t] = Head(wire).of] /\ reply \in [Tab -> Reply]
      /\ wire' = Tail(wire) /\ crossed' = (crossed \/ Head(wire).to # t)
      /\ UNCHANGED <<program, store, req, jar, holders>>
  BY DEF ReadReply, Returns, Goto, process, SessionTypes
<1>2. wire \in Seq(Message) /\ \A m \in Message : m.to \in Tab
  BY DEF SessionTypes
<1> HIDE DEF Message
<1>3. /\ Len(wire) \in Nat /\ Len(wire) > 0 /\ Len(wire') = Len(wire) - 1
      /\ Head(wire) = wire[1]
      /\ \A n \in 1..Len(wire') : n + 1 \in 1..Len(wire) /\ wire'[n] = wire[n + 1]
      /\ \A n \in 1..Len(wire) : wire[n].to \in Tab
  BY <1>1, <1>2
<1>4. /\ wire[1].of.is # "id"
      /\ ~crossed' => wire[1].to = t /\ Honest(req[t].id, wire[1].of)
  <2>1. 1 \in 1..Len(wire)
    BY <1>3
  <2> QED
    BY <1>1, <1>3, <2>1 DEF HeldInv, WireIsHeld
<1>5. RequestIsHeld(t)' /\ ReplyIsHeld(t)'
  <2>1. Held(req[t].id, t)'
    BY <1>1 DEF HeldInv, RequestsAreHeld, RequestIsHeld, Held
  <2>2. reply'[t] = wire[1].of /\ pc'[t] = "replied"
    BY <1>1, <1>3
  <2>3. crossed' \/ Honest(req[t].id, reply[t])'
    BY <1>1, <1>4, <2>2 DEF Honest
  <2> QED
    BY <1>4, <2>1, <2>2, <2>3 DEF RequestIsHeld, ReplyIsHeld
<1>6. RequestsAreHeld' /\ RepliesAreHeld'
  BY <1>1, <1>5, OneTab DEF HeldInv
<1>7. WireIsHeld'
  <2>1. \A n \in 1..Len(wire') : program' = "redis" /\ wire'[n].of.is # "id"
    BY <1>1, <1>3 DEF HeldInv, WireIsHeld
  <2>2. ASSUME ~crossed', NEW n \in 1..Len(wire')
        PROVE  /\ pc'[wire'[n].to] = "waiting"
               /\ Honest(req[wire[n].to].id, wire[n].of)'
               /\ \A k \in 1..Len(wire') : k # n => wire'[k].to # wire'[n].to
    <3>0. ~crossed
      BY <1>1, <2>2
    <3>1. 1 \in 1..Len(wire) /\ n + 1 \in 1..Len(wire) /\ n + 1 # 1
      BY <1>3
    <3>2. /\ pc[wire[n + 1].to] = "waiting"
          /\ Honest(req[wire[n + 1].to].id, wire[n + 1].of)
          /\ \A k \in 1..Len(wire) : k # n + 1 => wire[k].to # wire[n + 1].to
      BY <3>0, <3>1 DEF HeldInv, WireIsHeld
    <3>3. wire[n + 1].to # t
      BY <1>4, <2>2, <3>1, <3>2
    <3>4. pc'[wire'[n].to] = "waiting"
      BY <1>1, <1>3, <3>2, <3>3
    <3>5. Honest(req[wire[n].to].id, wire[n].of)'
      BY <1>1, <1>3, <3>2 DEF Honest
    <3>6. ASSUME NEW k \in 1..Len(wire'), k # n
          PROVE  wire'[k].to # wire'[n].to
      <4>1. k + 1 \in 1..Len(wire) /\ k + 1 # n + 1
        BY <1>3, <3>6
      <4> QED
        BY <1>3, <3>2, <4>1
    <3> QED
      BY <3>4, <3>5, <3>6
  <2> QED
    BY <2>1, <2>2 DEF WireIsHeld
<1> QED
  BY <1>1, <1>6, <1>7, CookiesStay, StoreStays DEF HeldInv

(* The runtime ends a process that has no connection to redis.             *)
LEMMA CaughtHeld ==
  ASSUME SessionTypes, WritersOfService1, HeldInv, Grows, NEW t \in Tab,
         Caught(t)
  PROVE  HeldInv'
<1>1. /\ \A s \in Tab : pc'[s] = "idle"
      /\ store' = << >> /\ UNCHANGED <<wire, jar, crossed>>
  BY DEF Caught, Die
<1>2. PICK s \in Tab : pc[s] = "writing"
  BY DEF Caught, Writers
<1>3. program # "redis"
  BY <1>2 DEF WritersOfService1, Unlocked
<1>4. RequestsAreHeld' /\ RepliesAreHeld'
  BY <1>1, TabIsIdle DEF RequestsAreHeld, RepliesAreHeld
<1> QED
  BY <1>1, <1>3, <1>4, NoStore, CookiesStay, WireStays DEF HeldInv

LEMMA AskHeld ==
  ASSUME SessionTypes, HeldInv, Grows, NEW t \in Tab, NEW op, Ask(t, op)
  PROVE  HeldInv'
<1>1. /\ UNCHANGED <<store, jar, wire, crossed, reply>> /\ pc[t] = "idle"
      /\ pc \in [Tab -> Place] /\ req \in [Tab -> Request]
  BY DEF Ask, history, SessionTypes
<1>2. CASE UNCHANGED <<pc, req>>
  <2>1. RequestsAreHeld' /\ RepliesAreHeld'
    BY <1>1, <1>2, TabStays DEF HeldInv, RequestsAreHeld, RepliesAreHeld
  <2> QED
    BY <1>1, <1>2, <2>1, StoreStays, CookiesStay, WireStays DEF HeldInv
<1>3. CASE ~UNCHANGED <<pc, req>>
  <2>1. /\ op = "create" \/ jar[t] # 0
        /\ pc' = [pc EXCEPT ![t] = "asked"]
        /\ req' = [req EXCEPT ![t] =
                     [op |-> op, id |-> IF op = "create" THEN 0 ELSE jar[t]]]
    BY <1>3 DEF Ask, Goto
  <2>2. /\ pc'[t] = "asked" /\ req'[t].op = op
        /\ op # "create" => jar[t] # 0 /\ req'[t].id = jar[t]
    BY <1>1, <2>1
  <2>3. op # "create" => Held(req[t].id, t)'
    BY <2>2 DEF HeldInv, CookiesAreHeld, Held, Grows
  <2>4. RequestIsHeld(t)' /\ ReplyIsHeld(t)'
    BY <2>2, <2>3 DEF RequestIsHeld, ReplyIsHeld
  <2>5. /\ \A s \in Tab \ {t} :
             pc'[s] = pc[s] /\ req'[s] = req[s] /\ reply'[s] = reply[s]
    BY <1>1, <2>1
  <2>6. RequestsAreHeld' /\ RepliesAreHeld'
    BY <2>4, <2>5, OneTab DEF HeldInv
  <2>7. WireIsHeld'
    BY <1>1, <2>5, WireStays DEF HeldInv
  <2> QED
    BY <1>1, <2>6, <2>7, StoreStays, CookiesStay DEF HeldInv
<1> QED
  BY <1>2, <1>3

LEMMA DrawHeld ==
  ASSUME SessionTypes, HeldInv, Grows, NEW t \in Tab, Draw(t)
  PROVE  HeldInv'
<1>1. /\ UNCHANGED <<store, jar, wire, crossed, reply>> /\ pc[t] = "asked"
      /\ pc \in [Tab -> Place] /\ req \in [Tab -> Request]
      /\ pc' = [pc EXCEPT ![t] = "drawn"]
      /\ req' = [req EXCEPT ![t].id = drawn + 1] /\ req[t].op = "create"
  BY DEF Draw, Goto, history, SessionTypes
<1>2. pc'[t] = "drawn" /\ req'[t].op = "create"
  BY <1>1 DEF Request
<1>3. RequestIsHeld(t)' /\ ReplyIsHeld(t)'
  BY <1>2 DEF RequestIsHeld, ReplyIsHeld
<1>4. RequestsAreHeld' /\ RepliesAreHeld'
  BY <1>1, <1>3, OneTab DEF HeldInv
<1>5. WireIsHeld'
  BY <1>1, WireStays DEF HeldInv
<1> QED
  BY <1>1, <1>4, <1>5, StoreStays, CookiesStay DEF HeldInv

(* The operations of the managers that lock, and service1's.               *)
LEMMA ReturnsHeld ==
  ASSUME SessionTypes, HeldInv, Grows, NEW t \in Tab, pc[t] # "idle",
         pc[t] # "waiting",
         req[t].op = "create" => req[t].id \in Id /\ Holds(t),
         Returns(t, Using(t).reply), UNCHANGED <<req, jar, wire, crossed>>,
         store' = Using(t).store \/ UNCHANGED store
  PROVE  HeldInv'
<1>1. /\ pc \in [Tab -> Place] /\ pc' = [pc EXCEPT ![t] = "replied"]
      /\ reply' = [reply EXCEPT ![t] = Using(t).reply]
  BY DEF Returns, Goto, SessionTypes
<1>2. RequestIsHeld(t)' /\ ReplyIsHeld(t)'
  BY ReturnIsHeld DEF HeldInv, RequestsAreHeld
<1>3. RequestsAreHeld' /\ RepliesAreHeld'
  BY <1>1, <1>2, OneTab DEF HeldInv
<1>4. StoreIsHeld'
  BY StoreStaysHeld, StoreStays DEF HeldInv
<1>5. WireIsHeld'
  BY <1>1, WireStays DEF HeldInv
<1> QED
  BY <1>3, <1>4, <1>5, CookiesStay DEF HeldInv

LEMMA GoesHeld ==
  ASSUME SessionTypes, WritersOfService1, HeldInv, Grows, NEW t \in Tab, Goes(t)
  PROVE  HeldInv'
<1> USE DEF process, history
<1>1. ASSUME CreateLocked(t) PROVE HeldInv'
  BY <1>1, ReturnsHeld DEF CreateLocked, SessionTypes
<1>2. ASSUME CreateUnlocked(t), ~Caught(t) PROVE HeldInv'
  <2>1. /\ UNCHANGED <<store, jar, wire, crossed, reply, req>> /\ pc[t] = "drawn"
        /\ pc \in [Tab -> Place] /\ pc' = [pc EXCEPT ![t] = "writing"]
        /\ req[t].op = "create"
    BY <1>2 DEF CreateUnlocked, Goto, SessionTypes
  <2>2. RequestIsHeld(t)' /\ ReplyIsHeld(t)'
    BY <2>1 DEF RequestIsHeld, ReplyIsHeld
  <2>3. RequestsAreHeld' /\ RepliesAreHeld'
    BY <2>1, <2>2, OneTab DEF HeldInv
  <2>4. WireIsHeld'
    BY <2>1, WireStays DEF HeldInv
  <2> QED
    BY <2>1, <2>3, <2>4, StoreStays, CookiesStay DEF HeldInv
<1>3. ASSUME Written(t), ~Caught(t) PROVE HeldInv'
  BY <1>3, ReturnsHeld DEF Written, SessionTypes
<1>4. ASSUME Serve(t), ~Caught(t) PROVE HeldInv'
  BY <1>4, ReturnsHeld DEF Serve
<1>5. ASSUME Refused(t) PROVE HeldInv'
  <2>1. /\ UNCHANGED <<store, jar, wire, crossed, req>>
        /\ pc[t] \in {"asked", "drawn"}
        /\ pc \in [Tab -> Place] /\ pc' = [pc EXCEPT ![t] = "replied"]
        /\ reply \in [Tab -> Reply] /\ reply' = [reply EXCEPT ![t] = Error]
    BY <1>5 DEF Refused, Returns, Goto, SessionTypes
  <2>2. RequestIsHeld(t)' /\ ReplyIsHeld(t)'
    BY <2>1, TabFails DEF HeldInv, RequestsAreHeld
  <2>3. RequestsAreHeld' /\ RepliesAreHeld'
    BY <2>1, <2>2, OneTab DEF HeldInv
  <2>4. WireIsHeld'
    BY <2>1, WireStays DEF HeldInv
  <2> QED
    BY <2>1, <2>3, <2>4, StoreStays, CookiesStay DEF HeldInv
<1> QED
  BY <1>1, <1>2, <1>3, <1>4, <1>5, DrawHeld, SendCommandHeld, ReadReplyHeld,
     AnswerHeld, CaughtHeld DEF Goes

LEMMA OthersHeld ==
  ASSUME SessionTypes, OrphanTypes, HeldInv, Grows,
         \/ \E t \in Tab : ClientGone(t)
         \/ Break \/ Stop \/ Start
         \/ \E i \in DOMAIN store : Expire(i)
         \/ \E o \in orphans : OrphanDraw(o) \/ OrphanWrite(o)
         \/ UNCHANGED vars
  PROVE  HeldInv'
<1> USE DEF history
<1>1. ASSUME NEW t \in Tab, ClientGone(t) PROVE HeldInv'
  <2>1. CallsFail({t}) /\ Calling(t) /\ program # "redis"
        /\ UNCHANGED <<req, store, jar, wire, crossed>>
    BY <1>1 DEF ClientGone
  <2>2. RequestsAreHeld' /\ RepliesAreHeld'
    BY <2>1, CallsFailHeld DEF HeldInv
  <2> QED
    BY <2>1, <2>2, StoreStays, CookiesStay, WireStays DEF HeldInv
<1>2. CASE Break
  <2>1. CallsFail({t \in Tab : Calling(t)}) /\ wire' = << >>
        /\ UNCHANGED <<req, store, jar>>
    BY <1>2 DEF Break
  <2>2. RequestsAreHeld' /\ RepliesAreHeld'
    BY <2>1, CallsFailHeld DEF HeldInv
  <2> QED
    BY <2>1, <2>2, StoreStays, CookiesStay, NoWire DEF HeldInv
<1>3. CASE Stop
  <2>1. /\ wire' = << >> /\ UNCHANGED jar
        /\ store' = << >> \/ UNCHANGED store
        /\ \/ pc' = [t \in Tab |-> "idle"]
           \/ CallsFail({t \in Tab : Calling(t)}) /\ UNCHANGED req
    BY <1>3 DEF Stop
  <2>2. RequestsAreHeld' /\ RepliesAreHeld'
    <3>1. CASE pc' = [t \in Tab |-> "idle"]
      BY <3>1, TabIsIdle DEF RequestsAreHeld, RepliesAreHeld
    <3>2. CASE CallsFail({t \in Tab : Calling(t)}) /\ UNCHANGED req
      BY <3>2, CallsFailHeld DEF HeldInv
    <3> QED
      BY <2>1, <3>1, <3>2
  <2> QED
    BY <2>1, <2>2, StoreStays, NoStore, CookiesStay, NoWire DEF HeldInv
<1>4. CASE UNCHANGED <<pc, req, reply, store, jar, wire, crossed>>
  <2>1. RequestsAreHeld' /\ RepliesAreHeld'
    BY <1>4, TabStays DEF HeldInv, RequestsAreHeld, RepliesAreHeld
  <2> QED
    BY <1>4, <2>1, StoreStays, CookiesStay, WireStays DEF HeldInv
<1>5. ASSUME NEW i \in DOMAIN store, Expire(i) PROVE HeldInv'
  <2>1. UNCHANGED <<pc, req, reply, jar, wire, crossed>>
    BY <1>5 DEF Expire
  <2>2. StoreIsHeld'
    BY <1>5 DEF Expire, Without, Restrict, HeldInv, StoreIsHeld, Grows
  <2>3. RequestsAreHeld' /\ RepliesAreHeld'
    BY <2>1, TabStays DEF HeldInv, RequestsAreHeld, RepliesAreHeld
  <2> QED
    BY <2>1, <2>2, <2>3, CookiesStay, WireStays DEF HeldInv
<1>6. Start \/ (\E o \in orphans : OrphanDraw(o)) \/ UNCHANGED vars =>
        UNCHANGED <<pc, req, reply, store, jar, wire, crossed>>
  BY DEF Start, OrphanDraw, vars
<1>7. ASSUME NEW o \in orphans, OrphanWrite(o) PROVE HeldInv'
  <2>1. UNCHANGED <<pc, req, reply, jar, wire, crossed>>
    BY <1>7 DEF OrphanWrite
  <2>2. StoreIsHeld'
    BY <1>7, OrphanWrites DEF With, Without, Restrict, HeldInv, StoreIsHeld, Grows
  <2>3. RequestsAreHeld' /\ RepliesAreHeld'
    BY <2>1, TabStays DEF HeldInv, RequestsAreHeld, RepliesAreHeld
  <2> QED
    BY <2>1, <2>2, <2>3, CookiesStay, WireStays DEF HeldInv
<1> QED
  BY <1>1, <1>2, <1>3, <1>4, <1>5, <1>6, <1>7

LEMMA HeldInvariant == Spec => [](CrashInv /\ HeldInv)
<1>1. Init => HeldInv
  BY DEF Init, HeldInv, StoreIsHeld, CookiesAreHeld, RequestsAreHeld,
     RequestIsHeld, RepliesAreHeld, ReplyIsHeld, WireIsHeld
<1>2. CrashInv /\ HeldInv /\ [Next]_vars => HeldInv'
  BY NextGrows, AskHeld, GoesHeld, OthersHeld DEF CrashInv, Next
<1> QED
  BY <1>1, <1>2, CrashInvariant, PTL DEF Spec

----------------------------------------------------------------------------
(* While nothing has happened to the process an id is drawn once, so it is *)
(* given for one login.                                                    *)
OthersStay(t) ==
  \A s \in Tab \ {t} : pc'[s] = pc[s] /\ req'[s] = req[s]

(* The steps a tab takes in such a process: it draws an id, it begins to   *)
(* write, the id is given to it, or its request has nothing to do with ids.*)
Draws(t) ==
  /\ drawn' = drawn + 1 /\ req'[t].id = drawn + 1
  /\ UNCHANGED holders
Writes(t) ==
  Creating(t) /\ req'[t].id = req[t].id /\ UNCHANGED <<drawn, holders>>
IsGiven(t) ==
  Creating(t) /\ ~Creating(t)' /\ Holds(t) /\ UNCHANGED drawn
IsElsewhere(t) ==
  ~Creating(t)' /\ UNCHANGED <<drawn, holders>>

TabSteps(t) ==
  OthersStay(t) /\ (Draws(t) \/ Writes(t) \/ IsGiven(t) \/ IsElsewhere(t))

LEMMA QuietStep ==
  ASSUME SessionTypes, OrphanTypes, [Next]_vars, Quiet, up, Quiet'
  PROVE  /\ up'
         /\ UNCHANGED vars \/ \E t \in Tab : TabSteps(t)
<1> USE DEF process, history, Goto, Returns, TabSteps, OthersStay
<1>1. pc \in [Tab -> Place] /\ req \in [Tab -> Request] /\ faults \in Nat
  BY DEF SessionTypes
<1>2. ASSUME NEW t, Caught(t) PROVE FALSE
  BY <1>2 DEF Caught, Quiet
<1>3. ASSUME Fault PROVE FALSE
  BY <1>1, <1>3 DEF Fault, Quiet
<1>4. ASSUME NEW t \in Tab, NEW op, Ask(t, op) PROVE up' /\ TabSteps(t)
  <2>1. /\ UNCHANGED <<up, drawn, holders>> /\ pc[t] = "idle"
        /\ \/ UNCHANGED <<pc, req>>
           \/ /\ pc' = [pc EXCEPT ![t] = "asked"]
              /\ req' = [req EXCEPT ![t] =
                   [op |-> op, id |-> IF op = "create" THEN 0 ELSE jar[t]]]
    BY <1>4 DEF Ask
  <2>2. IsElsewhere(t)
    BY <1>1, <2>1 DEF IsElsewhere, Creating
  <2>3. OthersStay(t)
    BY <1>1, <2>1
  <2> QED
    BY <2>1, <2>2, <2>3
<1>5. ASSUME NEW t \in Tab, Draw(t) PROVE up' /\ TabSteps(t)
  <2>1. Draws(t)
    BY <1>1, <1>5 DEF Draw, Draws, Request
  <2> QED
    BY <1>1, <1>5, <2>1 DEF Draw
<1>6. ASSUME NEW t \in Tab, CreateLocked(t) PROVE up' /\ TabSteps(t)
  <2>1. IsGiven(t)
    BY <1>1, <1>6 DEF CreateLocked, IsGiven, Creating
  <2> QED
    BY <1>1, <1>6, <2>1 DEF CreateLocked
<1>7. ASSUME NEW t \in Tab, CreateUnlocked(t) PROVE up' /\ TabSteps(t)
  <2>1. Writes(t)
    BY <1>1, <1>2, <1>7 DEF CreateUnlocked, Writes, Creating
  <2> QED
    BY <1>1, <1>2, <1>7, <2>1 DEF CreateUnlocked
<1>8. ASSUME NEW t \in Tab, Written(t) PROVE up' /\ TabSteps(t)
  <2>1. IsGiven(t)
    BY <1>1, <1>2, <1>8 DEF Written, IsGiven, Creating
  <2> QED
    BY <1>1, <1>2, <1>8, <2>1 DEF Written
<1>9. ASSUME NEW t \in Tab, Serve(t) PROVE up' /\ TabSteps(t)
  <2>1. IsElsewhere(t)
    BY <1>1, <1>2, <1>9 DEF Serve, IsElsewhere, Creating
  <2> QED
    BY <1>1, <1>2, <1>9, <2>1 DEF Serve
<1>10. ASSUME NEW t \in Tab, SendCommand(t) PROVE up' /\ TabSteps(t)
  <2>1. IsGiven(t) \/ IsElsewhere(t)
    BY <1>1, <1>10 DEF SendCommand, IsGiven, IsElsewhere, Creating
  <2> QED
    BY <1>1, <1>10, <2>1 DEF SendCommand
<1>11. ASSUME NEW t \in Tab, ReadReply(t) \/ Answer(t) \/ Refused(t)
       PROVE  up' /\ TabSteps(t)
  <2>1. IsElsewhere(t)
    BY <1>1, <1>11 DEF ReadReply, Answer, Refused, IsElsewhere, Creating
  <2> QED
    BY <1>1, <1>11, <2>1 DEF ReadReply, Answer, Refused
<1>12. ~Break /\ ~Stop /\ ~Start /\ (\A t \in Tab : ~ClientGone(t))
       /\ (\A i \in DOMAIN store : ~Expire(i)) /\ orphans = {}
  <2>1. \A o \in orphans : o.n \in 1..0
    BY DEF OrphanTypes, Quiet
  <2>2. orphans = {}
    BY <2>1
  <2>3. ~Start
    BY DEF Start
  <2> QED
    BY <1>3, <2>2, <2>3 DEF Break, Stop, ClientGone, Expire
<1> QED
  BY <1>4, <1>5, <1>6, <1>7, <1>8, <1>9, <1>10, <1>11, <1>12
  DEF Next, Goes, vars

LEMMA IdsGivenOnceNext ==
  ASSUME SessionTypes, IdsGivenOnce, NEW t \in Tab, TabSteps(t)
  PROVE  IdsGivenOnce'
<1>1. /\ drawn \in Nat /\ \A h \in holders : h[1] \in Nat
      /\ \A s \in Tab : req[s].id \in Nat
  BY SessionsAssumption DEF SessionTypes, Id, Request
<1>2. \A s \in Tab \ {t} :
        (Creating(s)' <=> Creating(s)) /\ req'[s].id = req[s].id
  BY DEF TabSteps, OthersStay, Creating
<1> USE DEF IdsGivenOnce
<1>3. CASE IsElsewhere(t)
  BY <1>2, <1>3 DEF IsElsewhere
<1>4. CASE Writes(t)
  BY <1>2, <1>4 DEF Writes
<1>5. CASE Draws(t)
  <2>1. \A h \in holders' : h \in holders /\ h[1] <= drawn
    BY <1>5 DEF Draws
  <2>2. \A h \in holders' : h[1] <= drawn' /\ h[1] # drawn + 1
    BY <1>1, <1>5, <2>1 DEF Draws
  <2>3. \A s \in Tab \ {t} : Creating(s)' =>
          /\ req'[s].id <= drawn /\ req'[s].id # drawn + 1
          /\ req'[s].id <= drawn'
    BY <1>1, <1>2, <1>5 DEF Draws
  <2>4. req'[t].id = drawn + 1 /\ req'[t].id <= drawn'
    BY <1>1, <1>5 DEF Draws
  <2> QED
    BY <1>2, <2>1, <2>2, <2>3, <2>4
<1>6. CASE IsGiven(t)
  <2>1. /\ holders' = holders \cup {<<req[t].id, Owner[t]>>}
        /\ UNCHANGED drawn /\ Creating(t) /\ ~Creating(t)'
    BY <1>6 DEF IsGiven, Holds
  <2>2. \A h \in holders' : h \in holders \/ h[1] = req[t].id
    BY <2>1
  <2>3. \A h \in holders' : h[1] = req[t].id => h = <<req[t].id, Owner[t]>>
    BY <2>1
  <2> QED
    BY <1>2, <2>1, <2>2, <2>3
<1> QED
  BY <1>3, <1>4, <1>5, <1>6 DEF TabSteps

LEMMA IdsNext ==
  SessionTypes /\ OrphanTypes /\ IdsAreNew /\ [Next]_vars => IdsAreNew'
<1> SUFFICES ASSUME SessionTypes, OrphanTypes, IdsAreNew, [Next]_vars, Quiet'
             PROVE  up' /\ IdsGivenOnce'
  BY DEF IdsAreNew
<1>1. Quiet
  <2>0. ASSUME NEW t \in Tab, Goes(t)
        PROVE  UNCHANGED faults /\ (crash' = {} => crash = {})
    BY <2>0 DEF Goes, process, history, Draw, CreateLocked, CreateUnlocked,
       Written, Serve, SendCommand, ReadReply, Answer, Refused, Caught, Die
  <2>1. UNCHANGED faults \/ Fault
    BY <2>0 DEF Next, vars, process, history, Ask, ClientGone, Break, Stop,
       Start, Expire, OrphanDraw, OrphanWrite
  <2>2. faults' = 0 => faults = 0
    BY <2>1 DEF SessionTypes, Fault
  <2>3. crash' = {} => crash = {}
    BY <2>0 DEF Next, vars, process, history, Ask, ClientGone, Break, Stop,
       Start, Expire, OrphanDraw, OrphanWrite
  <2> QED
    BY <2>2, <2>3 DEF Quiet
<1>2. up /\ IdsGivenOnce
  BY <1>1 DEF IdsAreNew
<1>3. up' /\ (UNCHANGED vars \/ \E t \in Tab : TabSteps(t))
  BY <1>1, <1>2, QuietStep
<1>4. CASE UNCHANGED vars
  BY <1>2, <1>3, <1>4 DEF vars, Creating, IdsGivenOnce
<1> QED
  BY <1>2, <1>3, <1>4, IdsGivenOnceNext

LEMMA IdsInvariant == Spec => [](SessionTypes /\ OrphanTypes /\ IdsAreNew)
<1>1. Init => IdsAreNew
  BY DEF Init, IdsAreNew, IdsGivenOnce, Creating
<1> QED
  BY <1>1, IdsNext, TypesInit, TypesNext, OrphansNext, PTL DEF Spec

----------------------------------------------------------------------------
LEMMA WelcomesNext ==
  ASSUME CrashInv, HeldInv, WelcomesAreHeld, [Next]_vars
  PROVE  WelcomesAreHeld'
<1> DEFINE Fine(login, t) ==
       \/ program = "balanced"
       \/ login = NoLogin /\ program \in ZeroSession
       \/ crossed'
       \/ \E i \in Id : {<<i, Owner[t]>>, <<i, login>>} \subseteq holders'
<1>1. Grows /\ SessionTypes
  BY NextGrows DEF CrashInv
<1>2. SUFFICES ASSUME NEW t \in Tab, answer'[t].is = "welcome"
               PROVE  Fine(answer'[t].login, t)
  BY <1>1 DEF WelcomesAreHeld, Grows
<1>3. CASE answer'[t] = answer[t]
  BY <1>1, <1>2, <1>3 DEF WelcomesAreHeld, Grows
<1>4. CASE Answer(t)
  <2> DEFINE op == req[t].op
             r == reply[t]
             i == req[t].id
  <2>1. /\ pc[t] = "replied" /\ op \in Ops /\ program \in Programs
        /\ answer'[t] = Page(t, op, r) /\ i \in 0..MaxId
        /\ holders \subseteq Id \X User
    BY <1>1, <1>4 DEF Answer, SessionTypes, Request
  <2>2. /\ crossed \/ Honest(i, r)
        /\ r.is = "session" => Held(i, t)
    BY <2>1 DEF HeldInv, RepliesAreHeld, ReplyIsHeld
  <2> HIDE DEF op, r, i
  <2>3. r.is = "session" /\ answer'[t].login = r.login
    <3>1. Page(t, op, r).is = "welcome" =>
            r.is = "session" /\ Page(t, op, r).login = r.login
      <4>1. op \in Ops /\ program \in Programs
        BY <2>1
      <4> QED
        BY <4>1, PageShows
    <3> QED
      BY <1>2, <2>1, <3>1
  <2>4. i \in Id
    BY <2>1, <2>2, <2>3 DEF Held
  <2> QED
    BY <1>1, <2>2, <2>3, <2>4 DEF Honest, Held, Grows
<1>5. ASSUME NEW op \in Ops, Ask(t, op) PROVE answer'[t] = answer[t]
  <2>1. /\ DOMAIN answer = Tab /\ program \in Programs
    BY <1>1 DEF SessionTypes
  <2>2. PICK a \in AnsweredAtOnce(t, op) \cup {None} :
          answer' = [answer EXCEPT ![t] = a]
    BY <1>5 DEF Ask
  <2>3. a.is # "welcome"
    <3>1. CASE a \in {None, Status401}
      BY <3>1 DEF None, Status401
    <3>2. ASSUME NEW r, r.is # "session"
          PROVE  Page(t, op, r).is # "welcome"
      BY <2>1, <3>2, PageShows
    <3>3. Nil.is # "session" /\ Done.is # "session"
      BY DEF Nil, Done
    <3>4. a \in {None, Status401, Page(t, op, Nil), Page(t, op, Done)}
      BY <2>2 DEF AnsweredAtOnce
    <3> QED
      BY <3>1, <3>2, <3>3, <3>4
  <2> QED
    BY <1>2, <2>1, <2>2, <2>3
<1>6. \/ answer'[t] = answer[t]
      \/ \E op \in Ops : Ask(t, op)
      \/ Answer(t)
      \/ answer'[t] = Aborted
  <2> USE DEF history, process
  <2>1. DOMAIN answer = Tab
    BY <1>1 DEF SessionTypes
  <2>2. ASSUME NEW s \in Tab, NEW op \in Ops, Ask(s, op), s # t
        PROVE  answer'[t] = answer[t]
    BY <2>1, <2>2 DEF Ask
  <2>3. ASSUME NEW s \in Tab, Answer(s), s # t
        PROVE  answer'[t] = answer[t]
    BY <2>1, <2>3 DEF Answer
  <2>4. ASSUME NEW s \in Tab, Goes(s), ~Answer(s)
        PROVE  answer'[t] = answer[t] \/ answer'[t] = Aborted
    <3>1. CASE Caught(s)
      BY <3>1 DEF Caught, Die
    <3>2. CASE ~Caught(s)
      BY <2>4, <3>2 DEF Goes, Draw, CreateLocked, CreateUnlocked, Written,
         Serve, SendCommand, ReadReply, Refused
    <3> QED
      BY <3>1, <3>2
  <2>5. CASE Stop
    BY <2>5 DEF Stop
  <2>6. CASE \/ \E s \in Tab : ClientGone(s)
             \/ Break \/ Start \/ UNCHANGED vars
             \/ \E i \in DOMAIN store : Expire(i)
             \/ \E o \in orphans : OrphanDraw(o) \/ OrphanWrite(o)
    BY <2>6 DEF ClientGone, Break, Start, Expire, OrphanDraw, OrphanWrite, vars
  <2> QED
    BY <2>2, <2>3, <2>4, <2>5, <2>6 DEF Next, Ops
<1>7. Aborted.is # "welcome"
  BY DEF Aborted
<1> QED
  BY <1>2, <1>3, <1>4, <1>5, <1>6, <1>7

LEMMA WelcomesInvariant == Spec => []WelcomesAreHeld
<1>1. Init => WelcomesAreHeld
  <2> SUFFICES ASSUME Init, NEW t \in Tab PROVE answer[t].is # "welcome"
    BY DEF WelcomesAreHeld
  <2> QED
    BY DEF Init, None
<1>2. CrashInv /\ HeldInv /\ WelcomesAreHeld /\ [Next]_vars => WelcomesAreHeld'
  BY WelcomesNext
<1> QED
  BY <1>1, <1>2, HeldInvariant, PTL DEF Spec

(* A page welcomes its visitor by the login he gave when he was handed the *)
(* id; the exceptions are the four of the property, and the last of them   *)
(* is shown by an id that was given for two logins.                        *)
THEOREM WelcomeIsOwnCorrect == Spec => []WelcomeIsOwn
<1>1. SessionTypes /\ IdsAreNew /\ WelcomesAreHeld => WelcomeIsOwn
  <2> SUFFICES ASSUME SessionTypes, IdsAreNew, WelcomesAreHeld,
                      NEW t \in Tab, answer[t].is = "welcome",
                      NEW i \in Id, <<i, Owner[t]>> \in holders,
                      <<i, answer[t].login>> \in holders
               PROVE  answer[t].login = Owner[t] \/ faults > 0 \/ crash # {}
    BY DEF WelcomesAreHeld, WelcomeIsOwn
  <2>1. CASE Quiet
    BY <2>1 DEF IdsAreNew, IdsGivenOnce
  <2>2. CASE ~Quiet
    BY <2>2 DEF Quiet, SessionTypes
  <2> QED
    BY <2>1, <2>2
<1> QED
  BY <1>1, IdsInvariant, WelcomesInvariant, PTL

-----------------------------------------------------------------------------
(* StoreRefined.  What a manager has returned fits the operation, and who  *)
(* waits for a reply of redis has one on the wire.                         *)
Fits(op, i, r) ==
  \/ r = Error
  \/ op = "create" /\ r = IF program = "redis" THEN [is |-> "OK"] ELSE Made(i)
  \/ op = "check" /\ (r \in {Nil, NotFound} \/ \E u \in Login : r = Found(u))
  \/ op = "delete" /\ r = IF program = "redis" THEN [is |-> "integer"] ELSE Done

RepliesFit ==
  \A t \in Tab : pc[t] = "replied" => Fits(req[t].op, req[t].id, reply[t])

WireFits ==
  \A n \in 1..Len(wire) :
    Fits(req[wire[n].to].op, req[wire[n].to].id, wire[n].of)

WireServes ==
  \A t \in Tab : pc[t] = "waiting" => \E n \in 1..Len(wire) : wire[n].to = t

StoreIsMap == store = [i \in DOMAIN store |-> store[i]]

FitInv ==
  program # "balanced" =>
    StoreIsMap /\ (~crossed => RepliesFit /\ WireFits /\ WireServes)

(* What the operations make of the map and return.                         *)
Finds(i, r) ==
  IF i \in DOMAIN store THEN r = Found(store[i])
  ELSE r \in {Nil, NotFound} \/ (r = Found(NoLogin) /\ program \in ZeroSession)

DoesIt(op, i, u, m) ==
  /\ op = "create" => /\ m.store = With(i, u)
                      /\ m.reply = IF program = "redis" THEN [is |-> "OK"]
                                   ELSE Made(i)
  /\ op = "delete" => /\ m.store = Without(i)
                      /\ m.reply = IF program = "redis" THEN [is |-> "integer"]
                                   ELSE Done
  /\ op = "check" => m.store = store /\ Finds(i, m.reply)

LEMMA ManagerDoesIt ==
  ASSUME program \in Programs, program # "balanced", NEW op \in Ops,
         NEW i, NEW u
  PROVE  DoesIt(op, i, u, Manager(op, i, u))
<1> USE DEF Ops, DoesIt, Finds
<1>1. CASE /\ Manager(op, i, u) = Service1Manager(op, i, u)
           /\ program # "redis"
  BY <1>1 DEF Service1Manager
<1>2. CASE Manager(op, i, u) = GrpcManager(op, i, u) /\ program # "redis"
  BY <1>2 DEF GrpcManager
<1>3. CASE program \in ZeroSession
  <2>1. Manager(op, i, u) = NetRpcManager(op, i, u)
    BY <1>3 DEF Manager, JsonRpcManager, ZeroSession
  <2>2. program # "redis"
    BY <1>3 DEF ZeroSession
  <2> QED
    BY <1>3, <2>1, <2>2 DEF NetRpcManager
<1>4. CASE program = "redis"
  <2>1. Manager(op, i, u) = Redis(op, i, u)
    BY <1>4 DEF Manager
  <2> QED
    BY <1>4, <2>1 DEF Redis
<1>5. \/ Manager(op, i, u) = Service1Manager(op, i, u) /\ program # "redis"
      \/ Manager(op, i, u) = GrpcManager(op, i, u) /\ program # "redis"
      \/ program \in ZeroSession \cup {"redis"}
  BY DEF Programs, Scripts, OneProcess, NeverRedials, Unlocked, Manager,
     Service1LiteManager, Service2LiteManager, GrpcHandler, Grpc2Manager,
     Grpc2Interceptor, GatewayManager, GatewayService, ZeroSession
<1> QED
  BY <1>1, <1>2, <1>3, <1>4, <1>5

LEMMA UsingDoesIt ==
  ASSUME SessionTypes, NEW t \in Tab, pc[t] # "idle", program # "balanced"
  PROVE  /\ DoesIt(req[t].op, req[t].id, Owner[t], Using(t))
         /\ req[t].op \in Ops /\ Owner[t] \in User /\ req[t].id \in 0..MaxId
<1>1. /\ req[t].op \in Ops /\ Owner[t] \in User /\ req[t].id \in 0..MaxId
      /\ program \in Programs
  BY DEF SessionTypes, User, Request
<1> QED
  BY <1>1, ManagerDoesIt DEF Using

LEMMA UsingFits ==
  ASSUME SessionTypes, NEW t \in Tab, pc[t] # "idle", program # "balanced"
  PROVE  Fits(req[t].op, req[t].id, Using(t).reply)
<1>1. /\ DoesIt(req[t].op, req[t].id, Owner[t], Using(t)) /\ req[t].op \in Ops
  BY UsingDoesIt
<1>2. \A i \in DOMAIN store : store[i] \in Login
  BY DEF SessionTypes, Login
<1>3. NoLogin \in Login
  BY DEF Login
<1> QED
  BY <1>1, <1>2, <1>3 DEF DoesIt, Finds, Fits, Ops

-----------------------------------------------------------------------------
(* FitInv is an invariant.                                                 *)

(* A step of one tab that leaves the wire alone.                           *)
LEMMA TabFits ==
  ASSUME SessionTypes, WireIsHeld, RepliesFit, WireFits, WireServes, ~crossed,
         NEW t \in Tab, UNCHANGED <<program, wire>>,
         \A s \in Tab \ {t} :
           pc'[s] = pc[s] /\ req'[s] = req[s] /\ reply'[s] = reply[s],
         pc[t] # "waiting", pc'[t] # "waiting",
         pc'[t] = "replied" =>
           Fits(req'[t].op, req'[t].id, reply'[t])
  PROVE  RepliesFit' /\ WireFits' /\ WireServes'
<1> DEFINE Message == [to : Tab, of : Reply]
<1>1. wire \in Seq(Message) /\ \A m \in Message : m.to \in Tab
  BY DEF SessionTypes
<1> HIDE DEF Message
<1>2. \A n \in 1..Len(wire) : wire[n].to \in Tab \ {t}
  BY <1>1 DEF WireIsHeld
<1>3. RepliesFit'
  BY DEF RepliesFit, Fits
<1>4. WireFits'
  BY <1>2 DEF WireFits, Fits
<1>5. WireServes'
  BY DEF WireServes
<1> QED
  BY <1>3, <1>4, <1>5

(* Requests that end, or fail, and whoever waits is among them.            *)
LEMMA ManyFit ==
  ASSUME RepliesFit, NEW ts, UNCHANGED program,
         wire' = << >>,
         \A s \in Tab \ ts : /\ pc'[s] = pc[s] /\ req'[s] = req[s]
                             /\ reply'[s] = reply[s]
                             /\ pc[s] # "waiting",
         \A s \in Tab \cap ts : \/ pc'[s] = "idle"
                                \/ pc'[s] = "replied" /\ reply'[s] = Error
  PROVE  RepliesFit' /\ WireFits' /\ WireServes'
<1>1. RepliesFit'
  BY DEF RepliesFit, Fits
<1>2. Len(wire') = 0
  OBVIOUS
<1>3. WireFits'
  BY <1>2 DEF WireFits
<1>4. WireServes'
  BY DEF WireServes
<1> QED
  BY <1>1, <1>3, <1>4

LEMMA StoreStaysMap ==
  ASSUME StoreIsMap, SessionTypes, OrphanTypes, [Next]_vars,
         program # "balanced"
  PROVE  StoreIsMap'
<1>1. \A i, u : With(i, u) = [j \in DOMAIN With(i, u) |-> With(i, u)[j]]
  BY DEF With
<1>2. \A i : Without(i) = [j \in DOMAIN Without(i) |-> Without(i)[j]]
  BY DEF Without, Restrict
<1>3. CASE store' = store
  BY <1>3 DEF StoreIsMap
<1>4. CASE store' = << >>
  BY <1>4 DEF StoreIsMap
<1>5. ASSUME NEW i, store' = Without(i)
      PROVE  StoreIsMap'
  BY <1>2, <1>5 DEF StoreIsMap
<1>6. ASSUME NEW t \in Tab, store' = Using(t).store, pc[t] # "idle"
      PROVE  StoreIsMap'
  <2>1. /\ DoesIt(req[t].op, req[t].id, Owner[t], Using(t))
        /\ req[t].op \in Ops
    BY <1>6, UsingDoesIt
  <2> QED
    BY <1>1, <1>2, <1>6, <2>1 DEF StoreIsMap, DoesIt, Ops
<1>7. ASSUME NEW t \in Tab, Goes(t)
      PROVE  \/ store' = store \/ store' = << >>
             \/ store' = Using(t).store /\ pc[t] # "idle"
  <2>1. CASE Caught(t)
    BY <2>1 DEF Caught, Die
  <2>2. CASE ~Caught(t)
    BY <1>7, <2>2 DEF Goes, Draw, CreateLocked, CreateUnlocked, Written,
       Serve, SendCommand, ReadReply, Answer, Refused
  <2> QED
    BY <2>1, <2>2
<1>8. \/ store' = store \/ store' = << >>
      \/ \E i : store' = Without(i)
      \/ \E t \in Tab : Goes(t)
      \/ \E o \in orphans : OrphanWrite(o)
  BY DEF Next, vars, Ask, ClientGone, Break, Stop, Start, Expire, OrphanDraw
<1>9. ASSUME NEW o \in orphans, OrphanWrite(o) PROVE StoreIsMap'
  BY <1>1, <1>2, <1>9, OrphanWrites DEF StoreIsMap
<1> QED
  BY <1>3, <1>4, <1>5, <1>6, <1>7, <1>8, <1>9

(* Nobody but a goroutine of redis waits.                                  *)
LEMMA WaitersAreRedis ==
  ASSUME WireIsHeld, WireServes, NEW t \in Tab, pc[t] = "waiting"
  PROVE  program = "redis"
  BY DEF WireIsHeld, WireServes

LEMMA TabStepFits ==
  ASSUME SessionTypes, WireIsHeld, RepliesFit, WireFits, WireServes, ~crossed,
         program # "balanced", NEW t \in Tab,
         \/ \E op \in Ops : Ask(t, op)
         \/ Goes(t) /\ ~Caught(t) /\ ~SendCommand(t) /\ ~ReadReply(t)
         \/ ClientGone(t)
  PROVE  RepliesFit' /\ WireFits' /\ WireServes'
<1> USE DEF process, history, Goto, Returns
<1>1. pc \in [Tab -> Place] /\ req \in [Tab -> Request]
      /\ reply \in [Tab -> Reply]
  BY DEF SessionTypes
<1>2. CASE \E op \in Ops : Ask(t, op)
  <2>1. PICK op \in Ops : Ask(t, op)
    BY <1>2
  <2>2. /\ UNCHANGED <<program, wire, reply>>
        /\ pc[t] = "idle" /\ pc'[t] \in {"idle", "asked"}
        /\ \A s \in Tab \ {t} : pc'[s] = pc[s] /\ req'[s] = req[s]
    BY <1>1, <2>1 DEF Ask
  <2> QED
    BY <2>2, TabFits
<1>3. CASE Draw(t) \/ (CreateUnlocked(t) /\ ~Caught(t))
  <2>1. /\ UNCHANGED <<program, wire, reply>>
        /\ pc[t] # "waiting" /\ pc'[t] \in {"drawn", "writing"}
        /\ \A s \in Tab \ {t} : pc'[s] = pc[s] /\ req'[s] = req[s]
    BY <1>1, <1>3 DEF Draw, CreateUnlocked
  <2> QED
    BY <2>1, TabFits
<1>4. CASE CreateLocked(t) \/ (Written(t) /\ ~Caught(t))
           \/ (Serve(t) /\ ~Caught(t))
  <2>1. /\ UNCHANGED <<program, wire, req>>
        /\ pc[t] \notin {"waiting", "idle"} /\ pc'[t] = "replied"
        /\ reply'[t] = Using(t).reply
        /\ \A s \in Tab \ {t} : pc'[s] = pc[s] /\ reply'[s] = reply[s]
    BY <1>1, <1>4 DEF CreateLocked, Written, Serve
  <2>2. Fits(req[t].op, req[t].id, Using(t).reply)
    BY <2>1, UsingFits
  <2> QED
    BY <2>1, <2>2, TabFits DEF Fits
<1>5. CASE Answer(t)
  <2>1. /\ UNCHANGED <<program, wire>>
        /\ pc[t] = "replied" /\ pc'[t] = "idle"
        /\ \A s \in Tab \ {t} : /\ pc'[s] = pc[s] /\ req'[s] = req[s]
                                /\ reply'[s] = reply[s]
    BY <1>1, <1>5 DEF Answer
  <2> QED
    BY <2>1, TabFits
<1>6. CASE Refused(t)
  <2>1. /\ UNCHANGED <<program, wire, req>>
        /\ pc[t] # "waiting" /\ pc'[t] = "replied" /\ reply'[t] = Error
        /\ \A s \in Tab \ {t} : pc'[s] = pc[s] /\ reply'[s] = reply[s]
    BY <1>1, <1>6 DEF Refused
  <2> QED
    BY <2>1, TabFits DEF Fits
<1>7. CASE ClientGone(t)
  <2>1. /\ UNCHANGED <<program, wire, req>> /\ program = "gateway"
        /\ pc'[t] = "replied" /\ reply'[t] = Error
        /\ \A s \in Tab \ {t} : pc'[s] = pc[s] /\ reply'[s] = reply[s]
    BY <1>1, <1>7 DEF ClientGone, CallsFail
  <2>2. pc[t] # "waiting"
    BY <2>1, WaitersAreRedis
  <2> QED
    BY <2>1, <2>2, TabFits DEF Fits
<1> QED
  BY <1>2, <1>3, <1>4, <1>5, <1>6, <1>7 DEF Goes

LEMMA SendCommandFits ==
  ASSUME SessionTypes, WireIsHeld, RepliesFit, WireFits, WireServes, ~crossed,
         program # "balanced", NEW t \in Tab, SendCommand(t)
  PROVE  RepliesFit' /\ WireFits' /\ WireServes'
<1> DEFINE Message == [to : Tab, of : Reply]
           m == [to |-> t, of |-> Using(t).reply]
<1>1. /\ pc \in [Tab -> Place] /\ wire \in Seq(Message)
      /\ \A e \in Message : e.to \in Tab
  BY DEF SessionTypes
<1>2. /\ wire' = Append(wire, m) /\ pc[t] \notin {"idle", "waiting"}
      /\ pc' = [pc EXCEPT ![t] = "waiting"]
      /\ UNCHANGED <<program, req, reply>>
  BY DEF SendCommand, Goto, process
<1>3. Fits(req[t].op, req[t].id, m.of) /\ m.to = t
  BY <1>2, UsingFits
<1> HIDE DEF m, Message
<1>4. /\ Len(wire) \in Nat /\ Len(wire') = Len(wire) + 1
      /\ wire'[Len(wire) + 1] = m
      /\ \A n \in 1..Len(wire) : wire'[n] = wire[n]
  BY <1>1, <1>2
<1>5. RepliesFit'
  BY <1>1, <1>2 DEF RepliesFit, Fits
<1>6. WireFits'
  <2> SUFFICES ASSUME NEW n \in 1..Len(wire')
               PROVE  Fits(req[wire'[n].to].op, req[wire'[n].to].id, wire'[n].of)
    BY <1>2 DEF WireFits, Fits
  <2>1. CASE n \in 1..Len(wire)
    BY <1>4, <2>1 DEF WireFits
  <2>2. CASE n = Len(wire) + 1
    BY <1>3, <1>4, <2>2
  <2> QED
    BY <1>4, <2>1, <2>2
<1>7. WireServes'
  <2> SUFFICES ASSUME NEW s \in Tab, pc'[s] = "waiting"
               PROVE  \E n \in 1..Len(wire') : wire'[n].to = s
    BY DEF WireServes
  <2>1. CASE s = t
    BY <1>3, <1>4, <2>1
  <2>2. CASE s # t
    <3>1. PICK n \in 1..Len(wire) : wire[n].to = s
      BY <1>1, <1>2, <2>2 DEF WireServes
    <3>2. n \in 1..Len(wire') /\ wire'[n] = wire[n]
      BY <1>4
    <3> QED
      BY <3>1, <3>2
  <2> QED
    BY <2>1, <2>2
<1> QED
  BY <1>5, <1>6, <1>7

LEMMA ReadReplyFits ==
  ASSUME SessionTypes, WireIsHeld, RepliesFit, WireFits, WireServes,
         program # "balanced", NEW t \in Tab, ReadReply(t), ~crossed'
  PROVE  RepliesFit' /\ WireFits' /\ WireServes'
<1> DEFINE Message == [to : Tab, of : Reply]
<1>1. /\ pc \in [Tab -> Place] /\ wire \in Seq(Message)
      /\ reply \in [Tab -> Reply]
  BY DEF SessionTypes
<1>2. /\ wire' = Tail(wire) /\ wire # << >>
      /\ pc[t] = "waiting" /\ pc' = [pc EXCEPT ![t] = "replied"]
      /\ reply' = [reply EXCEPT ![t] = Head(wire).of]
      /\ Head(wire).to = t
      /\ UNCHANGED <<program, req>>
  BY DEF ReadReply, Returns, Goto, process
<1> HIDE DEF Message
<1>3. /\ Len(wire) \in Nat /\ Len(wire) > 0
      /\ Len(wire') = Len(wire) - 1 /\ Head(wire) = wire[1]
      /\ \A n \in 1..Len(wire') : wire'[n] = wire[n + 1]
      /\ \A n \in 1..Len(wire') : n + 1 \in 1..Len(wire)
  BY <1>1, <1>2
<1>4. RepliesFit'
  <2>1. Fits(req[t].op, req[t].id, wire[1].of) /\ wire[1].to = t
    BY <1>2, <1>3 DEF WireFits
  <2>2. reply'[t] = wire[1].of
    BY <1>1, <1>2, <1>3
  <2> QED
    BY <1>1, <1>2, <2>1, <2>2 DEF RepliesFit, Fits
<1>5. WireFits'
  BY <1>2, <1>3 DEF WireFits, Fits
<1>6. WireServes'
  <2> SUFFICES ASSUME NEW s \in Tab, pc'[s] = "waiting"
               PROVE  \E n \in 1..Len(wire') : wire'[n].to = s
    BY DEF WireServes
  <2>1. s # t /\ pc[s] = "waiting"
    BY <1>1, <1>2
  <2>2. PICK n \in 1..Len(wire) : wire[n].to = s
    BY <2>1 DEF WireServes
  <2>3. n # 1
    BY <1>2, <1>3, <2>1, <2>2
  <2>4. n - 1 \in 1..Len(wire') /\ (n - 1) + 1 = n
    BY <1>3, <2>3
  <2> QED
    BY <1>3, <2>2, <2>4
<1> QED
  BY <1>4, <1>5, <1>6

LEMMA ManyStepFits ==
  ASSUME SessionTypes, WritersOfService1, WireIsHeld,
         RepliesFit, WireFits, WireServes,
         Break \/ Stop \/ \E t \in Tab : Caught(t)
  PROVE  RepliesFit' /\ WireFits' /\ WireServes'
<1>1. CASE Break \/ (Stop /\ program \notin OneProcess \cup {"redis"})
  <2> DEFINE ts == {t \in Tab : Calling(t)}
  <2>1. /\ UNCHANGED <<program, req>> /\ wire' = << >> /\ CallsFail(ts)
    BY <1>1 DEF Break, Stop
  <2> QED
    BY <2>1, ManyFit DEF CallsFail, Calling
<1>2. CASE Stop /\ program \in OneProcess \cup {"redis"}
  <2>1. /\ UNCHANGED program /\ wire' = << >>
        /\ pc' = [t \in Tab |-> "idle"]
    BY <1>2 DEF Stop
  <2> QED
    BY <2>1, ManyFit
<1>3. ASSUME NEW t \in Tab, Caught(t)
      PROVE  RepliesFit' /\ WireFits' /\ WireServes'
  <2>1. UNCHANGED <<program, wire>> /\ pc' = [s \in Tab |-> "idle"]
    BY <1>3 DEF Caught, Die
  <2>2. program # "redis"
    BY <1>3 DEF Caught, Writers, WritersOfService1, Unlocked
  <2>3. wire = << >>
    BY <2>2, WireIsEmpty
  <2> QED
    BY <2>1, <2>3, ManyFit
<1> QED
  BY <1>1, <1>2, <1>3

LEMMA FitNext ==
  ASSUME CrashInv, HeldInv, FitInv, [Next]_vars
  PROVE  FitInv'
<1> SUFFICES ASSUME program' # "balanced"
             PROVE  /\ StoreIsMap'
                    /\ ~crossed' => RepliesFit' /\ WireFits' /\ WireServes'
  BY DEF FitInv
<1>0. /\ SessionTypes /\ OrphanTypes /\ WritersOfService1 /\ WireIsHeld
      /\ program # "balanced" /\ StoreIsMap /\ (crossed => crossed')
  BY NextGrows DEF CrashInv, HeldInv, FitInv, Grows
<1>1. StoreIsMap'
  BY <1>0, StoreStaysMap
<1>2. ASSUME ~crossed'
      PROVE  RepliesFit' /\ WireFits' /\ WireServes'
  <2>1. ~crossed /\ RepliesFit /\ WireFits /\ WireServes
    BY <1>0, <1>2 DEF FitInv
  <2>2. ASSUME NEW t \in Tab,
               \/ \E op \in Ops : Ask(t, op)
               \/ Goes(t) \/ ClientGone(t)
        PROVE  RepliesFit' /\ WireFits' /\ WireServes'
    BY <1>0, <1>2, <2>1, <2>2, TabStepFits, SendCommandFits, ReadReplyFits,
       ManyStepFits
  <2>3. CASE Break \/ Stop
    BY <1>0, <2>1, <2>3, ManyStepFits
  <2>4. CASE UNCHANGED <<program, pc, req, reply, wire>>
    BY <2>1, <2>4 DEF RepliesFit, WireFits, WireServes, Fits
  <2>5. CASE \/ Start \/ UNCHANGED vars
             \/ \E i \in DOMAIN store : Expire(i)
             \/ \E o \in orphans : OrphanDraw(o) \/ OrphanWrite(o)
    BY <2>4, <2>5 DEF Start, Expire, OrphanDraw, OrphanWrite, vars
  <2> QED
    BY <2>2, <2>3, <2>5 DEF Next, Ops
<1> QED
  BY <1>1, <1>2

LEMMA FitInvariant == Spec => [](CrashInv /\ HeldInv /\ FitInv)
<1>1. Init => FitInv
  BY DEF Init, FitInv, StoreIsMap, RepliesFit, WireFits, WireServes
<1>2. CrashInv /\ HeldInv /\ FitInv /\ [Next]_vars => FitInv'
  BY FitNext
<1> QED
  BY <1>1, <1>2, HeldInvariant, PTL DEF Spec

-----------------------------------------------------------------------------
(* The sessions as the promise sees them.  What another tab is due and was *)
(* told does not change with a step of one.                                *)
Due == [t \in Tab |-> DueTo(t)]
Told == [t \in Tab |-> Shown(answer[t])]
Late == {LateCall(o) : o \in orphans}

Keeps(t) ==
  DueTo(t)' = DueTo(t) /\ Shown(answer'[t]) = Shown(answer[t])
OthersKeep(t) == \A s \in Tab \ {t} : Keeps(s)

LEMMA OneMoves ==
  ASSUME NEW t \in Tab, OthersKeep(t)
  PROVE  /\ Due' = [Due EXCEPT ![t] = DueTo(t)']
         /\ Told' = [Told EXCEPT ![t] = Shown(answer'[t])]
         /\ Due[t] = DueTo(t) /\ Told[t] = Shown(answer[t])
  BY DEF OthersKeep, Keeps, Due, Told

Simulates == Store!Next \/ UNCHANGED Store!storeVars

LEMMA StutterIs ==
  ASSUME \A t \in Tab : Keeps(t), store' = store, Late' = Late
  PROVE  Simulates
<1>1. Due' = Due /\ Told' = Told
  BY DEF Keeps, Due, Told
<1> QED
  BY <1>1 DEF Simulates, Store!storeVars, Due, Told, Late

LEMMA LateStays == orphans' = orphans => Late' = Late
  BY DEF Late, LateCall

LEMMA CallIs ==
  ASSUME NEW t \in Tab, orphans' = orphans, OthersKeep(t), store' = store,
         NEW call, \/ call = Store!Wants("open", 0)
                   \/ \E k \in Id : call \in {Store!Wants("look", k),
                                              Store!Wants("close", k)},
         DueTo(t) = Store!Nothing, DueTo(t)' = call,
         Shown(answer'[t]) = Store!Nothing
  PROVE  Simulates
<1>1. Store!Call(t, call)
  BY OneMoves, LateStays DEF Late, Store!Call, Due, Told
<1> QED
  BY <1>1 DEF Simulates, Store!Next

LEMMA NoKeyIs ==
  ASSUME NEW t \in Tab, orphans' = orphans, OthersKeep(t), store' = store,
         DueTo(t) = Store!Nothing, DueTo(t)' = Store!Nothing,
         Shown(answer'[t]) \in {Store!Nobody, Store!Gone, Store!Trouble}
  PROVE  Simulates
<1>1. Due' = Due
  BY OneMoves DEF Due, OthersKeep, Keeps
<1>2. Store!NoKey(t)
  BY <1>1, OneMoves, LateStays DEF Late, Store!NoKey, Due, Told
<1> QED
  BY <1>2 DEF Simulates, Store!Next

LEMMA TellIs ==
  ASSUME NEW t \in Tab, orphans' = orphans, OthersKeep(t), store' = store,
         DueTo(t) # Store!Nothing, DueTo(t)[1] # "call",
         Shown(answer'[t]) \in Store!MayBeTold(DueTo(t)),
         DueTo(t)' = Store!Nothing
  PROVE  Simulates
<1>1. Store!Tell(t)
  BY OneMoves, LateStays DEF Late, Store!Tell, Due, Told
<1> QED
  BY <1>1 DEF Simulates, Store!Next

(* The operations, for a caller who is not told of them yet.               *)
ToldStays == \A t \in Tab : Shown(answer'[t]) = Shown(answer[t])

LEMMA OpenIs ==
  ASSUME NEW t \in Tab, orphans' = orphans, OthersKeep(t), ToldStays, NEW k \in Id,
         store' = With(k, Owner[t]),
         DueTo(t) = Store!Wants("open", 0), DueTo(t)' = Store!Opened(k)
  PROVE  Simulates
<1>1. Told' = Told /\ Owner[t] \in User
  BY DEF ToldStays, Told, User
<1>2. Store!Open(t, k, Owner[t])
  BY <1>1, OneMoves, LateStays DEF Late, Store!Open, Store!Adds, Store!Return, Due, Told, With
<1> QED
  BY <1>1, <1>2 DEF Simulates, Store!Next

LEMMA LookIs ==
  ASSUME NEW t \in Tab, orphans' = orphans, OthersKeep(t), ToldStays, NEW k \in Id,
         store' = store,
         DueTo(t) = Store!Wants("look", k),
         DueTo(t)' = IF k \in DOMAIN store THEN Store!Holder(store[k])
                     ELSE Store!Nobody
  PROVE  Simulates
<1>1. Told' = Told
  BY DEF ToldStays, Told
<1>2. Store!Look(t, k)
  BY <1>1, OneMoves, LateStays DEF Late, Store!Look, Store!Return, Due, Told
<1> QED
  BY <1>2 DEF Simulates, Store!Next

LEMMA CloseIs ==
  ASSUME NEW t \in Tab, orphans' = orphans, OthersKeep(t), ToldStays, NEW k \in Id,
         store' = Without(k),
         DueTo(t) = Store!Wants("close", k), DueTo(t)' = Store!Gone
  PROVE  Simulates
<1>1. Told' = Told
  BY DEF ToldStays, Told
<1>2. Store!Close(t, k)
  BY <1>1, OneMoves, LateStays DEF Late, Store!Close, Store!Drops, Store!Return, Store!Restrict, Due, Told,
                   Without, Restrict
<1> QED
  BY <1>2 DEF Simulates, Store!Next

(* Calls fail, or end without an answer, with sessions lost or not.        *)
Fails(t) ==
  /\ DueTo(t) # Store!Nothing
  /\ \/ DueTo(t)' = Store!Trouble /\ Shown(answer'[t]) = Shown(answer[t])
     \/ DueTo(t)' = Store!Nothing /\ Shown(answer'[t]) = Store!Trouble

(* A call that goes on is of a caller that is told of trouble.             *)
Leaves(o) ==
  /\ o.of \in Tab /\ Fails(o.of)
  /\ LateCall(o)'.call = DueTo(o.of) /\ DueTo(o.of)[1] = "call"
  /\ \A p \in orphans' \ orphans : p.of = o.of => p = o

LEMMA BreakIs ==
  ASSUME StoreIsMap, \A t \in Tab : Keeps(t) \/ Fails(t),
         \/ store' = store \/ store' = << >> \/ \E k : store' = Without(k),
         \A o \in orphans' \ orphans : Leaves(o)
  PROVE  Simulates
<1>1. /\ DOMAIN store' \subseteq DOMAIN store
      /\ store' = Store!Restrict(store, DOMAIN store')
  <2>1. CASE store' = store
    BY <2>1 DEF StoreIsMap, Store!Restrict
  <2>2. CASE store' = << >>
    BY <2>2 DEF Store!Restrict
  <2>3. ASSUME NEW k, store' = Without(k)
        PROVE  /\ DOMAIN store' \subseteq DOMAIN store
               /\ store' = Store!Restrict(store, DOMAIN store')
    BY <2>3 DEF Without, Restrict, Store!Restrict
  <2> QED
    BY <2>1, <2>2, <2>3
<1>2. \A t \in Tab :
        \/ Due'[t] = Due[t] /\ Told'[t] = Told[t]
        \/ /\ Due[t] # Store!Nothing
           /\ \/ Due'[t] = Store!Trouble /\ Told'[t] = Told[t]
              \/ Due'[t] = Store!Nothing /\ Told'[t] = Store!Trouble
  BY DEF Keeps, Fails, Due, Told
<1>3. \A l \in Late' \ Late :
        /\ l.by \in Tab /\ Due[l.by] # Store!Nothing
        /\ \/ Due'[l.by] = Store!Trouble /\ Told'[l.by] = Told[l.by]
           \/ Due'[l.by] = Store!Nothing /\ Told'[l.by] = Store!Trouble
        /\ l.call = Due[l.by] /\ l.call[1] = "call"
        /\ \A m \in Late' \ Late : m.by = l.by => m = l
  <2>1. \A l \in Late' \ Late : \E o \in orphans' \ orphans : l = LateCall(o)'
    BY DEF Late, LateCall
  <2>2. \A o : LateCall(o)'.by = o.of
    BY DEF LateCall
  <2> QED
    BY <2>1, <2>2 DEF Leaves, Fails, Due, Told
<1>4. Store!Break
  BY <1>1, <1>2, <1>3 DEF Store!Break, Store!Fails, Due, Told, Late
<1> QED
  BY <1>4 DEF Simulates, Store!Next

-----------------------------------------------------------------------------
(* What a tab is due.                                                      *)

LEMMA ResultIs ==
  ASSUME NEW i, NEW r
  PROVE  Result(i, r) # <<"nothing">> /\ Result(i, r)[1] # "call"
  BY DEF Result

LEMMA DueWhenBusy ==
  ASSUME NEW t \in Tab, pc[t] \in Place, pc[t] # "idle"
  PROVE  DueTo(t) # Store!Nothing
  BY ResultIs DEF DueTo, Place, Store!Nothing

(* The reply on the wire for whom there is one only.                       *)
LEMMA ReplyOf ==
  ASSUME NEW T, NEW R, NEW w \in Seq([to : T, of : R]), NEW n \in 1..Len(w),
         \A m \in 1..Len(w) : m # n => w[m].to # w[n].to
  PROVE  w[CHOOSE k \in DOMAIN w : w[k].to = w[n].to] = w[n]
<1> DEFINE k0 == CHOOSE k \in DOMAIN w : w[k].to = w[n].to
<1>1. DOMAIN w = 1..Len(w)
  OBVIOUS
<1>2. k0 \in DOMAIN w /\ w[k0].to = w[n].to
  BY <1>1
<1> HIDE DEF k0
<1>3. k0 = n
  BY <1>1, <1>2
<1> QED
  BY <1>3 DEF k0

LEMMA ReplyStays ==
  ASSUME SessionTypes, WireIsHeld, WireServes, ~crossed,
         NEW t \in Tab, pc[t] = "waiting", wire' = wire
  PROVE  ReplyTo(t)' = ReplyTo(t)
<1>1. PICK n \in 1..Len(wire) : wire[n].to = t
  BY DEF WireServes
<1>2. wire \in Seq([to : Tab, of : Reply])
  BY DEF SessionTypes
<1>3. \A m \in 1..Len(wire) : m # n => wire[m].to # wire[n].to
  BY <1>1 DEF WireIsHeld
<1>4. ReplyTo(t) = wire[n].of
  BY <1>1, <1>2, <1>3, ReplyOf DEF ReplyTo
<1>5. ReplyTo(t)' = wire'[n].of
  BY <1>1, <1>2, <1>3, ReplyOf DEF ReplyTo
<1> QED
  BY <1>4, <1>5

LEMMA TabKeeps ==
  ASSUME SessionTypes, WireIsHeld, WireServes, ~crossed, wire' = wire,
         NEW t \in Tab, pc'[t] = pc[t], req'[t] = req[t],
         reply'[t] = reply[t], answer'[t] = answer[t]
  PROVE  Keeps(t)
<1>1. CASE pc[t] = "waiting"
  <2>1. ReplyTo(t)' = ReplyTo(t)
    BY <1>1, ReplyStays
  <2> QED
    BY <1>1, <2>1 DEF Keeps, DueTo
<1>2. CASE pc[t] # "waiting"
  BY <1>2 DEF Keeps, DueTo
<1> QED
  BY <1>1, <1>2

LEMMA TabFailsIts ==
  ASSUME SessionTypes, NEW t \in Tab, pc[t] # "idle",
         \/ pc'[t] = "replied" /\ reply'[t] = Error /\ answer'[t] = answer[t]
         \/ pc'[t] = "idle" /\ answer'[t] = Aborted
  PROVE  Fails(t)
<1>1. DueTo(t) # Store!Nothing
  BY DueWhenBusy DEF SessionTypes
<1>2. \A i : Result(i, Error) = Store!Trouble
  BY DEF Result, Error, Store!Trouble
<1>3. Shown(Aborted) = Store!Trouble
  BY DEF Shown, Aborted, LoggedOut, None, Store!Trouble
<1>4. CASE pc'[t] = "replied" /\ reply'[t] = Error /\ answer'[t] = answer[t]
  BY <1>1, <1>2, <1>4 DEF Fails, DueTo
<1>5. CASE pc'[t] = "idle" /\ answer'[t] = Aborted
  BY <1>1, <1>3, <1>5 DEF Fails, DueTo, Store!Nothing
<1> QED
  BY <1>4, <1>5

LEMMA ResultsAre ==
  ASSUME NEW i
  PROVE  /\ \A u : Result(i, Found(u)) =
                     IF u \in User THEN Store!Holder(u) ELSE Store!Nobody
         /\ \A j : Result(i, Made(j)) = Store!Opened(j)
         /\ Result(i, [is |-> "OK"]) = Store!Opened(i)
         /\ \A r \in {Done, [is |-> "integer"]} : Result(i, r) = Store!Gone
         /\ Result(i, Error) = Store!Trouble
         /\ \A r \in {Nil, NotFound} : Result(i, r) = Store!Nobody
<1> USE DEF Result, Error
<1>1. \A u : Result(i, Found(u)) =
               IF u \in User THEN Store!Holder(u) ELSE Store!Nobody
  BY DEF Found, Store!Holder, Store!Nobody
<1>2. \A j : Result(i, Made(j)) = Store!Opened(j)
  BY DEF Made, Store!Opened
<1>3. Result(i, [is |-> "OK"]) = Store!Opened(i)
  BY DEF Store!Opened
<1>4. \A r \in {Done, [is |-> "integer"]} : Result(i, r) = Store!Gone
  BY DEF Done, Store!Gone
<1>5. Result(i, Error) = Store!Trouble
  BY DEF Store!Trouble
<1>6. \A r \in {Nil, NotFound} : Result(i, r) = Store!Nobody
  <2>1. Result(i, Nil) = Store!Nobody
    BY DEF Nil, Store!Nobody
  <2>2. Result(i, NotFound) = Store!Nobody
    BY DEF NotFound, Store!Nobody
  <2> QED
    BY <2>1, <2>2
<1> QED
  BY <1>1, <1>2, <1>3, <1>4, <1>5, <1>6

LEMMA ShownAre ==
  /\ \A u : Shown(Welcome(u)) =
              IF u \in User THEN Store!Holder(u) ELSE Store!Nobody
  /\ \A i : Shown(Cookie(i)) = Store!Opened(i)
  /\ Shown(LoginForm) = Store!Nobody
  /\ Shown(LoggedOut) = Store!Gone
  /\ \A a \in {Status500, Status401, Panicked, Aborted} :
       Shown(a) = Store!Trouble
  /\ Shown(None) = Store!Nothing
<1> USE DEF Shown, LoggedOut, None, Status500, Status401, Panicked, Aborted
<1>1. \A u : Shown(Welcome(u)) =
               IF u \in User THEN Store!Holder(u) ELSE Store!Nobody
  BY DEF Welcome, Store!Holder, Store!Nobody
<1>2. \A i : Shown(Cookie(i)) = Store!Opened(i)
  BY DEF Cookie, Store!Opened
<1>3. Shown(LoginForm) = Store!Nobody
  BY DEF LoginForm, Store!Nobody
<1>4. Shown(LoggedOut) = Store!Gone
  BY DEF Store!Gone
<1>5. \A a \in {Status500, Status401, Panicked, Aborted} :
        Shown(a) = Store!Trouble
  BY DEF Store!Trouble
<1>6. Shown(None) = Store!Nothing
  BY DEF Store!Nothing
<1> QED
  BY <1>1, <1>2, <1>3, <1>4, <1>5, <1>6

LEMMA MayBeToldIs ==
  /\ \A w : w \in Store!MayBeTold(w)
  /\ Store!Trouble \in Store!MayBeTold(Store!Nobody)
  /\ {Store!Nobody, Store!Gone} \subseteq Store!MayBeTold(Store!Trouble)
  BY DEF Store!MayBeTold

(* What a page makes of each reply that fits.                              *)
Makes(t, op) ==
  /\ Page(t, op, Error) \in {LoginForm, LoggedOut, Status500, Panicked}
  /\ op = "create" =>
       IF program = "redis" THEN Page(t, op, [is |-> "OK"]) = Cookie(req[t].id)
       ELSE \A i : Page(t, op, Made(i)) = Cookie(i)
  /\ op = "check" =>
       /\ \A u : Page(t, op, Found(u)) = Welcome(u)
       /\ \A r \in {Nil, NotFound} :
            Page(t, op, r) \in {LoginForm, Status500}
  /\ op = "delete" =>
       /\ Page(t, op, Done) = LoggedOut
       /\ program = "redis" => Page(t, op, [is |-> "integer"]) = LoggedOut

(* The page of service1, on which most of the others rest.                 *)
LEMMA Service1Makes ==
  /\ Service1Page("create", Error) = Status500
  /\ Service1Page("create", Nil) = Panicked
  /\ Service1Page("check", Error) = Status500
  /\ \A i : Service1Page("create", Made(i)) = Cookie(i)
  /\ \A u : Service1Page("check", Found(u)) = Welcome(u)
  /\ Service1Page("check", Nil) = LoginForm
  /\ Service1Page("check", NotFound) = Status500
  /\ \A r : Service1Page("delete", r) = LoggedOut
<1> USE DEF Service1Page
<1>1. /\ Service1Page("create", Error) = Status500
      /\ Service1Page("check", Error) = Status500
  BY DEF Error, Nil
<1>2. /\ Service1Page("create", Nil) = Panicked
      /\ Service1Page("check", Nil) = LoginForm
  BY DEF Nil
<1>3. \A i : Service1Page("create", Made(i)) = Cookie(i)
  BY DEF Made, Nil
<1>4. \A u : Service1Page("check", Found(u)) = Welcome(u)
  BY DEF Found, Nil
<1>5. Service1Page("check", NotFound) = Status500
  BY DEF NotFound, Nil
<1>6. \A r : Service1Page("delete", r) = LoggedOut
  OBVIOUS
<1> QED
  BY <1>1, <1>2, <1>3, <1>4, <1>5, <1>6

LEMMA RepliesDiffer ==
  /\ Nil # Error /\ NotFound # Error /\ Done # Error
  /\ \A i : Made(i) # Error
  /\ \A u : Found(u) # Error
  BY DEF Nil, NotFound, Done, Made, Found, Error

LEMMA PageMakes ==
  ASSUME program \in Programs, program # "balanced", NEW t, NEW op \in Ops
  PROVE  Makes(t, op)
<1> USE Service1Makes, RepliesDiffer DEF Ops, Makes
<1>1. CASE program \in Unlocked
  <2>1. \A r : Page(t, op, r) = Service1Page(op, r)
    BY <1>1 DEF Page, Service1LiteClient, Service2LiteClient, Unlocked
  <2>2. program # "redis"
    BY <1>1 DEF Unlocked
  <2> QED
    BY <2>1, <2>2
<1>2. CASE program \in {"net-rpc", "net-rpc-lite"}
  <2>1. \A r : Page(t, op, r) = IF r = Error /\ op # "delete"
                                THEN Service1Page(op, Nil)
                                ELSE Service1Page(op, r)
    BY <1>2 DEF Page, NetRpcPage, NetRpcClient, NetRpcLiteMethods,
                NetRpcLiteClient
  <2> QED
    BY <1>2, <2>1
<1>3. CASE program \in {"grpc", "grpc-lite", "grpc_2", "gateway-lite"}
  <2>1. \A r : \/ Page(t, op, r) = Service1Page(op, r)
               \/ Page(t, op, r) = Panicked /\ r = Error
    BY <1>3 DEF Page, GrpcPage, GrpcLiteClient, Grpc2Client,
                GatewayLiteClient, GrpcClient
  <2> QED
    BY <1>3, <2>1
<1>4. CASE program \in {"json-rpc", "gateway"}
  <2>1. \A r : Page(t, op, r) = JsonRpcHandler(op, r)
    BY <1>4 DEF Page, JsonRpcHandler, GatewayHandler, GatewayRequest
  <2>2. /\ JsonRpcHandler(op, Error) = Status500
        /\ JsonRpcHandler(op, Nil) = Status500
        /\ JsonRpcHandler(op, NotFound) = Status500
    BY DEF JsonRpcHandler, Error, Nil, NotFound, Done
  <2>3. JsonRpcHandler(op, Done) = LoggedOut
    BY DEF JsonRpcHandler, Done
  <2>4. \A i : JsonRpcHandler(op, Made(i)) = Cookie(i)
    BY DEF JsonRpcHandler, Made, Done
  <2>5. \A u : JsonRpcHandler(op, Found(u)) = Welcome(u)
    BY DEF JsonRpcHandler, Found, Done
  <2> QED
    BY <1>4, <2>1, <2>2, <2>3, <2>4, <2>5
<1>5. CASE program = "redis"
  <2>1. \A r : Page(t, op, r) = Service1Page(op, RedisManager(op, req[t].id, r))
    BY <1>5 DEF Page, RedisPage
  <2>2. /\ RedisManager("create", req[t].id, Error) = Error
        /\ RedisManager("check", req[t].id, Error) = Nil
        /\ RedisManager("create", req[t].id, [is |-> "OK"]) = Made(req[t].id)
        /\ RedisManager("check", req[t].id, Nil) = Nil
        /\ RedisManager("check", req[t].id, NotFound) = Nil
    BY DEF RedisManager, Error, Nil, NotFound
  <2>3. \A u : RedisManager("check", req[t].id, Found(u)) = Found(u)
    BY DEF RedisManager, Found
  <2> QED
    BY <1>5, <2>1, <2>2, <2>3
<1> QED
  BY <1>1, <1>2, <1>3, <1>4, <1>5
  DEF Programs, Scripts, OneProcess, NeverRedials, Unlocked

(* What a page shows is what its request was due, or may be told instead.  *)
LEMMA PageTells ==
  ASSUME program \in Programs, program # "balanced", NEW t, NEW op \in Ops,
         NEW r, Fits(op, req[t].id, r)
  PROVE  Shown(Page(t, op, r)) \in Store!MayBeTold(Result(req[t].id, r))
<1>1. Makes(t, op)
  BY PageMakes
<1>2. CASE r = Error
  BY <1>1, <1>2, ResultsAre, ShownAre, MayBeToldIs DEF Makes
<1>3. CASE op = "create" /\ r # Error
  BY <1>1, <1>3, ResultsAre, ShownAre, MayBeToldIs DEF Makes, Fits
<1>4. CASE op = "check" /\ r # Error
  BY <1>1, <1>4, ResultsAre, ShownAre, MayBeToldIs DEF Makes, Fits
<1>5. CASE op = "delete" /\ r # Error
  BY <1>1, <1>5, ResultsAre, ShownAre, MayBeToldIs DEF Makes, Fits
<1> QED
  BY <1>2, <1>3, <1>4, <1>5 DEF Ops

-----------------------------------------------------------------------------
(* Each step of the programs is a step of the promise, or none.            *)
Calm ==
  /\ CrashInv /\ HeldInv /\ FitInv
  /\ program # "balanced" /\ ~crossed
  /\ ~(NoLogin \in User /\ program \in ZeroSession)

LEMMA CalmFacts ==
  ASSUME Calm
  PROVE  /\ SessionTypes /\ OrphanTypes /\ WritersOfService1
         /\ WireIsHeld /\ WireServes /\ RepliesFit
         /\ StoreIsMap /\ RequestsAreHeld
         /\ pc \in [Tab -> Place] /\ req \in [Tab -> Request]
         /\ reply \in [Tab -> Reply] /\ DOMAIN answer = Tab
         /\ program \in Programs /\ program # "balanced"
  BY DEF Calm, CrashInv, HeldInv, FitInv, SessionTypes

LEMMA OthersAreKept ==
  ASSUME Calm, NEW t \in Tab, wire' = wire,
         \A s \in Tab \ {t} : /\ pc'[s] = pc[s] /\ req'[s] = req[s]
                              /\ reply'[s] = reply[s] /\ answer'[s] = answer[s]
  PROVE  OthersKeep(t)
  BY CalmFacts, TabKeeps DEF OthersKeep, Calm

LEMMA AllAreKept ==
  ASSUME Calm, UNCHANGED <<pc, req, reply, answer, wire>>
  PROVE  \A t \in Tab : Keeps(t)
  BY CalmFacts, TabKeeps DEF Calm

LEMMA AskIs ==
  ASSUME Calm, NEW t \in Tab, NEW op \in Ops, Ask(t, op)
  PROVE  Simulates
<1>1. /\ pc[t] = "idle" /\ UNCHANGED <<store, reply, wire, orphans>>
      /\ \A s \in Tab \ {t} : /\ pc'[s] = pc[s] /\ req'[s] = req[s]
                              /\ reply'[s] = reply[s] /\ answer'[s] = answer[s]
  BY CalmFacts DEF Ask, Goto, process
<1>2. OthersKeep(t)
  BY <1>1, OthersAreKept
<1>3. DueTo(t) = Store!Nothing
  BY <1>1 DEF DueTo, Store!Nothing
<1>4. CASE /\ \E a \in AnsweredAtOnce(t, op) : answer' = [answer EXCEPT ![t] = a]
           /\ UNCHANGED <<pc, req>>
  <2>1. PICK a \in AnsweredAtOnce(t, op) : answer' = [answer EXCEPT ![t] = a]
    BY <1>4
  <2>2. answer'[t] = a
    BY <2>1, CalmFacts
  <2>3. Makes(t, op)
    BY PageMakes, CalmFacts
  <2>4. Shown(a) \in {Store!Nobody, Store!Gone, Store!Trouble}
    <3>1. CASE a = Status401
      BY <3>1, ShownAre
    <3>2. CASE op = "check" /\ a = Page(t, op, Nil)
      BY <2>3, <3>2, ShownAre DEF Makes
    <3>3. CASE op = "delete" /\ a = Page(t, op, Done)
      BY <2>3, <3>3, ShownAre DEF Makes
    <3> QED
      BY <3>1, <3>2, <3>3 DEF AnsweredAtOnce, Ops
  <2>5. DueTo(t)' = Store!Nothing
    BY <1>1, <1>4 DEF DueTo, Store!Nothing
  <2> QED
    BY <1>1, <1>2, <1>3, <2>2, <2>4, <2>5, NoKeyIs
<1>5. CASE /\ op = "create" \/ jar[t] # 0
           /\ Goto(t, "asked")
           /\ req' = [req EXCEPT ![t] =
                        [op |-> op, id |-> IF op = "create" THEN 0 ELSE jar[t]]]
           /\ answer' = [answer EXCEPT ![t] = None]
  <2>1. /\ pc'[t] = "asked" /\ req'[t].op = op /\ answer'[t] = None
        /\ op # "create" => req'[t].id = jar[t] /\ jar[t] \in Id
    BY <1>5, CalmFacts DEF Goto, SessionTypes, Id
  <2>2. Shown(answer'[t]) = Store!Nothing
    BY <2>1, ShownAre
  <2>3. DueTo(t)' =
          <<"call", WantOf(op), IF op = "create" THEN 0 ELSE jar[t]>>
    BY <2>1 DEF DueTo
  <2>4. CASE op = "create"
    <3>1. DueTo(t)' = Store!Wants("open", 0)
      BY <2>3, <2>4 DEF WantOf, Store!Wants
    <3> QED
      BY <1>1, <1>2, <1>3, <2>2, <3>1, CallIs
  <2>5. CASE op = "check"
    <3>1. DueTo(t)' = Store!Wants("look", jar[t]) /\ jar[t] \in Id
      BY <2>1, <2>3, <2>5 DEF WantOf, Store!Wants
    <3> QED
      BY <1>1, <1>2, <1>3, <2>2, <3>1, CallIs
  <2>6. CASE op = "delete"
    <3>1. DueTo(t)' = Store!Wants("close", jar[t]) /\ jar[t] \in Id
      BY <2>1, <2>3, <2>6 DEF WantOf, Store!Wants
    <3> QED
      BY <1>1, <1>2, <1>3, <2>2, <3>1, CallIs
  <2> QED
    BY <2>4, <2>5, <2>6 DEF Ops
<1> QED
  BY <1>4, <1>5 DEF Ask

LEMMA DrawIs ==
  ASSUME Calm, NEW t \in Tab, Draw(t) \/ (CreateUnlocked(t) /\ ~Caught(t))
  PROVE  Simulates
<1>1. /\ pc[t] \in {"asked", "drawn"} /\ pc'[t] \in {"drawn", "writing"}
      /\ req[t].op = "create" /\ req'[t].op = "create"
      /\ UNCHANGED <<store, reply, wire, answer, orphans>>
      /\ \A s \in Tab \ {t} : pc'[s] = pc[s] /\ req'[s] = req[s]
  BY CalmFacts DEF Draw, CreateUnlocked, Goto, process, Request, SessionTypes
<1>2. OthersKeep(t)
  BY <1>1, OthersAreKept
<1>3. DueTo(t)' = DueTo(t)
  BY <1>1 DEF DueTo
<1> QED
  BY <1>1, <1>2, <1>3, StutterIs, LateStays DEF OthersKeep, Keeps

(* The manager has done what was asked of it, and returns.                 *)
LEMMA DoneIs ==
  ASSUME Calm, NEW t \in Tab,
         pc[t] \in {"asked", "drawn", "writing"},
         req[t].op = "create" => pc[t] # "asked",
         OthersKeep(t), answer'[t] = answer[t], req'[t] = req[t],
         orphans' = orphans,
         store' = Using(t).store,
         DueTo(t)' = Result(req[t].id, Using(t).reply)
  PROVE  Simulates
<1> DEFINE i == req[t].id
<1>1. /\ DoesIt(req[t].op, i, Owner[t], Using(t)) /\ req[t].op \in Ops
  BY UsingDoesIt, CalmFacts
<1>2. ToldStays
  BY DEF OthersKeep, Keeps, ToldStays
<1>3. i \in Id
  <2>1. CASE req[t].op = "create"
    BY <2>1, CalmFacts DEF SessionTypes
  <2>2. CASE req[t].op # "create"
    BY <2>2, CalmFacts
    DEF RequestsAreHeld, RequestIsHeld, Held, SessionTypes
  <2> QED
    BY <2>1, <2>2
<1>4. DueTo(t) = <<"call", WantOf(req[t].op),
                   IF req[t].op = "create" THEN 0 ELSE i>>
  BY DEF DueTo
<1>5. CASE req[t].op = "create"
  <2>1. DueTo(t) = Store!Wants("open", 0)
    BY <1>4, <1>5 DEF WantOf, Store!Wants
  <2>2. store' = With(i, Owner[t]) /\ DueTo(t)' = Store!Opened(i)
    BY <1>1, <1>5, ResultsAre DEF DoesIt
  <2> QED
    BY <1>2, <1>3, <2>1, <2>2, OpenIs
<1>6. CASE req[t].op = "check"
  <2>1. DueTo(t) = Store!Wants("look", i)
    BY <1>4, <1>6 DEF WantOf, Store!Wants
  <2>2. store' = store /\ Finds(i, Using(t).reply)
    BY <1>1, <1>6 DEF DoesIt
  <2>3. \A j \in DOMAIN store : store[j] \in User
    BY CalmFacts DEF SessionTypes
  <2>4. DueTo(t)' = IF i \in DOMAIN store THEN Store!Holder(store[i])
                    ELSE Store!Nobody
    BY <2>2, <2>3, ResultsAre DEF Finds, Calm
  <2> QED
    BY <1>2, <1>3, <2>1, <2>2, <2>4, LookIs
<1>7. CASE req[t].op = "delete"
  <2>1. DueTo(t) = Store!Wants("close", i)
    BY <1>4, <1>7 DEF WantOf, Store!Wants
  <2>2. store' = Without(i) /\ DueTo(t)' = Store!Gone
    BY <1>1, <1>7, ResultsAre DEF DoesIt
  <2> QED
    BY <1>2, <1>3, <2>1, <2>2, CloseIs
<1> QED
  BY <1>1, <1>5, <1>6, <1>7 DEF Ops

LEMMA ReturnIs ==
  ASSUME Calm, NEW t \in Tab, ~raced',
         \/ CreateLocked(t)
         \/ Written(t) /\ ~Caught(t)
         \/ Serve(t) /\ ~Caught(t)
  PROVE  Simulates
<1>1. /\ pc[t] \in {"asked", "drawn", "writing"}
      /\ req[t].op = "create" => pc[t] # "asked"
      /\ pc'[t] = "replied" /\ reply'[t] = Using(t).reply
      /\ UNCHANGED <<req, wire, answer, orphans>>
      /\ \A s \in Tab \ {t} : pc'[s] = pc[s] /\ reply'[s] = reply[s]
      /\ store' = Using(t).store
  BY CalmFacts DEF CreateLocked, Written, Serve, Returns, Goto, process
<1>2. OthersKeep(t)
  BY <1>1, OthersAreKept
<1>3. DueTo(t)' = Result(req[t].id, Using(t).reply)
  BY <1>1 DEF DueTo
<1> QED
  BY <1>1, <1>2, <1>3, DoneIs

LEMMA SendCommandIs ==
  ASSUME Calm, WireIsHeld', SessionTypes', ~crossed', NEW t \in Tab,
         SendCommand(t)
  PROVE  Simulates
<1> DEFINE Message == [to : Tab, of : Reply]
           m == [to |-> t, of |-> Using(t).reply]
<1>1. /\ wire \in Seq(Message) /\ wire' \in Seq(Message)
  BY CalmFacts DEF SessionTypes
<1>2. /\ pc[t] \in {"asked", "drawn"} /\ (req[t].op = "create" => pc[t] = "drawn")
      /\ wire' = Append(wire, m) /\ pc'[t] = "waiting"
      /\ UNCHANGED <<req, reply, answer, orphans>>
      /\ \A s \in Tab \ {t} : pc'[s] = pc[s]
      /\ store' = Using(t).store
  BY CalmFacts DEF SendCommand, Goto, process
<1>3. m.to = t /\ m.of = Using(t).reply
  OBVIOUS
<1> HIDE DEF m
<1>4. /\ Len(wire) + 1 \in 1..Len(wire')
      /\ wire'[Len(wire) + 1] = m
      /\ \A n \in 1..Len(wire) : n \in 1..Len(wire') /\ wire'[n] = wire[n]
  BY <1>1, <1>2
<1>5. \A n, k \in 1..Len(wire') : k # n => wire'[k].to # wire'[n].to
  BY DEF WireIsHeld
<1>6. \A n \in 1..Len(wire) : \A s :
        wire[n].to = s => ReplyTo(s) = wire[n].of
  <2>1. \A n, k \in 1..Len(wire) : k # n => wire[k].to # wire[n].to
    BY CalmFacts DEF WireIsHeld, Calm
  <2> QED
    BY <1>1, <2>1, ReplyOf DEF ReplyTo
<1>7. \A n \in 1..Len(wire') : \A s :
        wire'[n].to = s => ReplyTo(s)' = wire'[n].of
  BY <1>1, <1>5, ReplyOf DEF ReplyTo
<1>8. ASSUME NEW s \in Tab \ {t} PROVE Keeps(s)
  <2>1. CASE pc[s] = "waiting"
    <3>1. PICK n \in 1..Len(wire) : wire[n].to = s
      BY <2>1, CalmFacts DEF WireServes
    <3>2. ReplyTo(s)' = ReplyTo(s)
      BY <1>4, <1>6, <1>7, <3>1
    <3> QED
      BY <1>2, <2>1, <3>2 DEF Keeps, DueTo
  <2>2. CASE pc[s] # "waiting"
    BY <1>2, <2>2 DEF Keeps, DueTo
  <2> QED
    BY <2>1, <2>2
<1>9. DueTo(t)' = Result(req[t].id, Using(t).reply)
  <2>1. ReplyTo(t)' = Using(t).reply
    BY <1>3, <1>4, <1>7
  <2> QED
    BY <1>2, <2>1 DEF DueTo
<1> QED
  BY <1>2, <1>8, <1>9, DoneIs DEF OthersKeep

LEMMA ReadReplyIs ==
  ASSUME Calm, WireIsHeld', SessionTypes', ~crossed', NEW t \in Tab,
         ReadReply(t)
  PROVE  Simulates
<1> DEFINE Message == [to : Tab, of : Reply]
<1>1. /\ wire \in Seq(Message) /\ wire' \in Seq(Message)
  BY CalmFacts DEF SessionTypes
<1>2. /\ wire # << >> /\ wire' = Tail(wire) /\ Head(wire).to = t
      /\ pc[t] = "waiting" /\ pc'[t] = "replied"
      /\ reply'[t] = Head(wire).of
      /\ UNCHANGED <<req, answer, store, orphans>>
      /\ \A s \in Tab \ {t} : pc'[s] = pc[s] /\ reply'[s] = reply[s]
  BY CalmFacts DEF ReadReply, Returns, Goto, process
<1>3. /\ 1 \in 1..Len(wire) /\ Head(wire) = wire[1]
      /\ \A n \in 1..Len(wire) :
           n # 1 => n - 1 \in 1..Len(wire') /\ wire'[n - 1] = wire[n]
  BY <1>1, <1>2
<1>4. \A n \in 1..Len(wire) : \A s :
        wire[n].to = s => ReplyTo(s) = wire[n].of
  <2>1. \A n, k \in 1..Len(wire) : k # n => wire[k].to # wire[n].to
    BY CalmFacts DEF WireIsHeld, Calm
  <2> QED
    BY <1>1, <2>1, ReplyOf DEF ReplyTo
<1>5. \A n \in 1..Len(wire') : \A s :
        wire'[n].to = s => ReplyTo(s)' = wire'[n].of
  <2>1. \A n, k \in 1..Len(wire') : k # n => wire'[k].to # wire'[n].to
    BY DEF WireIsHeld
  <2> QED
    BY <1>1, <2>1, ReplyOf DEF ReplyTo
<1>6. ASSUME NEW s \in Tab \ {t} PROVE Keeps(s)
  <2>1. CASE pc[s] = "waiting"
    <3>1. PICK n \in 1..Len(wire) : wire[n].to = s
      BY <2>1, CalmFacts DEF WireServes
    <3>2. n # 1
      BY <1>2, <1>3, <3>1
    <3>3. ReplyTo(s)' = ReplyTo(s)
      BY <1>3, <1>4, <1>5, <3>1, <3>2
    <3> QED
      BY <1>2, <2>1, <3>3 DEF Keeps, DueTo
  <2>2. CASE pc[s] # "waiting"
    BY <1>2, <2>2 DEF Keeps, DueTo
  <2> QED
    BY <2>1, <2>2
<1>7. Keeps(t)
  <2>1. ReplyTo(t) = Head(wire).of
    BY <1>2, <1>3, <1>4
  <2> QED
    BY <1>2, <2>1 DEF Keeps, DueTo
<1> QED
  BY <1>2, <1>6, <1>7, StutterIs, LateStays

LEMMA AnswerIs ==
  ASSUME Calm, NEW t \in Tab, Answer(t)
  PROVE  Simulates
<1> DEFINE op == req[t].op
           i == req[t].id
<1>1. /\ pc[t] = "replied" /\ pc'[t] = "idle"
      /\ answer'[t] = Page(t, op, reply[t])
      /\ UNCHANGED <<store, wire, orphans>>
      /\ \A s \in Tab \ {t} : /\ pc'[s] = pc[s] /\ req'[s] = req[s]
                              /\ reply'[s] = reply[s] /\ answer'[s] = answer[s]
  BY CalmFacts DEF Answer, Goto, process
<1>2. OthersKeep(t)
  BY <1>1, OthersAreKept
<1>3. DueTo(t) = Result(i, reply[t]) /\ DueTo(t)' = Store!Nothing
  BY <1>1 DEF DueTo, Store!Nothing
<1>4. op \in Ops /\ Fits(op, i, reply[t])
  BY <1>1, CalmFacts DEF RepliesFit, SessionTypes
<1>5. Shown(answer'[t]) \in Store!MayBeTold(DueTo(t))
  BY <1>1, <1>3, <1>4, CalmFacts, PageTells
<1>6. DueTo(t) # Store!Nothing /\ DueTo(t)[1] # "call"
  BY <1>3, ResultIs DEF Store!Nothing
<1> QED
  BY <1>1, <1>2, <1>3, <1>5, <1>6, TellIs

(* What fails, and what is lost with it.                                   *)
LEMMA FailureIs ==
  ASSUME Calm,
         \/ Break \/ Stop \/ \E i \in DOMAIN store : Expire(i)
         \/ \E t \in Tab : Refused(t) \/ ClientGone(t) \/ Caught(t)
  PROVE  Simulates
<1> USE CalmFacts
<1>1. ASSUME NEW ts \in SUBSET Tab, CallsFail(ts), \A t \in ts : pc[t] # "idle",
             UNCHANGED <<req, answer>>,
             wire' = wire \/ \A t \in Tab \ ts : pc[t] # "waiting"
      PROVE  \A t \in Tab : Keeps(t) \/ Fails(t)
  <2> SUFFICES ASSUME NEW t \in Tab PROVE Keeps(t) \/ Fails(t)
    OBVIOUS
  <2>1. CASE t \in ts
    <3>1. /\ pc[t] # "idle" /\ pc'[t] = "replied" /\ reply'[t] = Error
          /\ answer'[t] = answer[t]
      BY <1>1, <2>1 DEF CallsFail
    <3> QED
      BY <3>1, TabFailsIts
  <2>2. CASE t \notin ts
    <3>1. /\ pc'[t] = pc[t] /\ reply'[t] = reply[t] /\ req'[t] = req[t]
          /\ answer'[t] = answer[t]
      BY <1>1, <2>2 DEF CallsFail
    <3>2. CASE wire' = wire
      BY <3>1, <3>2, TabKeeps DEF Calm
    <3>3. CASE pc[t] # "waiting"
      BY <3>1, <3>3 DEF Keeps, DueTo
    <3> QED
      BY <1>1, <2>2, <3>2, <3>3
  <2> QED
    BY <2>1, <2>2
<1>2. ASSUME pc' = [t \in Tab |-> "idle"],
             answer' = [t \in Tab |-> IF pc[t] = "idle" THEN answer[t] ELSE Aborted]
      PROVE  \A t \in Tab : Keeps(t) \/ Fails(t)
  <2> SUFFICES ASSUME NEW t \in Tab PROVE Keeps(t) \/ Fails(t)
    OBVIOUS
  <2>1. CASE pc[t] = "idle"
    BY <1>2, <2>1 DEF Keeps, DueTo
  <2>2. CASE pc[t] # "idle"
    BY <1>2, <2>2, TabFailsIts
  <2> QED
    BY <2>1, <2>2
<1>0. ASSUME NEW ts \in SUBSET Tab, orphans' = orphans \cup Outlive(ts),
             \A t \in ts : Fails(t)
      PROVE  \A o \in orphans' \ orphans : Leaves(o)
  <2>1. \A o \in orphans' \ orphans :
          /\ o.of \in ts /\ pc[o.of] \in {"asked", "drawn"}
          /\ o = [of |-> o.of, op |-> req[o.of].op, id |-> req[o.of].id,
                  n |-> faults']
    BY <1>0 DEF Outlive
  <2>2. \A o \in orphans' \ orphans : LateCall(o)'.call = DueTo(o.of)
    BY <2>1 DEF LateCall, DueTo
  <2>3. \A o \in orphans' \ orphans : DueTo(o.of)[1] = "call"
    BY <2>1 DEF DueTo
  <2>4. \A o, p \in orphans' \ orphans : p.of = o.of => p = o
    BY <2>1
  <2> QED
    BY <1>0, <2>1, <2>2, <2>3, <2>4 DEF Leaves
<1> DEFINE ts == {t \in Tab : Calling(t)}
<1>3. /\ \A t \in ts : pc[t] # "idle"
      /\ \A t \in Tab \ ts : pc[t] # "waiting"
  <2>1. ASSUME NEW t \in Tab, pc[t] = "waiting" PROVE Calling(t)
    BY <2>1 DEF Calling
  <2> QED
    BY <2>1 DEF Calling
<1>f. ASSUME NEW u \in SUBSET Tab, CallsFail(u), \A t \in u : pc[t] # "idle",
             UNCHANGED answer
      PROVE  \A t \in u : Fails(t)
  BY <1>f, TabFailsIts DEF CallsFail
<1>4. CASE Break
  <2>1. /\ CallsFail(ts) /\ UNCHANGED <<store, req, answer>>
        /\ orphans' = orphans \cup Outlive(ts)
    BY <1>4 DEF Break
  <2>2. \A t \in Tab : Keeps(t) \/ Fails(t)
    BY <1>1, <1>3, <2>1
  <2>3. \A o \in orphans' \ orphans : Leaves(o)
    BY <1>0, <1>3, <1>f, <2>1
  <2> QED
    BY <2>1, <2>2, <2>3, BreakIs
<1>5. CASE Stop
  <2>1. store' = store \/ store' = << >>
    BY <1>5 DEF Stop
  <2>2. CASE program \in OneProcess \cup {"redis"}
    <3>1. /\ pc' = [t \in Tab |-> "idle"]
          /\ answer' = [t \in Tab |-> IF pc[t] = "idle" THEN answer[t] ELSE Aborted]
      BY <1>5, <2>2 DEF Stop
    <3>2. \A t \in ts : Fails(t)
      BY <1>3, <3>1, TabFailsIts
    <3>3. orphans' = {} \/ orphans' = orphans \cup Outlive(ts)
      BY <1>5 DEF Stop
    <3>4. \A o \in orphans' \ orphans : Leaves(o)
      BY <1>0, <3>2, <3>3
    <3> QED
      BY <1>2, <2>1, <3>1, <3>4, BreakIs
  <2>3. CASE program \notin OneProcess \cup {"redis"}
    <3>1. CallsFail(ts) /\ UNCHANGED <<req, answer>> /\ orphans' = {}
      BY <1>5, <2>3 DEF Stop
    <3>2. \A t \in Tab : Keeps(t) \/ Fails(t)
      BY <1>1, <1>3, <3>1
    <3> QED
      BY <2>1, <3>1, <3>2, BreakIs
  <2> QED
    BY <2>2, <2>3
<1>6. ASSUME NEW i \in DOMAIN store, Expire(i)
      PROVE  Simulates
  <2>1. store' = Without(i) /\ UNCHANGED <<pc, req, reply, answer, wire, orphans>>
    BY <1>6 DEF Expire
  <2> QED
    BY <2>1, AllAreKept, BreakIs
<1>7. ASSUME NEW t \in Tab, Refused(t)
      PROVE  Simulates
  <2>1. /\ pc[t] # "idle" /\ pc'[t] = "replied" /\ reply'[t] = Error
        /\ UNCHANGED <<store, wire, req, answer, orphans>>
        /\ \A s \in Tab \ {t} : pc'[s] = pc[s] /\ reply'[s] = reply[s]
    BY <1>7 DEF Refused, Returns, Goto, process
  <2>2. Fails(t)
    BY <2>1, TabFailsIts
  <2>3. OthersKeep(t)
    BY <2>1, OthersAreKept
  <2> QED
    BY <2>1, <2>2, <2>3, BreakIs DEF OthersKeep
<1>8. ASSUME NEW t \in Tab, ClientGone(t)
      PROVE  Simulates
  <2>1. /\ CallsFail({t}) /\ UNCHANGED <<store, wire, req, answer>> /\ pc[t] # "idle"
        /\ orphans' = orphans \cup Outlive({t})
    BY <1>8 DEF ClientGone, Calling
  <2>2. \A s \in Tab : Keeps(s) \/ Fails(s)
    BY <1>1, <2>1
  <2>3. \A o \in orphans' \ orphans : Leaves(o)
    BY <1>0, <1>f, <2>1
  <2> QED
    BY <2>1, <2>2, <2>3, BreakIs
<1>9. ASSUME NEW t \in Tab, Caught(t)
      PROVE  Simulates
  BY <1>2, <1>9, BreakIs DEF Caught, Die
<1> QED
  BY <1>4, <1>5, <1>6, <1>7, <1>8, <1>9

(* A call that goes on draws its id, and takes effect.                     *)
LEMMA OrphanIs ==
  ASSUME Calm, NEW o \in orphans, OrphanDraw(o) \/ OrphanWrite(o)
  PROVE  Simulates
<1>1. /\ UNCHANGED <<pc, req, reply, answer, wire>> /\ \A t \in Tab : Keeps(t)
  BY AllAreKept DEF OrphanDraw, OrphanWrite
<1>2. /\ o \in [of : Tab, op : Ops, id : 0..MaxId, n : 1..faults]
      /\ \A p \in orphans : o.of = p.of /\ o.n = p.n => o = p
  BY CalmFacts DEF OrphanTypes
<1>3. CASE OrphanDraw(o)
  <2> DEFINE d == [o EXCEPT !.id = drawn + 1]
  <2>1. /\ orphans' = (orphans \ {o}) \cup {d} /\ UNCHANGED store
        /\ o.op = "create"
    BY <1>3 DEF OrphanDraw
  <2>2. d.of = o.of /\ d.op = o.op /\ d.n = o.n
    BY <1>2
  <2> HIDE DEF d
  <2>3. LateCall(d) = LateCall(o)
    BY <2>1, <2>2 DEF LateCall
  <2>4. Late' = {LateCall(p) : p \in (orphans \ {o}) \cup {d}}
    BY <2>1 DEF Late, LateCall
  <2>5. Late' = Late
    BY <2>3, <2>4 DEF Late
  <2> QED
    BY <1>1, <2>1, <2>5, StutterIs
<1>4. CASE OrphanWrite(o)
  <2> DEFINE l == LateCall(o)
             k == o.id
  <2>1. /\ orphans' = orphans \ {o}
        /\ k \in Id /\ Owner[o.of] \in User
        /\ \/ o.op = "create" /\ store' = With(k, Owner[o.of])
           \/ o.op = "delete" /\ store' = Without(k)
    BY <1>4, CalmFacts, OrphanWrites DEF OrphanWrite
  <2>2. \A p \in orphans \ {o} : LateCall(p) # l
    <3>1. \A p : LateCall(p).by = p.of /\ LateCall(p).n = p.n
      BY DEF LateCall
    <3> QED
      BY <1>2, <3>1
  <2>3. Late' = Late \ {l} /\ l \in Late
    <3>1. Late' = {LateCall(p) : p \in orphans \ {o}}
      BY <2>1 DEF Late, LateCall
    <3> QED
      BY <2>2, <3>1 DEF Late
  <2>4. Due' = Due /\ Told' = Told
    BY <1>1 DEF Keeps, Due, Told
  <2>5. CASE o.op = "create"
    <3>1. l.call = Store!Wants("open", 0)
      BY <2>5 DEF LateCall, WantOf, Store!Wants
    <3>2. store' = With(k, Owner[o.of])
      BY <2>1, <2>5
    <3> HIDE DEF l, k
    <3>3. Store!LateOpen(l, k, Owner[o.of])
      BY <2>3, <2>4, <3>1, <3>2 DEF Store!LateOpen, Store!Adds, With, Due, Told, Late
    <3> QED
      BY <2>1, <2>3, <3>3 DEF Simulates, Store!Next, Late
  <2>6. CASE o.op = "delete"
    <3>1. l.call = Store!Wants("close", k)
      BY <2>6 DEF LateCall, WantOf, Store!Wants
    <3>2. store' = Without(k)
      BY <2>1, <2>6
    <3> HIDE DEF l, k
    <3>3. Store!LateClose(l, k)
      BY <2>3, <2>4, <3>1, <3>2 DEF Store!LateClose, Store!Drops, Store!Restrict,
         Without, Restrict, Due, Told, Late
    <3> QED
      BY <2>1, <2>3, <3>3 DEF Simulates, Store!Next, Late
  <2> QED
    BY <2>1, <2>5, <2>6
<1> QED
  BY <1>3, <1>4

LEMMA StoreNext ==
  ASSUME Calm, SessionTypes', WireIsHeld', ~crossed', ~raced', [Next]_vars
  PROVE  Simulates
<1>1. ASSUME NEW t \in Tab, Goes(t)
      PROVE  Simulates
  BY <1>1, DrawIs, ReturnIs, SendCommandIs, ReadReplyIs, AnswerIs, FailureIs
  DEF Goes
<1>2. CASE Start \/ UNCHANGED vars
  <2>1. UNCHANGED <<pc, req, reply, answer, wire, store, orphans>>
    BY <1>2 DEF Start, vars
  <2> QED
    BY <2>1, AllAreKept, StutterIs, LateStays
<1> QED
  BY <1>1, <1>2, AskIs, FailureIs, OrphanIs DEF Next, Ops

(* Every manager, seen through its pages, is one map whose operations take *)
(* effect in one step between the call and the answer, or, if the call     *)
(* failed, once at any later time or never, for any number of tabs, ids and*)
(* faults: proved with CrashInv, HeldInv and FitInv.                       *)
THEOREM StoreRefinedCorrect == Spec => StoreRefined
<1>1. Init => Store!Init
  <2> SUFFICES ASSUME Init PROVE Store!Init
    OBVIOUS
  <2>1. \A t \in Tab : DueTo(t) = Store!Nothing /\ Shown(answer[t]) = Store!Nothing
    BY ShownAre DEF Init, DueTo, Store!Nothing
  <2> QED
    BY <2>1 DEF Init, Store!Init
<1>2. CrashInv /\ HeldInv /\ FitInv /\ (CrashInv /\ HeldInv)' /\ [Next]_vars
        => [\/ crossed' \/ raced' \/ program = "balanced"
            \/ NoLogin \in User /\ program \in ZeroSession
            \/ Store!Next]_(Store!storeVars)
  <2> SUFFICES ASSUME CrashInv, HeldInv, FitInv, (CrashInv /\ HeldInv)',
                      [Next]_vars, ~crossed', ~raced', program # "balanced",
                      ~(NoLogin \in User /\ program \in ZeroSession)
               PROVE  Simulates
    BY DEF Simulates
  <2>1. Calm /\ SessionTypes' /\ WireIsHeld'
    BY NextGrows DEF Grows, Calm, CrashInv, HeldInv
  <2> QED
    BY <2>1, StoreNext
<1> QED
  BY <1>1, <1>2, FitInvariant, PTL DEF Spec, StoreRefined
=============================================================================
