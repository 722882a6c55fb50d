------------------------------ MODULE UserApi -------------------------------
(***************************************************************************)
(* The HTTP API of src/hw5_codegen: the generated ServeHTTP and wrappers   *)
(* of api_handlers.go around the methods of api.go.  Requests are served   *)
(* concurrently, one goroutine each; Profile and Create share the map of   *)
(* users and nextID under an RWMutex.  Contents of forms but the ones      *)
(* answers depend on, and JSON, are left out.                              *)
(***************************************************************************)
EXTENDS ApiParams, FiniteSets

CONSTANTS
  Request,     \* goroutines that serve one request each
  Queries,     \* what each may be: api, path, post, auth, a form of texts
  Nothing      \* no query, no body, nobody

(* A text without characters is Empty: it is no number.                    *)
IsQuery(q) ==
  /\ q.api \in {"MyApi", "OtherApi"} /\ {q.post, q.auth} \subseteq BOOLEAN
  /\ \A n \in DOMAIN q.form : q.form[n].word = "" <=> q.form[n] = Empty

ASSUME UserApiAssumption ==
  /\ Nothing \notin Request
  /\ \A r \in Request :
       Nothing \notin Queries[r] /\ \A q \in Queries[r] : IsQuery(q)

VARIABLES
  users, nextID,
  writer, readers,  \* mu: who holds it for writing, who for reading
  query,       \* the request of a goroutine
  pc,          \* "new", "serve", "profile", "read", "create", "check",
               \* "number", "store", "runlock", "unlock" or "done"
  id,          \* Create: the id taken from nextID
  answer       \* status and body

mutex == <<writer, readers>>
vars == <<users, nextID, mutex, query, pc, id, answer>>

Answer(status, body) == [status |-> status, body |-> body]
Pending == Answer(0, Nothing)

statuses == [user |-> 0, moderator |-> 10, admin |-> 20]

Init ==
  /\ users = [l \in {"rvasily"} |-> [login |-> l, id |-> 42, status |-> 20]]
  /\ nextID = 43
  /\ writer = Nothing /\ readers = {}
  /\ query = [r \in Request |-> Nothing]
  /\ pc = [r \in Request |-> "new"]
  /\ id = [r \in Request |-> 0]
  /\ answer = [r \in Request |-> Pending]

Goto(r, l) == pc' = [pc EXCEPT ![r] = l]
Write(r, a) == answer' = [answer EXCEPT ![r] = a]

Receive(r) ==
  /\ pc[r] = "new"
  /\ \E q \in Queries[r] : query' = [query EXCEPT ![r] = q]
  /\ Goto(r, "serve")
  /\ UNCHANGED <<users, nextID, mutex, id, answer>>

-----------------------------------------------------------------------------
(* ServeHTTP and the wrappers: the first check that fails answers.         *)

(* The wrapper ServeHTTP calls, or its own refusal.                        *)
ServeHTTP(q) ==
  CASE q.path = "/user/profile" /\ q.api = "MyApi" -> "wrapperProfile"
    [] q.path = "/user/create" /\ q.post -> "wrapperCreate"
    [] q.path = "/user/create" /\ ~q.post -> "bad method"
    [] OTHER -> "unknown method"

Params(q) ==
  CASE ServeHTTP(q) = "wrapperProfile" -> ProfileParams
    [] ServeHTTP(q) = "wrapperCreate" /\ q.api = "MyApi" -> CreateParams
    [] OTHER -> OtherCreateParams

Login(q) == FormValue(q.form, "login").word

(* The answer of ServeHTTP or the wrapper before the method is called.     *)
Refused(q) ==
  CASE ServeHTTP(q) = "unknown method" -> Answer(404, "unknown method")
    [] ServeHTTP(q) = "bad method" -> Answer(406, "bad method")
    [] ServeHTTP(q) \in {"wrapperCreate", "wrapperProfile"} ->
         IF ServeHTTP(q) = "wrapperCreate" /\ ~q.auth
         THEN Answer(403, "unauthorized")
         ELSE IF Wrong(Params(q), q.form) # {}
         THEN Answer(400, FirstOf(Params(q), Wrong(Params(q), q.form)))
         ELSE Pending

Refuse(r) ==
  /\ pc[r] = "serve" /\ Refused(query[r]) # Pending
  /\ Write(r, Refused(query[r])) /\ Goto(r, "done")
  /\ UNCHANGED <<users, nextID, mutex, query, id>>

Calls(r, api, wrapper) ==
  /\ pc[r] = "serve" /\ Refused(query[r]) = Pending
  /\ query[r].api = api /\ ServeHTTP(query[r]) = wrapper

(* OtherApi.Create keeps nothing.                                          *)
OtherCreate(r) ==
  /\ Calls(r, "OtherApi", "wrapperCreate")
  /\ Write(r, Answer(200, FormValue(query[r].form, "level").int))
  /\ Goto(r, "done")
  /\ UNCHANGED <<users, nextID, mutex, query, id>>

(* Both methods of MyApi begin with a login they answer with an error.     *)
Begin(r, wrapper, bad, method) ==
  /\ Calls(r, "MyApi", wrapper)
  /\ IF Login(query[r]) = bad
     THEN Write(r, Answer(500, "bad user")) /\ Goto(r, "done")
     ELSE Goto(r, method) /\ UNCHANGED answer
  /\ UNCHANGED <<users, nextID, mutex, query, id>>

-----------------------------------------------------------------------------
(* MyApi.Profile.                                                          *)

CallProfile(r) == Begin(r, "wrapperProfile", "bad_user", "profile")

RLock(r) ==
  /\ pc[r] = "profile" /\ writer = Nothing
  /\ readers' = readers \cup {r} /\ Goto(r, "read")
  /\ UNCHANGED <<users, nextID, writer, query, id, answer>>

ReadUser(r) ==
  LET l == Login(query[r]) IN
  /\ pc[r] = "read"
  /\ Write(r, IF l \in DOMAIN users THEN Answer(200, users[l])
              ELSE Answer(404, "user not exist"))
  /\ Goto(r, "runlock")
  /\ UNCHANGED <<users, nextID, mutex, query, id>>

RUnlock(r) ==
  /\ pc[r] = "runlock"
  /\ readers' = readers \ {r} /\ Goto(r, "done")
  /\ UNCHANGED <<users, nextID, writer, query, id, answer>>

-----------------------------------------------------------------------------
(* MyApi.Create.                                                           *)

CallCreate(r) == Begin(r, "wrapperCreate", "bad_username", "create")

(* Faulty: a lock for reading.                                             *)
Lock_Shared(r) ==
  /\ pc[r] = "create" /\ writer = Nothing
  /\ readers' = readers \cup {r} /\ Goto(r, "check")
  /\ UNCHANGED <<users, nextID, writer, query, id, answer>>

Lock(r) ==
  /\ pc[r] = "create" /\ writer = Nothing /\ readers = {}
  /\ writer' = r /\ Goto(r, "check")
  /\ UNCHANGED <<users, nextID, readers, query, id, answer>>

(* Faulty: a conflict returns with the lock held.                          *)
CheckExists_KeepsLock(r) ==
  /\ pc[r] = "check"
  /\ IF Login(query[r]) \in DOMAIN users
     THEN Write(r, Answer(409, "user exist")) /\ Goto(r, "done")
     ELSE Goto(r, "number") /\ UNCHANGED answer
  /\ UNCHANGED <<users, nextID, mutex, query, id>>

CheckExists(r) ==
  /\ pc[r] = "check"
  /\ IF Login(query[r]) \in DOMAIN users
     THEN Write(r, Answer(409, "user exist")) /\ Goto(r, "unlock")
     ELSE Goto(r, "number") /\ UNCHANGED answer
  /\ UNCHANGED <<users, nextID, mutex, query, id>>

TakeID(r) ==
  /\ pc[r] = "number"
  /\ id' = [id EXCEPT ![r] = nextID] /\ nextID' = nextID + 1
  /\ Goto(r, "store")
  /\ UNCHANGED <<users, mutex, query, answer>>

(* The wrapper has put the default in the place of an empty status.        *)
StoreUser(r) ==
  LET l == Login(query[r])
      status == Filled(CreateParams[3], FormValue(query[r].form, "status"))
  IN
  /\ pc[r] = "store"
  /\ users' = [k \in DOMAIN users \cup {l} |->
                 IF k = l THEN [login |-> l, id |-> id[r],
                                status |-> statuses[status]]
                 ELSE users[k]]
  /\ Write(r, Answer(200, id[r])) /\ Goto(r, "unlock")
  /\ UNCHANGED <<nextID, mutex, query, id>>

Unlock(r) ==
  /\ pc[r] = "unlock"
  /\ writer' = Nothing /\ Goto(r, "done")
  /\ UNCHANGED <<users, nextID, readers, query, id, answer>>

-----------------------------------------------------------------------------
Serve(r) ==
  \/ Refuse(r) \/ OtherCreate(r)
  \/ CallProfile(r) \/ RLock(r) \/ ReadUser(r) \/ RUnlock(r)
  \/ CallCreate(r) \/ Lock(r) \/ CheckExists(r) \/ TakeID(r) \/ StoreUser(r)
  \/ Unlock(r)

Next == \E r \in Request : Receive(r) \/ Serve(r)

Spec == Init /\ [][Next]_vars

(* A goroutine that can go on does.  Each serves one request, so nobody is *)
(* overtaken at the mutex for ever.                                        *)
FairSpec == Spec /\ \A r \in Request : WF_vars(Serve(r))

-----------------------------------------------------------------------------
Store == INSTANCE UserStore

(* The requests that run at once are answered as the documented API would  *)
(* one by one: order of errors, fields against their tags, a login and an  *)
(* id given once, a profile as of one moment.                              *)
UsersRefined == Store!Spec

(* defer srv.mu.Unlock(): every way out of a method leaves the mutex free, *)
(* so each request that arrives is answered.                               *)
EveryRequestIsAnswered ==
  \A r \in Request : pc[r] = "serve" ~> pc[r] = "done"
=============================================================================
