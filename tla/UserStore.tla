----------------------------- MODULE UserStore ------------------------------
(***************************************************************************)
(* What hw5.md and the tests of src/hw5_codegen promise of the user API:   *)
(* every request is answered as if it were served alone, at one moment     *)
(* after its arrival; the checks come in the documented order; ids are     *)
(* consecutive, and a login is given once.                                 *)
(***************************************************************************)
EXTENDS ApiParams, FiniteSets

CONSTANTS
  Request,
  Queries,     \* what each may be: see UserApi
  Nothing      \* no query

VARIABLES users, query, answer

vars == <<users, query, answer>>

Answer(status, body) == [status |-> status, body |-> body]
Pending == Answer(0, Nothing)

Fields(q) ==
  CASE q.path = "/user/profile" -> ProfileParams
    [] q.path = "/user/create" /\ q.api = "MyApi" -> CreateParams
    [] OTHER -> OtherCreateParams

Known(q) ==
  q.path = "/user/create" \/ (q.path = "/user/profile" /\ q.api = "MyApi")

(* The refusal of a request whatever the users are, or Pending.            *)
Refusal(q) ==
  LET bad == NotMet(Fields(q), q.form)
      create == q.path = "/user/create"
  IN
  IF ~Known(q) THEN Answer(404, "unknown method")
  ELSE IF create /\ ~q.post THEN Answer(406, "bad method")
  ELSE IF create /\ ~q.auth THEN Answer(403, "unauthorized")
  ELSE IF bad # {}
    THEN Answer(400, FirstOf(Fields(q), bad))
  ELSE Pending

Login(q) == FormValue(q.form, "login").word

Number(status) ==
  CASE status = "admin" -> 20 [] status = "moderator" -> 10
    [] status = "user" -> 0

Init ==
  /\ users = [l \in {"rvasily"} |-> [login |-> l, id |-> 42, status |-> 20]]
  /\ query = [r \in Request |-> Nothing]
  /\ answer = [r \in Request |-> Pending]

Arrive(r) ==
  /\ query[r] = Nothing
  /\ \E q \in Queries[r] : query' = [query EXCEPT ![r] = q]
  /\ UNCHANGED <<users, answer>>

Reply(r, a) == answer' = [answer EXCEPT ![r] = a]

Waits(r) == query[r] # Nothing /\ answer[r] = Pending

Refuse(r) ==
  /\ Waits(r) /\ Refusal(query[r]) # Pending
  /\ Reply(r, Refusal(query[r]))
  /\ UNCHANGED <<users, query>>

(* The two logins the tests use for errors of the method itself.           *)
Bad(r) ==
  /\ Waits(r) /\ Refusal(query[r]) = Pending /\ query[r].api = "MyApi"
  /\ Login(query[r]) = IF query[r].path = "/user/create"
                       THEN "bad_username" ELSE "bad_user"
  /\ Reply(r, Answer(500, "bad user"))
  /\ UNCHANGED <<users, query>>

Profile(r) ==
  LET l == Login(query[r]) IN
  /\ Waits(r) /\ Refusal(query[r]) = Pending
  /\ query[r].path = "/user/profile" /\ l # "bad_user"
  /\ Reply(r, IF l \in DOMAIN users THEN Answer(200, users[l])
              ELSE Answer(404, "user not exist"))
  /\ UNCHANGED <<users, query>>

Create(r) ==
  LET l == Login(query[r])
      id == 42 + Cardinality(DOMAIN users)
      new == [login |-> l, id |-> id,
              status |-> Number(Given(CreateParams[3], query[r].form).word)]
  IN
  /\ Waits(r) /\ Refusal(query[r]) = Pending
  /\ query[r].path = "/user/create" /\ query[r].api = "MyApi"
  /\ l # "bad_username"
  /\ IF l \in DOMAIN users
     THEN Reply(r, Answer(409, "user exist")) /\ UNCHANGED users
     ELSE /\ Reply(r, Answer(200, id))
          /\ users' = [k \in DOMAIN users \cup {l} |->
                         IF k = l THEN new ELSE users[k]]
  /\ UNCHANGED query

OtherCreate(r) ==
  /\ Waits(r) /\ Refusal(query[r]) = Pending /\ query[r].api = "OtherApi"
  /\ Reply(r, Answer(200, FormValue(query[r].form, "level").int))
  /\ UNCHANGED <<users, query>>

Next ==
  \E r \in Request :
    \/ Arrive(r) \/ Refuse(r) \/ Bad(r) \/ Profile(r) \/ Create(r)
    \/ OtherCreate(r)

Spec == Init /\ [][Next]_vars
=============================================================================
