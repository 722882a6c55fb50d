--------------------------- MODULE UserApiProofs ---------------------------
(***************************************************************************)
(* UserApi implements UserStore, for any number of requests and whatever   *)
(* they ask; and codegen.go makes of every structure, and of api.go, what  *)
(* hw5.md and api_handlers.go have, whatever the tags and the forms. At    *)
(* the end: nobody waits at the mutex for somebody who cannot go on.       *)
(***************************************************************************)
EXTENDS Generator, FiniteSetTheorems, WellFoundedInduction, TLAPS

Labels ==
  {"new", "serve", "profile", "read", "create", "check", "number", "store",
   "runlock", "unlock", "done"}

(* In MyApi.Profile, or MyApi.Create, with the answer to come.             *)
InProfile == {"profile", "read"}
InCreate == {"create", "check", "number", "store"}

ApiTypes ==
  /\ DOMAIN query = Request /\ DOMAIN answer = Request
  /\ pc \in [Request -> Labels] /\ id \in [Request -> Int]
  /\ IsFiniteSet(DOMAIN users) /\ nextID \in Int

(* A request that was received is one of its queries.                      *)
Received ==
  \A r \in Request :
    IF pc[r] = "new" THEN query[r] = Nothing ELSE query[r] \in Queries[r]

(* Nothing has been answered before the method is through, and a method is *)
(* only reached by requests that were not refused.                         *)
Unanswered ==
  \A r \in Request :
    pc[r] \in {"new", "serve"} \cup InProfile \cup InCreate
      => answer[r] = Pending

Called ==
  \A r \in Request :
    /\ pc[r] \in InProfile \cup InCreate =>
         Refused(query[r]) = Pending /\ query[r].api = "MyApi"
    /\ pc[r] \in InProfile =>
         ServeHTTP(query[r]) = "wrapperProfile" /\ Login(query[r]) # "bad_user"
    /\ pc[r] \in InCreate =>
         ServeHTTP(query[r]) = "wrapperCreate" /\ Login(query[r]) # "bad_username"

(* The mutex: whoever is in Create between Lock and Unlock is the writer.  *)
OneWriter ==
  \A r \in Request : pc[r] \in {"check", "number", "store", "unlock"} => writer = r

(* Under it the login stays free, and the next id is one past the users    *)
(* there are, or past the one about to be stored.                          *)
LoginIsFree ==
  \A r \in Request :
    pc[r] \in {"number", "store"} => Login(query[r]) \notin DOMAIN users

Storing == \E r \in Request : pc[r] = "store"

IdsAreConsecutive ==
  /\ ~Storing => nextID = 42 + Cardinality(DOMAIN users)
  /\ \A r \in Request : pc[r] = "store" =>
       /\ id[r] = 42 + Cardinality(DOMAIN users)
       /\ nextID = id[r] + 1

ApiInv ==
  /\ ApiTypes /\ Received /\ Unanswered /\ Called /\ OneWriter /\ LoginIsFree
  /\ IdsAreConsecutive

(* ApiInv is inductive.                                                    *)
LEMMA ApiInvInvariant == Spec => []ApiInv
<1> USE UserApiAssumption
<1>1. Init => ApiInv
  <2>1. Cardinality({"rvasily"}) = 1 /\ IsFiniteSet({"rvasily"})
    BY FS_Singleton
  <2> SUFFICES ASSUME Init
               PROVE  ApiInv
    OBVIOUS
  <2>2. DOMAIN users = {"rvasily"}
    BY DEF Init
  <2> QED
    BY <2>1, <2>2
    DEF Init, ApiInv, ApiTypes, Received, Unanswered, Called, OneWriter,
        LoginIsFree, IdsAreConsecutive, Storing, Labels, InProfile, InCreate
<1>2. ApiInv /\ [Next]_vars => ApiInv'
  <2> SUFFICES ASSUME ApiInv, [Next]_vars
               PROVE  ApiInv'
    OBVIOUS
  <2> USE DEF ApiInv, ApiTypes, Received, Unanswered, Called, OneWriter,
              LoginIsFree, IdsAreConsecutive, Storing, Labels, InProfile,
              InCreate, mutex, Goto, Write
  <2>0. Cardinality(DOMAIN users) \in Int
    BY FS_CardinalityType
  <2>1. ASSUME NEW r \in Request, Receive(r)
        PROVE  ApiInv'
    BY <2>1 DEF Receive
  <2>2. ASSUME NEW r \in Request, Refuse(r)
        PROVE  ApiInv'
    BY <2>2 DEF Refuse
  <2>3. ASSUME NEW r \in Request, OtherCreate(r)
        PROVE  ApiInv'
    BY <2>3 DEF OtherCreate, Calls
  <2>4. ASSUME NEW r \in Request, CallProfile(r)
        PROVE  ApiInv'
    <3>1. /\ pc[r] = "serve" /\ Refused(query[r]) = Pending
          /\ query[r].api = "MyApi" /\ ServeHTTP(query[r]) = "wrapperProfile"
          /\ \/ /\ pc' = [pc EXCEPT ![r] = "done"]
                /\ DOMAIN answer' = Request
                /\ \A q \in Request \ {r} : answer'[q] = answer[q]
             \/ /\ pc' = [pc EXCEPT ![r] = "profile"]
                /\ Login(query[r]) # "bad_user" /\ answer' = answer
          /\ UNCHANGED <<users, nextID, mutex, query, id>>
      <4>1. DOMAIN answer = Request
        OBVIOUS
      <4>2. /\ pc[r] = "serve" /\ Refused(query[r]) = Pending
            /\ query[r].api = "MyApi" /\ ServeHTTP(query[r]) = "wrapperProfile"
            /\ UNCHANGED <<users, nextID, mutex, query, id>>
        BY <2>4 DEF CallProfile, Begin, Calls
      <4> HIDE DEF ApiInv, ApiTypes, Received, Unanswered, Called, OneWriter,
                   LoginIsFree, IdsAreConsecutive
      <4>3. CASE Login(query[r]) = "bad_user"
        <5>1. /\ pc' = [pc EXCEPT ![r] = "done"]
              /\ answer' = [answer EXCEPT ![r] = Answer(500, "bad user")]
          BY <2>4, <4>3 DEF CallProfile, Begin
        <5> HIDE DEF Answer
        <5>2. DOMAIN answer' = Request
          BY <4>1, <5>1
        <5>3. \A q \in Request \ {r} : answer'[q] = answer[q]
          BY <4>1, <5>1
        <5> QED
          BY <4>2, <5>1, <5>2, <5>3
      <4>4. CASE Login(query[r]) # "bad_user"
        BY <2>4, <4>2, <4>4 DEF CallProfile, Begin
      <4> QED
        BY <4>3, <4>4
    <3> HIDE DEF ApiInv
    <3>2. CASE /\ pc' = [pc EXCEPT ![r] = "done"]
               /\ DOMAIN answer' = Request
               /\ \A q \in Request \ {r} : answer'[q] = answer[q]
      <4>1. (ApiTypes /\ Received /\ Unanswered /\ Called)'
        BY <3>1, <3>2 DEF ApiInv
      <4>2. (OneWriter /\ LoginIsFree /\ IdsAreConsecutive)'
        BY <3>1, <3>2 DEF ApiInv
      <4> QED
        BY <4>1, <4>2 DEF ApiInv
    <3>3. CASE /\ pc' = [pc EXCEPT ![r] = "profile"] /\ answer' = answer
               /\ Login(query[r]) # "bad_user"
      <4>1. (ApiTypes /\ Received /\ Unanswered /\ Called)'
        BY <3>1, <3>3 DEF ApiInv
      <4>2. (OneWriter /\ LoginIsFree /\ IdsAreConsecutive)'
        BY <3>1, <3>3 DEF ApiInv
      <4> QED
        BY <4>1, <4>2 DEF ApiInv
    <3> QED
      BY <3>1, <3>2, <3>3
  <2>5. ASSUME NEW r \in Request, RLock(r)
        PROVE  ApiInv'
    BY <2>5 DEF RLock
  <2>6. ASSUME NEW r \in Request, ReadUser(r)
        PROVE  ApiInv'
    BY <2>6 DEF ReadUser
  <2>7. ASSUME NEW r \in Request, RUnlock(r)
        PROVE  ApiInv'
    BY <2>7 DEF RUnlock
  <2>8. ASSUME NEW r \in Request, CallCreate(r)
        PROVE  ApiInv'
    <3>1. /\ pc[r] = "serve" /\ Refused(query[r]) = Pending
          /\ query[r].api = "MyApi" /\ ServeHTTP(query[r]) = "wrapperCreate"
          /\ \/ /\ pc' = [pc EXCEPT ![r] = "done"]
                /\ DOMAIN answer' = Request
                /\ \A q \in Request \ {r} : answer'[q] = answer[q]
             \/ /\ pc' = [pc EXCEPT ![r] = "create"]
                /\ Login(query[r]) # "bad_username" /\ answer' = answer
          /\ UNCHANGED <<users, nextID, mutex, query, id>>
      <4>1. DOMAIN answer = Request
        OBVIOUS
      <4>2. /\ pc[r] = "serve" /\ Refused(query[r]) = Pending
            /\ query[r].api = "MyApi" /\ ServeHTTP(query[r]) = "wrapperCreate"
            /\ UNCHANGED <<users, nextID, mutex, query, id>>
        BY <2>8 DEF CallCreate, Begin, Calls
      <4> HIDE DEF ApiInv, ApiTypes, Received, Unanswered, Called, OneWriter,
                   LoginIsFree, IdsAreConsecutive
      <4>3. CASE Login(query[r]) = "bad_username"
        <5>1. /\ pc' = [pc EXCEPT ![r] = "done"]
              /\ answer' = [answer EXCEPT ![r] = Answer(500, "bad user")]
          BY <2>8, <4>3 DEF CallCreate, Begin
        <5> HIDE DEF Answer
        <5>2. DOMAIN answer' = Request
          BY <4>1, <5>1
        <5>3. \A q \in Request \ {r} : answer'[q] = answer[q]
          BY <4>1, <5>1
        <5> QED
          BY <4>2, <5>1, <5>2, <5>3
      <4>4. CASE Login(query[r]) # "bad_username"
        BY <2>8, <4>2, <4>4 DEF CallCreate, Begin
      <4> QED
        BY <4>3, <4>4
    <3> HIDE DEF ApiInv
    <3>2. CASE /\ pc' = [pc EXCEPT ![r] = "done"]
               /\ DOMAIN answer' = Request
               /\ \A q \in Request \ {r} : answer'[q] = answer[q]
      <4>1. (ApiTypes /\ Received /\ Unanswered /\ Called)'
        BY <3>1, <3>2 DEF ApiInv
      <4>2. (OneWriter /\ LoginIsFree /\ IdsAreConsecutive)'
        BY <3>1, <3>2 DEF ApiInv
      <4> QED
        BY <4>1, <4>2 DEF ApiInv
    <3>3. CASE /\ pc' = [pc EXCEPT ![r] = "create"] /\ answer' = answer
               /\ Login(query[r]) # "bad_username"
      <4>1. (ApiTypes /\ Received /\ Unanswered /\ Called)'
        BY <3>1, <3>3 DEF ApiInv
      <4>2. (OneWriter /\ LoginIsFree /\ IdsAreConsecutive)'
        BY <3>1, <3>3 DEF ApiInv
      <4> QED
        BY <4>1, <4>2 DEF ApiInv
    <3> QED
      BY <3>1, <3>2, <3>3
  <2>9. ASSUME NEW r \in Request, Lock(r)
        PROVE  ApiInv'
    BY <2>9 DEF Lock
  <2>10. ASSUME NEW r \in Request, CheckExists(r)
         PROVE  ApiInv'
    <3>1. /\ pc[r] = "check" /\ UNCHANGED <<users, nextID, mutex, query, id>>
          /\ \A q \in Request \ {r} : pc'[q] = pc[q] /\ answer'[q] = answer[q]
      <4>1. DOMAIN answer = Request /\ DOMAIN pc = Request
        OBVIOUS
      <4> HIDE DEF ApiInv, ApiTypes, Received, Unanswered, Called, OneWriter,
                   LoginIsFree, IdsAreConsecutive
      <4>2. pc[r] = "check" /\ UNCHANGED <<users, nextID, mutex, query, id>>
        BY <2>10 DEF CheckExists
      <4>3. \A q \in Request \ {r} : pc'[q] = pc[q]
        BY <2>10, <4>1 DEF CheckExists
      <4>4. \A q \in Request \ {r} : answer'[q] = answer[q]
        BY <2>10, <4>1 DEF CheckExists
      <4> QED
        BY <4>2, <4>3, <4>4
    <3>2. \/ pc'[r] = "unlock"
          \/ /\ pc'[r] = "number" /\ answer'[r] = answer[r]
             /\ Login(query[r]) \notin DOMAIN users
      BY <2>10 DEF CheckExists
    <3>3. ApiTypes'
      BY <2>10 DEF CheckExists
    <3>4. Received' /\ Called' /\ OneWriter' /\ LoginIsFree'
      <4>1. Received /\ Called /\ OneWriter /\ LoginIsFree
        OBVIOUS
      <4> HIDE DEF ApiInv, ApiTypes
      <4> QED
        BY <3>1, <3>2, <4>1
    <3>5. Unanswered'
      <4>1. Unanswered
        OBVIOUS
      <4> HIDE DEF ApiInv, ApiTypes
      <4> QED
        BY <3>1, <3>2, <4>1
    <3>6. IdsAreConsecutive'
      <4>1. IdsAreConsecutive
        OBVIOUS
      <4> HIDE DEF ApiInv, ApiTypes
      <4> QED
        BY <3>1, <3>2, <4>1
    <3> QED
      BY <3>3, <3>4, <3>5, <3>6
  <2>11. ASSUME NEW r \in Request, TakeID(r)
         PROVE  ApiInv'
    BY <2>0, <2>11 DEF TakeID
  <2>12. ASSUME NEW r \in Request, StoreUser(r)
         PROVE  ApiInv'
    <3> DEFINE l == Login(query[r])
    <3>1. l \notin DOMAIN users /\ pc[r] = "store"
      BY <2>12 DEF StoreUser
    <3>2. DOMAIN users' = DOMAIN users \cup {l}
      BY <2>12 DEF StoreUser
    <3>3. /\ IsFiniteSet(DOMAIN users')
          /\ Cardinality(DOMAIN users') = Cardinality(DOMAIN users) + 1
      BY <3>1, <3>2, FS_AddElement
    <3>4. /\ pc' = [pc EXCEPT ![r] = "unlock"]
          /\ DOMAIN answer' = Request
          /\ \A q \in Request \ {r} : answer'[q] = answer[q]
          /\ UNCHANGED <<nextID, mutex, query, id>>
      BY <2>12 DEF StoreUser
    <3>5. \A q \in Request \ {r} : pc[q] \notin {"number", "store"}
      BY <3>1
    <3> HIDE DEF l
    <3> QED
      BY <2>0, <3>1, <3>3, <3>4, <3>5
  <2>13. ASSUME NEW r \in Request, Unlock(r)
         PROVE  ApiInv'
    BY <2>13 DEF Unlock
  <2>14. CASE UNCHANGED vars
    BY <2>14 DEF vars
  <2> QED
    BY <2>1, <2>2, <2>3, <2>4, <2>5, <2>6, <2>7, <2>8, <2>9, <2>10, <2>11,
       <2>12, <2>13, <2>14 DEF Next, Serve
<1> QED
  BY <1>1, <1>2, PTL DEF Spec

(* The tags of the structures of api.go.                                   *)
LEMMA EnumTags ==
  ASSUME NEW n, NEW enum, NEW default
  PROVE  LET f == Enum(n, enum, default)
         IN  f.name = n /\ f.type = "string" /\ f.default = default
BY DEF Str, Enum

(* Tags that go together, as those of api.go and of what the generator     *)
(* supports do, and a default that is not ignored: a field passes the      *)
(* checks made for it exactly when its tags are met.                       *)
Checkable(f) ==
  /\ f.type \in {"string", "int"}
  /\ f.type = "string" => f.max = NoBound
  /\ f.enum # {} => f.type = "string"
  /\ f.type = "int" => ~f.required
  /\ f.min \in Int /\ f.default.len \in Nat
  /\ f.default.word = "" <=> f.default = Empty
  /\ ~DefaultIgnored(f)

(* A bound that is not positive bounds no length.                          *)
LEMMA NotPositive ==
  \A min \in Int, len \in Nat : ~(min > 0) => 0 >= min /\ len >= min
OBVIOUS

(* The checks made for a field refuse what does not meet its tags, and     *)
(* otherwise it has the value they are about.                              *)
LEMMA PassesIffMeets ==
  ASSUME NEW f, Checkable(f), NEW form,
         FormValue(form, f.name).word = "" <=> FormValue(form, f.name) = Empty
  PROVE  /\ Passes(f, FormValue(form, f.name)) <=> Meets(f, form)
         /\ Filled(f, FormValue(form, f.name)) = Given(f, form).word
<1> DEFINE v == FormValue(form, f.name)
<1>1. Empty.word = "" /\ Empty.len = 0 /\ Empty.int = NotInt
  BY DEF Empty, Txt
<1>2. v.word = "" <=> v = Empty
  OBVIOUS
<1> HIDE DEF v
<1>3. CASE v # Empty
  <2>1. Filled(f, v) = v.word /\ Given(f, form) = v
    BY <1>2, <1>3 DEF Filled, Given, v
  <2>2. Passes(f, v) <=> Meets(f, form)
    BY <1>2, <1>3, <2>1 DEF Checkable, Passes, Meets, apiParRequired,
       apiParMin, apiParMax, Size
  <2>3. QED
    BY <2>1, <2>2 DEF v
<1>4. CASE v = Empty
  <2>1. Given(f, form) = f.default
    BY <1>4 DEF Given, v
  <2>2. CASE f.default = Empty
    <3>1. Filled(f, v) = ""
      BY <1>1, <1>4, <2>2 DEF Filled
    <3>2. Passes(f, v) <=> Meets(f, form)
      BY <1>1, <1>4, <2>1, <2>2, <3>1 DEF Checkable, Passes, Meets,
         apiParRequired, apiParMin, apiParMax, Size
    <3>3. QED
      BY <1>1, <2>1, <2>2, <3>1, <3>2 DEF v
  <2>3. CASE f.default # Empty
    <3>1. f.enum # {} /\ ~f.required /\ ~(f.min > 0) /\ f.type = "string"
      BY <2>3 DEF Checkable, DefaultIgnored, HasEnum
    <3>2. Filled(f, v) = f.default.word
      BY <1>1, <1>4, <3>1 DEF Filled
    <3>min. f.min \in Int /\ f.default.len \in Nat
      BY DEF Checkable
    <3>3. apiParMin(f, v) /\ (f.min # NoBound => Size(f, f.default) >= f.min)
      <4>1. Size(f, v) = 0 /\ Size(f, f.default) = f.default.len
        BY <1>1, <1>4, <3>1 DEF Size
      <4>2. ~(f.min > 0)
        BY <3>1
      <4>3. 0 >= f.min /\ f.default.len >= f.min
        BY <3>min, <4>2, NotPositive, Zenon
      <4>4. QED
        BY <4>1, <4>3 DEF apiParMin
    <3>4. Passes(f, v) <=> Meets(f, form)
      BY <2>1, <3>1, <3>2, <3>3 DEF Passes, Meets, apiParRequired, apiParMax
    <3>5. QED
      BY <2>1, <3>2, <3>4 DEF v
  <2>4. QED
    BY <2>2, <2>3
<1>5. QED
  BY <1>3, <1>4

(* The tags of api.go go together.                                         *)
LEMMA ApiGoIsCheckable ==
  \A fields \in {ProfileParams, CreateParams, OtherCreateParams} :
    \A i \in DOMAIN fields : Checkable(fields[i])
<1>0. Empty.word = "" /\ Empty.len = 0
  BY DEF Empty, Txt
<1>zero. 0 \in Nat
  OBVIOUS
<1>1. ASSUME NEW f, f.type \in {"string", "int"}, f.type = "string" => f.max = NoBound,
             f.enum = {}, f.type = "int" => ~f.required, f.min \in Int,
             f.default = Empty
      PROVE  Checkable(f)
  <2>1. f.default.len \in Nat /\ f.default.word = ""
    BY <1>0, <1>1, <1>zero, Zenon
  <2>2. ~DefaultIgnored(f)
    BY <1>1 DEF DefaultIgnored
  <2> QED
    BY <1>1, <2>1, <2>2, Zenon DEF Checkable
<1>2. ASSUME NEW n, NEW r \in BOOLEAN, NEW min \in Int
      PROVE  Checkable(Str(n, r, min))
  <2> DEFINE f == Str(n, r, min)
  <2>1. /\ f.type = "string" /\ f.max = NoBound /\ f.enum = {} /\ f.min = min
        /\ f.default = Empty
    BY DEF Str
  <2> HIDE DEF f
  <2>2. Checkable(f)
    BY <1>1, <2>1
  <2> QED
    BY <2>2 DEF f
<1>3. ASSUME NEW n, NEW enum, enum # {}, NEW word, word # "", NEW len \in Nat
      PROVE  Checkable(Enum(n, enum, Txt(word, len, NotInt)))
  <2> DEFINE d == Txt(word, len, NotInt)
             f == Enum(n, enum, d)
  <2>1. /\ f.type = "string" /\ f.max = NoBound /\ f.enum = enum
        /\ f.min = NoBound /\ f.default = d /\ f.required = FALSE
    BY DEF Str, Enum
  <2>2. d.word = word /\ d.len = len
    BY DEF Txt
  <2>3. d # Empty
    BY <1>0, <1>3, <2>2
  <2> HIDE DEF d, f
  <2>4. f.min \in Int /\ ~(f.min > 0)
    BY <2>1 DEF NoBound
  <2>5. ~DefaultIgnored(f)
    BY <1>3, <2>1, <2>4 DEF DefaultIgnored, HasEnum
  <2>6. Checkable(f)
    BY <1>0, <1>3, <2>1, <2>2, <2>3, <2>4, <2>5 DEF Checkable
  <2> QED
    BY <2>6 DEF d, f
<1>4. ASSUME NEW n, NEW min \in Int, NEW max
      PROVE  Checkable(Num(n, min, max))
  <2> DEFINE f == Num(n, min, max)
  <2>1. /\ f.type = "int" /\ f.enum = {} /\ f.min = min
        /\ f.default = Empty /\ f.required = FALSE
    BY DEF Str, Num
  <2> HIDE DEF f
  <2>2. Checkable(f)
    BY <1>1, <2>1
  <2> QED
    BY <2>2 DEF f
<1>bounds. NoBound \in Int /\ 10 \in Int /\ 3 \in Int
  BY DEF NoBound
<1>flags. TRUE \in BOOLEAN /\ FALSE \in BOOLEAN
  OBVIOUS
<1>5. \A i \in DOMAIN ProfileParams : Checkable(ProfileParams[i])
  <2>1. Checkable(Str("login", TRUE, NoBound))
    BY <1>2, <1>bounds, <1>flags, Zenon
  <2>2. DOMAIN ProfileParams = {1} /\ ProfileParams[1] = Str("login", TRUE, NoBound)
    BY DEF ProfileParams
  <2> QED
    BY <2>1, <2>2
<1>6. \A i \in DOMAIN CreateParams : Checkable(CreateParams[i])
  <2>1. Checkable(CreateParams[1]) /\ Checkable(CreateParams[2])
    <3>1. /\ Checkable(Str("login", TRUE, 10))
          /\ Checkable(Str("full_name", FALSE, NoBound))
      BY <1>2, <1>bounds, <1>flags, Zenon
    <3> QED
      BY <3>1 DEF CreateParams
  <2>2. Checkable(CreateParams[3])
    BY <1>3 DEF CreateParams
  <2>3. Checkable(CreateParams[4])
    BY <1>4 DEF CreateParams
  <2>4. DOMAIN CreateParams = 1..4
    BY DEF CreateParams
  <2> QED
    BY <2>1, <2>2, <2>3, <2>4
<1>7. \A i \in DOMAIN OtherCreateParams : Checkable(OtherCreateParams[i])
  <2>1. Checkable(OtherCreateParams[1]) /\ Checkable(OtherCreateParams[2])
    <3>1. /\ Checkable(Str("username", TRUE, 3))
          /\ Checkable(Str("account_name", FALSE, NoBound))
      BY <1>2, <1>bounds, <1>flags, Zenon
    <3> QED
      BY <3>1 DEF OtherCreateParams
  <2>2. Checkable(OtherCreateParams[3])
    BY <1>3 DEF OtherCreateParams
  <2>3. Checkable(OtherCreateParams[4])
    BY <1>4 DEF OtherCreateParams
  <2>4. DOMAIN OtherCreateParams = 1..4
    BY DEF OtherCreateParams
  <2> QED
    BY <2>1, <2>2, <2>3, <2>4
<1> QED
  BY <1>5, <1>6, <1>7

(* The wrappers of api_handlers.go refuse exactly the fields that do not   *)
(* meet their tags.                                                        *)
LEMMA WrongNotMet ==
  ASSUME NEW q, IsQuery(q)
  PROVE  Wrong(Params(q), q.form) = NotMet(Params(q), q.form)
<1>1. \A n : FormValue(q.form, n).word = "" <=> FormValue(q.form, n) = Empty
  BY DEF IsQuery, FormValue, Empty, Txt
<1>2. \A i \in DOMAIN Params(q) : Checkable(Params(q)[i])
  BY ApiGoIsCheckable DEF Params
<1>3. ASSUME NEW f, Checkable(f)
      PROVE  Passes(f, FormValue(q.form, f.name)) <=> Meets(f, q.form)
  BY <1>1, <1>3, PassesIffMeets
<1> QED
  BY <1>2, <1>3 DEF Wrong, NotMet

(* UserStore knows the same tags.                                          *)
LEMMA SameTags ==
  /\ Store!ProfileParams = ProfileParams
  /\ Store!CreateParams = CreateParams
  /\ Store!OtherCreateParams = OtherCreateParams
  /\ \A f, form : Store!Given(f, form) = Given(f, form)
  /\ \A fields, form : Store!NotMet(fields, form) = NotMet(fields, form)
<1>1. Store!NotInt = NotInt /\ Store!NoBound = NoBound
  BY DEF Store!NotInt, NotInt, Store!NoBound, NoBound
<1>2. /\ \A w, len, int : Store!Txt(w, len, int) = Txt(w, len, int)
      /\ Store!Empty = Empty
  BY <1>1 DEF Store!Txt, Txt, Store!Empty, Empty
<1>3. \A n, r, min : Store!Str(n, r, min) = Str(n, r, min)
  BY <1>1, <1>2 DEF Store!Str, Str
<1>4. /\ \A n, enum, d : Store!Enum(n, enum, d) = Enum(n, enum, d)
      /\ \A n, min, max : Store!Num(n, min, max) = Num(n, min, max)
  BY <1>1, <1>3 DEF Store!Enum, Enum, Store!Num, Num
<1>5. /\ Store!ProfileParams = ProfileParams
      /\ Store!CreateParams = CreateParams
      /\ Store!OtherCreateParams = OtherCreateParams
  BY <1>1, <1>2, <1>3, <1>4 DEF Store!ProfileParams, ProfileParams,
     Store!CreateParams, CreateParams, Store!OtherCreateParams, OtherCreateParams
<1>6. \A f, form : Store!Given(f, form) = Given(f, form)
  BY <1>2 DEF Store!Given, Given, Store!FormValue, FormValue
<1>7. \A fields, form : Store!NotMet(fields, form) = NotMet(fields, form)
  BY <1>1, <1>2, <1>6 DEF Store!NotMet, NotMet, Store!Meets, Meets,
     Store!Size, Size
<1> QED
  BY <1>5, <1>6, <1>7

(* api_handlers.go refuses what the documentation refuses, and as it does. *)
LEMMA RefusedIsRefusal ==
  ASSUME NEW q, IsQuery(q)
  PROVE  Refused(q) = Store!Refusal(q)
<1>1. /\ q.api \in {"MyApi", "OtherApi"} /\ q.post \in BOOLEAN
      /\ q.auth \in BOOLEAN
  BY DEF IsQuery
<1>2. \A fields, form : Store!NotMet(fields, form) = NotMet(fields, form)
  BY SameTags
<1>3. \A fields, bad : Store!FirstOf(fields, bad) = FirstOf(fields, bad)
  BY DEF Store!FirstOf, FirstOf, Store!Min, Min
<1>4. ServeHTTP(q) \in {"wrapperProfile", "wrapperCreate"} =>
        Store!Fields(q) = Params(q)
  BY <1>1, SameTags DEF ServeHTTP, Store!Fields, Params
<1>5. Wrong(Params(q), q.form) = NotMet(Params(q), q.form)
  BY WrongNotMet
<1> DEFINE wrong == NotMet(Params(q), q.form)
           first == FirstOf(Params(q), wrong)
<1>6. Refused(q) =
        CASE ServeHTTP(q) = "unknown method" -> Answer(404, "unknown method")
          [] ServeHTTP(q) = "bad method" -> Answer(406, "bad method")
          [] ServeHTTP(q) \in {"wrapperCreate", "wrapperProfile"} ->
               IF ServeHTTP(q) = "wrapperCreate" /\ ~q.auth
               THEN Answer(403, "unauthorized")
               ELSE IF wrong # {} THEN Answer(400, first) ELSE Pending
  BY <1>5 DEF Refused
<1>7. ServeHTTP(q) \in {"wrapperProfile", "wrapperCreate"} =>
        /\ Store!NotMet(Store!Fields(q), q.form) = wrong
        /\ Store!FirstOf(Store!Fields(q), wrong) = first
  BY <1>2, <1>3, <1>4
<1> HIDE DEF wrong, first
<1> USE DEF Store!Refusal, Store!Known, Store!Answer, Store!Pending, Answer,
            Pending
<1>8. CASE ServeHTTP(q) = "wrapperProfile"
  <2>1. q.path = "/user/profile" /\ q.api = "MyApi"
    BY <1>1, <1>8 DEF ServeHTTP
  <2> QED
    BY <1>6, <1>7, <1>8, <2>1
<1>9. CASE ServeHTTP(q) = "wrapperCreate"
  <2>1. q.path = "/user/create" /\ q.post
    BY <1>1, <1>9 DEF ServeHTTP
  <2> QED
    BY <1>6, <1>7, <1>9, <2>1
<1>10. CASE ServeHTTP(q) = "bad method"
  <2>1. q.path = "/user/create" /\ ~q.post
    BY <1>1, <1>10 DEF ServeHTTP
  <2> QED
    BY <1>6, <1>10, <2>1
<1>11. CASE ServeHTTP(q) = "unknown method"
  <2>1. ~Store!Known(q)
    BY <1>1, <1>11 DEF ServeHTTP
  <2> QED
    BY <1>6, <1>11, <2>1
<1>12. ServeHTTP(q) \in {"wrapperProfile", "wrapperCreate", "bad method",
                          "unknown method"}
  BY <1>1 DEF ServeHTTP
<1> QED
  BY <1>8, <1>9, <1>10, <1>11, <1>12

(* Every step is one of UserStore, or changes nothing it knows.            *)
LEMMA UsersStep ==
  ASSUME ApiInv, [Next]_vars
  PROVE  [Store!Next]_Store!vars
<1> USE UserApiAssumption DEF Store!Reply, Write, Goto, Store!Waits
<1>a. \A q : Store!Login(q) = Login(q)
  BY DEF Store!Login, Login, Store!FormValue, FormValue, Store!Empty, Empty,
         Store!Txt, Txt, Store!NotInt, NotInt
<1>b. \A s, b : Store!Answer(s, b) = Answer(s, b) /\ Store!Pending = Pending
  BY DEF Store!Answer, Answer, Store!Pending, Pending
<1>c. ASSUME NEW r \in Request, pc[r] # "new"
      PROVE  /\ query[r] # Nothing
             /\ Refused(query[r]) = Store!Refusal(query[r])
             /\ query[r].api \in {"MyApi", "OtherApi"}
  BY <1>c, RefusedIsRefusal DEF ApiInv, Received, IsQuery
<1>d. ASSUME NEW r \in Request,
             pc[r] \in {"serve"} \cup InProfile \cup InCreate
      PROVE  Store!Waits(r)
  <2>1. pc[r] # "new"
    BY <1>d DEF InProfile, InCreate
  <2> QED
    BY <1>b, <1>c, <1>d, <2>1 DEF ApiInv, Unanswered
<1>1. ASSUME NEW r \in Request, Receive(r)
      PROVE  Store!Arrive(r)
  BY <1>1 DEF Receive, Store!Arrive, ApiInv, Received
<1>2. ASSUME NEW r \in Request, Refuse(r)
      PROVE  Store!Refuse(r)
  BY <1>2, <1>b, <1>c, <1>d DEF Refuse, Store!Refuse
<1>3. ASSUME NEW r \in Request, OtherCreate(r)
      PROVE  Store!OtherCreate(r)
  <2>1. \A form, n : Store!FormValue(form, n) = FormValue(form, n)
    BY DEF Store!FormValue, FormValue, Store!Empty, Empty, Store!Txt, Txt,
       Store!NotInt, NotInt
  <2>2. /\ pc[r] = "serve" /\ Refused(query[r]) = Pending
        /\ query[r].api = "OtherApi" /\ UNCHANGED <<users, query>>
        /\ Write(r, Answer(200, FormValue(query[r].form, "level").int))
    BY <1>3 DEF OtherCreate, Calls
  <2> QED
    BY <2>1, <2>2, <1>b, <1>c, <1>d DEF Store!OtherCreate
<1>4. ASSUME NEW r \in Request, CallProfile(r)
      PROVE  Store!Bad(r) \/ UNCHANGED Store!vars
  BY <1>4, <1>a, <1>b, <1>c, <1>d
  DEF CallProfile, Begin, Calls, Store!Bad, Store!vars, ServeHTTP
<1>5. ASSUME NEW r \in Request, CallCreate(r)
      PROVE  Store!Bad(r) \/ UNCHANGED Store!vars
  BY <1>5, <1>a, <1>b, <1>c, <1>d
  DEF CallCreate, Begin, Calls, Store!Bad, Store!vars, ServeHTTP
<1>6. ASSUME NEW r \in Request, ReadUser(r)
      PROVE  Store!Profile(r)
  BY <1>6, <1>a, <1>b, <1>c, <1>d
  DEF ReadUser, Store!Profile, ServeHTTP, ApiInv, Called, InProfile
<1>7. ASSUME NEW r \in Request, CheckExists(r)
      PROVE  Store!Create(r) \/ UNCHANGED Store!vars
  <2>1. /\ pc[r] = "check" /\ Refused(query[r]) = Pending
        /\ query[r].api = "MyApi" /\ ServeHTTP(query[r]) = "wrapperCreate"
        /\ Login(query[r]) # "bad_username"
    BY <1>7 DEF CheckExists, ApiInv, Called, InCreate
  <2>2. query[r].path = "/user/create"
    BY <2>1 DEF ServeHTTP
  <2>3. Store!Waits(r) /\ Store!Refusal(query[r]) = Store!Pending
    BY <1>b, <1>c, <1>d, <2>1 DEF InCreate
  <2>4. CASE Login(query[r]) \in DOMAIN users
    <3>1. answer' = [answer EXCEPT ![r] = Store!Answer(409, "user exist")]
          /\ UNCHANGED <<users, query>>
      BY <1>7, <1>b, <2>4 DEF CheckExists
    <3> QED
      BY <1>a, <2>1, <2>2, <2>3, <2>4, <3>1 DEF Store!Create
  <2>5. CASE Login(query[r]) \notin DOMAIN users
    BY <1>7, <2>5 DEF CheckExists, Store!vars
  <2> QED
    BY <2>4, <2>5
<1>8. ASSUME NEW r \in Request, StoreUser(r)
      PROVE  Store!Create(r)
  <2> DEFINE q == query[r]
             l == Login(q)
             status == Filled(CreateParams[3], FormValue(q.form, "status"))
  <2>1. /\ pc[r] = "store" /\ Refused(q) = Pending /\ q.api = "MyApi"
        /\ ServeHTTP(q) = "wrapperCreate" /\ l # "bad_username"
        /\ l \notin DOMAIN users
        /\ id[r] = 42 + Cardinality(DOMAIN users)
    BY <1>8 DEF StoreUser, ApiInv, Called, LoginIsFree, IdsAreConsecutive,
       InCreate
  <2>2. q.path = "/user/create"
    BY <2>1 DEF ServeHTTP
  <2>3. status \in {"user", "moderator", "admin"}
    <3>1. CreateParams[3] =
            Enum("status", {"user", "moderator", "admin"}, Txt("user", 4, NotInt))
          /\ 3 \in DOMAIN CreateParams
      BY DEF CreateParams
    <3>2. Wrong(CreateParams, q.form) = {}
      BY <2>1 DEF Refused, Params, Answer, Pending
    <3>3. CreateParams[3].enum = {"user", "moderator", "admin"}
          /\ CreateParams[3].name = "status"
      BY <3>1 DEF Enum, Str
    <3> QED
      BY <3>1, <3>2, <3>3 DEF Wrong, Passes, apiParMax
  <2>4. statuses[status] = Store!Number(status)
    <3>1. /\ statuses["user"] = 0 /\ statuses["moderator"] = 10
          /\ statuses["admin"] = 20
      BY DEF statuses
    <3>2. Store!Number(status) = CASE status = "admin" -> 20
                                   [] status = "moderator" -> 10
                                   [] status = "user" -> 0
      BY DEF Store!Number
    <3> HIDE DEF status
    <3> QED
      BY <2>3, <3>1, <3>2
  <2>5. Store!Given(Store!CreateParams[3], q.form).word = status
    <3>1. Store!Given(Store!CreateParams[3], q.form) = Given(CreateParams[3], q.form)
      BY SameTags
    <3>0. CreateParams[3] =
            Enum("status", {"user", "moderator", "admin"}, Txt("user", 4, NotInt))
          /\ 3 \in DOMAIN CreateParams
      BY DEF CreateParams
    <3>2. CreateParams[3].name = "status"
      BY <3>0, EnumTags
    <3>3. IsQuery(q)
      BY <2>1, UserApiAssumption DEF ApiInv, Received
    <3>4. FormValue(q.form, "status").word = ""
            <=> FormValue(q.form, "status") = Empty
      BY <3>3 DEF IsQuery, FormValue, Empty, Txt
    <3>5. Checkable(CreateParams[3])
      BY <3>0, ApiGoIsCheckable
    <3>6. Filled(CreateParams[3], FormValue(q.form, CreateParams[3].name))
            = Given(CreateParams[3], q.form).word
      BY <3>2, <3>4, <3>5, PassesIffMeets, Zenon
    <3> QED
      BY <3>1, <3>2, <3>6
  <2>6. /\ users' = [k \in DOMAIN users \cup {l} |->
                     IF k = l THEN [login |-> l, id |-> id[r],
                                    status |-> statuses[status]]
                     ELSE users[k]]
        /\ answer' = [answer EXCEPT ![r] = Answer(200, id[r])]
        /\ query' = query
    BY <1>8 DEF StoreUser
  <2>7. Store!Waits(r) /\ Store!Refusal(q) = Store!Pending
    BY <1>b, <1>c, <1>d, <2>1 DEF InCreate
  <2>0. Store!Cardinality(DOMAIN users) = Cardinality(DOMAIN users)
    BY DEF Store!Cardinality, Cardinality, Store!IsFiniteSet, IsFiniteSet
  <2>8. Store!Login(q) = l
    BY <1>a
  <2> DEFINE sl == Store!Login(q)
             new == [login |-> sl, id |-> 42 + Store!Cardinality(DOMAIN users),
                     status |-> Store!Number(Store!Given(Store!CreateParams[3], q.form).word)]
  <2>9. new = [login |-> l, id |-> id[r], status |-> statuses[status]]
    BY <2>0, <2>1, <2>4, <2>5, <2>8
  <2>10. users' = [k \in DOMAIN users \cup {sl} |->
                     IF k = sl THEN new ELSE users[k]]
    <3> HIDE DEF new, status
    <3> QED
      BY <2>6, <2>8, <2>9
  <2>11. answer' = [answer EXCEPT ![r] =
                      Store!Answer(200, 42 + Store!Cardinality(DOMAIN users))]
    BY <1>b, <2>0, <2>1, <2>6
  <2>12. sl # "bad_username" /\ sl \notin DOMAIN users
    BY <2>1, <2>8
  <2> QED
    BY <2>1, <2>2, <2>6, <2>7, <2>10, <2>11, <2>12 DEF Store!Create
<1>9. ASSUME NEW r \in Request,
             RLock(r) \/ RUnlock(r) \/ Lock(r) \/ TakeID(r) \/ Unlock(r)
      PROVE  UNCHANGED Store!vars
  BY <1>9 DEF RLock, RUnlock, Lock, TakeID, Unlock, Store!vars
<1>10. CASE UNCHANGED vars
  BY <1>10 DEF vars, Store!vars
<1> QED
  BY <1>1, <1>2, <1>3, <1>4, <1>5, <1>6, <1>7, <1>8, <1>9, <1>10
  DEF Next, Serve, Store!Next

(* Initially both know one user, and nothing was asked.                    *)
LEMMA UsersInit == Init => Store!Init
BY DEF Init, Store!Init, Pending, Store!Pending, Answer, Store!Answer

(* api.go and api_handlers.go: the requests that run at once are answered  *)
(* as the documented API would one by one, for any number of requests,     *)
(* queries and forms.                                                      *)
THEOREM UsersRefinedCorrect == Spec => UsersRefined
<1>1. ApiInv /\ [Next]_vars => [Store!Next]_Store!vars
  BY UsersStep
<1> QED
  BY <1>1, UsersInit, ApiInvInvariant, PTL DEF Spec, UsersRefined, Store!Spec

-----------------------------------------------------------------------------
(* GeneratorMeans.  A comment of one line means what the line mentions.    *)
LEMMA OneLine ==
  ASSUME NEW f, NEW line, f.doc = <<line>>
  PROVE  /\ DOMAIN ApiOf(f) = {"url", "auth", "method"}
         /\ \A key \in {"url", "auth", "method"} :
              ApiOf(f)[key] = IF key \in DOMAIN line THEN line[key] ELSE NoApi[key]
<1>1. DOMAIN <<line>> = {1} /\ <<line>>[1] = line
  OBVIOUS
<1>2. DOMAIN f.doc = {1} /\ f.doc[1] = line
  BY <1>1
<1>3. Max({1}) = 1
  BY DEF Max
<1>4. ASSUME NEW key
      PROVE  (IF Mentions(f, key) = {} THEN NoApi[key]
              ELSE f.doc[Max(Mentions(f, key))][key])
               = (IF key \in DOMAIN line THEN line[key] ELSE NoApi[key])
  <2>1. CASE key \in DOMAIN line
    <3>1. Mentions(f, key) = {1}
      BY <1>2, <2>1 DEF Mentions
    <3>2. QED
      BY <1>2, <1>3, <2>1, <3>1
  <2>2. CASE key \notin DOMAIN line
    <3>1. Mentions(f, key) = {}
      BY <1>2, <2>2 DEF Mentions
    <3>2. QED
      BY <2>2, <3>1
  <2>3. QED
    BY <2>1, <2>2
<1>5. DOMAIN NoApi = {"url", "auth", "method"}
  BY DEF NoApi
<1>6. QED
  BY <1>4, <1>5 DEF ApiOf

(* The wrapper of a method whose structure is the only one of its name.    *)
LEMMA WrapperOfMethod ==
  ASSUME NEW f, NEW file, NEW s \in gtype(file), s.name = f.params[2],
         \A t \in gtype(file) : t.name = f.params[2] => t = s
  PROVE  Wrapper(file, f) =
           [recv |-> f.recv, name |-> f.name, url |-> ApiOf(f).url,
            auth |-> ApiOf(f).auth, postOnly |-> ApiOf(f).method # "",
            fields |-> s.fields]
<1>1. (CHOOSE t \in gtype(file) : t.name = f.params[2]) = s
  OBVIOUS
<1>2. QED
  BY <1>1 DEF Wrapper

(* What the one method of a test file is made into.                        *)
Made(fields, method) ==
  [recv |-> "Api", name |-> "Do", url |-> "/do", auth |-> TRUE,
   postOnly |-> method # "", fields |-> fields]

(* What codegen.go takes from a file with one structure and one method.    *)
LEMMA FileIsRead ==
  ASSUME NEW fields \in Structs, NEW method
  PROVE  LET file == FileOf(fields, method) IN
         /\ ~ParsePanics(file)
         /\ GenPanics(file) <=>
              \/ fields = <<>>
              \/ \E i \in DOMAIN fields :
                   HasEnum(fields[i]) /\ fields[i].default = Empty
         /\ fields # <<>> =>
              {Wrapper(file, f) : f \in gmethods(file)} = {Made(fields, method)}
<1> DEFINE file == FileOf(fields, method)
           line == [url |-> "/do", auth |-> TRUE, method |-> method]
           f == Method("Api", "Do", line, "In")
           s == Struct("In", fields)
<1>1. file.structs = {s} /\ file.funcs = {f}
  BY DEF FileOf
<1>2. /\ line.url = "/do" /\ line.auth = TRUE /\ line.method = method
      /\ DOMAIN line = {"url", "auth", "method"}
  OBVIOUS
<1> HIDE DEF file, line
<1>3. /\ f.recv = "Api" /\ f.name = "Do" /\ f.doc = <<line>>
      /\ f.params = <<"Context", "In">>
  BY DEF Method
<1>4. s.name = "In" /\ s.fields = fields /\ s.tagged = TRUE
  BY DEF Struct
<1>5. line # NoJson
  <2>1. DOMAIN NoJson = {}
    BY DEF NoJson
  <2>2. "url" \in DOMAIN line
    BY <1>2
  <2>3. QED
    BY <2>1, <2>2
<1> HIDE DEF f, s
<1>6. /\ DOMAIN f.doc = {1} /\ f.doc[1] = line /\ f.doc # <<>>
      /\ Len(f.params) = 2 /\ f.params[2] = "In"
  <2>1. DOMAIN <<line>> = {1} /\ <<line>>[1] = line /\ <<line>> # <<>>
    OBVIOUS
  <2>2. Len(<<"Context", "In">>) = 2 /\ <<"Context", "In">>[2] = "In"
    OBVIOUS
  <2>3. QED
    BY <1>3, <2>1, <2>2
<1>7. ~ParsePanics(file)
  BY <1>1, <1>5, <1>6 DEF ParsePanics
<1>8. gmethods(file) = {f}
  BY <1>1, <1>3, <1>6 DEF gmethods
<1>9. gtype(file) = IF fields = <<>> THEN {} ELSE {s}
  BY <1>1, <1>4 DEF gtype
<1>10. GenPanics(file) <=>
         \/ fields = <<>>
         \/ \E i \in DOMAIN fields :
              HasEnum(fields[i]) /\ fields[i].default = Empty
  <2>1. "In" # Pointer
    BY DEF Pointer
  <2>2. GenPanics(file) <=>
          ~\E t \in gtype(file) :
             /\ t.name = "In" /\ t.name # Pointer
             /\ \A i \in DOMAIN t.fields :
                  HasEnum(t.fields[i]) => t.fields[i].default # Empty
    <3>1. GenPanics(file) <=>
            \/ Len(f.params) < 2
            \/ ~\E t \in gtype(file) :
                 /\ t.name = f.params[2] /\ t.name # Pointer
                 /\ \A i \in DOMAIN t.fields :
                      HasEnum(t.fields[i]) => t.fields[i].default # Empty
      BY <1>8 DEF GenPanics
    <3>2. ~(Len(f.params) < 2) /\ f.params[2] = "In"
      BY <1>6
    <3>3. QED
      BY <3>1, <3>2
  <2>3. CASE fields = <<>>
    <3>1. gtype(file) = {}
      BY <1>9, <2>3
    <3>2. QED
      BY <2>2, <2>3, <3>1
  <2>4. CASE fields # <<>>
    <3>1. gtype(file) = {s}
      BY <1>9, <2>4
    <3>2. QED
      BY <1>4, <2>1, <2>2, <2>4, <3>1
  <2>5. QED
    BY <2>3, <2>4
<1>11. ASSUME fields # <<>>
       PROVE  Wrapper(file, f) = Made(fields, method)
  <2>1. gtype(file) = {s}
    BY <1>9, <1>11
  <2>2. Wrapper(file, f) =
          [recv |-> f.recv, name |-> f.name, url |-> ApiOf(f).url,
           auth |-> ApiOf(f).auth, postOnly |-> ApiOf(f).method # "",
           fields |-> s.fields]
    <3>1. /\ s \in gtype(file) /\ s.name = f.params[2]
          /\ \A t \in gtype(file) : t = s
      BY <1>4, <1>6, <2>1
    <3>2. Wrapper(file, f) =
            [recv |-> f.recv, name |-> f.name, url |-> ApiOf(f).url,
             auth |-> ApiOf(f).auth, postOnly |-> ApiOf(f).method # "",
             fields |-> s.fields]
      BY <3>1, WrapperOfMethod
    <3>3. QED
      BY <3>2
  <2>3. /\ ApiOf(f).url = "/do" /\ ApiOf(f).auth = TRUE
        /\ ApiOf(f).method = method
    BY <1>2, <1>3, OneLine
  <2>4. QED
    BY <1>3, <1>4, <2>2, <2>3 DEF Made
<1>12. QED
  BY <1>7, <1>8, <1>10, <1>11 DEF file

(* A field of a test structure.                                            *)
LEMMA FieldTypes ==
  ASSUME NEW fields \in Structs, NEW i \in DOMAIN fields
  PROVE  /\ fields[i] \in Tagged
         /\ fields[i].type = "string" => fields[i].max = NoBound
         /\ fields[i].default.word = "" <=> fields[i].default = Empty
<1>1. fields \in Seq(Tagged)
  BY GeneratorAssumption
<1>2. fields[i] \in Tagged
  BY <1>1
<1>3. QED
  BY <1>2, GeneratorAssumption

(* What is generated compiles if the tags are supported.                   *)
LEMMA SupportedCompiles ==
  ASSUME NEW fields \in Structs, NEW method
  PROVE  Unsupported(fields) <=>
           \/ \E i \in DOMAIN fields :
                HasEnum(fields[i]) /\ fields[i].default = Empty
           \/ ~Compiles({Made(fields, method)})
<1> DEFINE w == Made(fields, method)
<1>1. w.fields = fields
  BY DEF Made
<1>2. \A i \in DOMAIN fields : fields[i].type \in {"string", "int"}
  BY FieldTypes DEF Tagged
<1> HIDE DEF w
<1>3. Compiles({w}) <=>
        /\ \E i \in DOMAIN fields : fields[i].type = "int"
        /\ \A i, j \in DOMAIN fields : i # j =>
             /\ fields[i].name # fields[j].name
             /\ ~(HasEnum(fields[i]) /\ HasEnum(fields[j]))
        /\ \A i \in DOMAIN fields :
             fields[i].type # "string" =>
               /\ fields[i].type = "int" /\ ~fields[i].required
               /\ ~HasEnum(fields[i])
  BY <1>1 DEF Compiles
<1>4. Unsupported(fields) <=>
        \/ \E i \in DOMAIN fields :
             HasEnum(fields[i]) /\ fields[i].default = Empty
        \/ ~Compiles({w})
  BY <1>2, <1>3 DEF Unsupported
<1>5. QED
  BY <1>4 DEF w

(* A supported field has the checks and the value its tags mean, without a *)
(* default that is ignored.                                                *)
LEMMA SupportedMeans ==
  ASSUME NEW fields \in Structs, ~Unsupported(fields), NEW form \in TestForms,
         NEW i \in DOMAIN fields
  PROVE  LET f == fields[i]
             g == WithoutIgnored(fields)[i]
             v == FormValue(form, f.name)
         IN  /\ g.name = f.name
             /\ Passes(f, v) <=> Meets(g, form)
             /\ Passes(f, v) => Filled(f, v) = Given(g, form).word
             /\ \/ DefaultIgnored(f) /\ v = Empty
                \/ /\ Meets(g, form) <=> Meets(f, form)
                   /\ Given(g, form) = Given(f, form)
<1> DEFINE f == fields[i]
           g == WithoutIgnored(fields)[i]
           v == FormValue(form, f.name)
           less == [f EXCEPT !.default = Empty]
<1>1. /\ f \in Tagged
      /\ f.type = "string" => f.max = NoBound
      /\ f.default.word = "" <=> f.default = Empty
  BY FieldTypes
<1>2. f.type = "int" => ~f.required /\ f.enum = {}
  BY DEF Unsupported, HasEnum
<1>3. v.word = "" <=> v = Empty
  BY GeneratorAssumption DEF FormValue, Empty, Txt
<1>4. g = IF DefaultIgnored(f) THEN less ELSE f
  BY DEF WithoutIgnored
<1>5. /\ less.name = f.name /\ less.type = f.type /\ less.required = f.required
      /\ less.min = f.min /\ less.max = f.max /\ less.enum = f.enum
      /\ less.default = Empty
  BY <1>1 DEF Tagged
<1>6. Empty.word = "" /\ Empty.len = 0 /\ Empty.int = NotInt
  BY DEF Empty, Txt
<1> HIDE DEF f, g, less
<1>7. Checkable(g)
  <2>1. /\ f.type \in {"string", "int"} /\ f.min \in Int
        /\ f.default.len \in Nat
    BY <1>1 DEF Tagged
  <2>2. CASE DefaultIgnored(f)
    <3>1. g = less /\ ~DefaultIgnored(less)
      BY <1>4, <1>5, <2>2 DEF DefaultIgnored
    <3>0. 0 \in Nat
      OBVIOUS
    <3>2. less.default.len \in Nat /\ less.default.word = ""
      BY <1>5, <1>6, <3>0, Zenon
    <3>4. less.type = "int" => ~less.required
      BY <1>2, <1>5
    <3>5. less.enum # {} => less.type = "string"
      BY <1>2, <1>5, <2>1
    <3>6. Checkable(less)
      BY <1>1, <1>5, <2>1, <3>1, <3>2, <3>4, <3>5, Zenon DEF Checkable
    <3>3. QED
      BY <3>1, <3>6
  <2>3. CASE ~DefaultIgnored(f)
    BY <1>1, <1>2, <1>4, <2>1, <2>3 DEF Checkable
  <2>4. QED
    BY <2>2, <2>3
<1>8. g.name = f.name
  BY <1>4, <1>5
<1>9. /\ Passes(g, v) <=> Meets(g, form)
      /\ Filled(g, v) = Given(g, form).word
  BY <1>3, <1>7, <1>8, PassesIffMeets
<1>10. CASE ~DefaultIgnored(f)
  <2>1. g = f
    BY <1>4, <1>10
  <2>2. QED
    BY <1>9, <2>1 DEF f, g
<1>11. CASE DefaultIgnored(f)
  <2>1. g = less
    BY <1>4, <1>11
  <2>2. CASE v # Empty
    <3>1. Filled(f, v) = v.word /\ Filled(g, v) = v.word
      BY <1>3, <2>2 DEF Filled
    <3>2. Passes(f, v) <=> Passes(g, v)
      BY <1>5, <2>1, <3>1 DEF Passes, apiParRequired, apiParMin, apiParMax, Size
    <3>3. Given(f, form) = v /\ Given(g, form) = v
      BY <1>8, <2>2 DEF Given
    <3>4. Meets(f, form) <=> Meets(g, form)
      BY <1>5, <2>1, <3>3 DEF Meets, Size
    <3>5. QED
      BY <1>8, <1>9, <3>1, <3>2, <3>3, <3>4 DEF f, g
  <2>3. CASE v = Empty
    <3>1. CASE ~HasEnum(f)
      <4>1. Filled(f, v) = Filled(g, v)
        BY <1>5, <2>1, <3>1 DEF Filled, HasEnum
      <4>2. Passes(f, v) <=> Passes(g, v)
        BY <1>5, <2>1, <3>1, <4>1 DEF Passes, apiParRequired, apiParMin,
           apiParMax, Size, HasEnum
      <4>3. QED
        BY <1>8, <1>9, <1>11, <2>3, <4>1, <4>2 DEF f, g
    <3>2. CASE HasEnum(f)
      <4>1. f.required \/ f.min > 0
        BY <1>11, <3>2 DEF DefaultIgnored
      <4>2. f.type = "string" /\ f.min \in Int
        BY <1>1, <1>2, <3>2 DEF HasEnum, Tagged
      <4>3. ~apiParRequired(f, v) \/ ~apiParMin(f, v)
        <5>1. CASE f.required
          BY <1>6, <2>3, <5>1 DEF apiParRequired
        <5>2. CASE f.min > 0
          <6>1. Size(f, v) = 0
            BY <1>6, <2>3, <4>2 DEF Size
          <6>2. f.min # NoBound /\ ~(0 >= f.min)
            BY <4>2, <5>2 DEF NoBound
          <6>3. QED
            BY <6>1, <6>2 DEF apiParMin
        <5>3. QED
          BY <4>1, <5>1, <5>2
      <4>4. ~apiParRequired(g, v) \/ ~apiParMin(g, v)
        BY <1>5, <2>1, <4>3 DEF apiParRequired, apiParMin, Size
      <4>5. ~Passes(f, v) /\ ~Passes(g, v)
        BY <4>3, <4>4 DEF Passes
      <4>6. QED
        BY <1>8, <1>9, <1>11, <2>3, <4>5 DEF f, g
    <3>3. QED
      BY <3>1, <3>2
  <2>4. QED
    BY <2>2, <2>3
<1>12. QED
  BY <1>10, <1>11

(* Fields with the same names are refused in the same order.               *)
LEMMA SameFirst ==
  ASSUME NEW fields \in Structs, NEW others, DOMAIN others = DOMAIN fields,
         \A i \in DOMAIN fields : others[i].name = fields[i].name,
         NEW wrong \in SUBSET DOMAIN fields, wrong # {}
  PROVE  FirstOf(others, wrong) = FirstOf(fields, wrong)
<1>1. wrong \subseteq Nat
  <2>1. fields \in Seq(Tagged)
    BY GeneratorAssumption
  <2>2. DOMAIN fields = 1..Len(fields)
    BY <2>1
  <2>3. QED
    BY <2>2
<1>2. PICK m \in wrong : \A k \in wrong : m <= k
  <2>1. PICK m \in wrong : \A k \in wrong : <<k, m>> \notin OpToRel(<, Nat)
    BY <1>1, NatLessThanWellFounded, WFMin
  <2>2. \A k \in wrong : ~(k < m)
    BY <1>1, <2>1 DEF OpToRel
  <2>3. QED
    BY <1>1, <2>2
<1>3. Min(wrong) \in wrong
  BY <1>2 DEF Min
<1>4. QED
  BY <1>3 DEF FirstOf

(* What the wrapper of a supported structure answers.                      *)
LEMMA WrapperMeans ==
  ASSUME NEW fields \in Structs, ~Unsupported(fields), NEW form \in TestForms,
         NEW post \in BOOLEAN, NEW served,
         served =
           IF ~post THEN Refusal(406, "bad method")
           ELSE IF Wrong(fields, form) # {}
           THEN Refusal(400, FirstOf(fields, Wrong(fields, form)))
           ELSE Call("Do", [i \in DOMAIN fields |->
                              Filled(fields[i], FormValue(form, fields[i].name))])
  PROVE  ServedAsMeant(served, fields, post, form)
<1> DEFINE less == WithoutIgnored(fields)
           V(i) == FormValue(form, fields[i].name)
<1>1. DOMAIN less = DOMAIN fields
  BY DEF WithoutIgnored
<1>2. ASSUME NEW i \in DOMAIN fields
      PROVE  /\ less[i].name = fields[i].name
             /\ Passes(fields[i], V(i)) <=> Meets(less[i], form)
             /\ Passes(fields[i], V(i)) =>
                  Filled(fields[i], V(i)) = Given(less[i], form).word
             /\ \/ DefaultIgnored(fields[i]) /\ V(i) = Empty
                \/ /\ Meets(less[i], form) <=> Meets(fields[i], form)
                   /\ Given(less[i], form) = Given(fields[i], form)
  BY SupportedMeans
<1> HIDE DEF less
<1>3. Wrong(fields, form) = NotMet(less, form)
  BY <1>1, <1>2 DEF Wrong, NotMet
<1>4. NotMet(less, form) \in SUBSET DOMAIN fields
  BY <1>1 DEF NotMet
<1>5. NotMet(less, form) # {} =>
        FirstOf(less, NotMet(less, form)) = FirstOf(fields, NotMet(less, form))
  BY <1>1, <1>2, <1>4, SameFirst
<1>6. served = DocumentedAnswer(less, post, form)
  <2>1. CASE ~post \/ NotMet(less, form) # {}
    BY <1>3, <1>5, <2>1 DEF DocumentedAnswer
  <2>2. CASE post /\ NotMet(less, form) = {}
    <3>1. \A i \in DOMAIN fields : Passes(fields[i], V(i))
      BY <1>3, <2>2 DEF Wrong
    <3>2. [i \in DOMAIN fields |-> Filled(fields[i], V(i))]
            = [i \in DOMAIN less |-> Given(less[i], form).word]
      BY <1>1, <1>2, <3>1
    <3>3. QED
      BY <1>3, <2>2, <3>2 DEF DocumentedAnswer
  <2>3. QED
    BY <2>1, <2>2
<1>7. ASSUME \A i \in DOMAIN fields : DefaultIgnored(fields[i]) => V(i) # Empty
      PROVE  served = DocumentedAnswer(fields, post, form)
  <2>1. \A i \in DOMAIN fields :
          /\ Meets(less[i], form) <=> Meets(fields[i], form)
          /\ Given(less[i], form) = Given(fields[i], form)
    BY <1>2, <1>7
  <2>2. NotMet(less, form) = NotMet(fields, form)
    BY <1>1, <2>1 DEF NotMet
  <2>3. [i \in DOMAIN less |-> Given(less[i], form).word]
          = [i \in DOMAIN fields |-> Given(fields[i], form).word]
    BY <1>1, <2>1
  <2>4. QED
    BY <1>5, <1>6, <2>2, <2>3 DEF DocumentedAnswer
<1>8. QED
  BY <1>6, <1>7 DEF less, ServedAsMeant

(* A file with one structure: it fails, or its handler does what the tags  *)
(* mean, a default that is ignored aside.                                  *)
LEMMA FileMeans ==
  ASSUME NEW fields \in Structs, NEW method
  PROVE  LET made == Generate(FileOf(fields, method)) IN
         IF Unsupported(fields) THEN made \in {Panics, DoesNotCompile}
         ELSE \A form \in TestForms, post \in BOOLEAN :
                ServedAsMeant(ServeGenerated(made,
                                Query("Api", "/do", post, TRUE, form)),
                              fields, post \/ method = "", form)
<1> DEFINE file == FileOf(fields, method)
           w == Made(fields, method)
           noDefault == \E i \in DOMAIN fields :
                          HasEnum(fields[i]) /\ fields[i].default = Empty
<1>1. /\ ~ParsePanics(file)
      /\ GenPanics(file) <=> fields = <<>> \/ noDefault
      /\ fields # <<>> => {Wrapper(file, f) : f \in gmethods(file)} = {w}
  BY FileIsRead
<1>2. Unsupported(fields) <=> noDefault \/ ~Compiles({w})
  BY SupportedCompiles
<1>3. ASSUME fields = <<>>
      PROVE  Unsupported(fields)
  <2>1. DOMAIN fields = {}
    BY <1>3
  <2>2. QED
    BY <2>1 DEF Unsupported
<1> HIDE DEF file, w, noDefault
<1>4. CASE Unsupported(fields)
  <2>1. Generate(file) \in {Panics, DoesNotCompile}
    BY <1>1, <1>2, <1>4 DEF Generate
  <2>2. QED
    BY <1>4, <2>1 DEF file
<1>5. CASE ~Unsupported(fields)
  <2>1. Generate(file) = {w}
    BY <1>1, <1>2, <1>3, <1>5 DEF Generate
  <2>2. ASSUME NEW form \in TestForms, NEW post \in BOOLEAN
        PROVE  ServedAsMeant(ServeGenerated({w},
                               Query("Api", "/do", post, TRUE, form)),
                             fields, post \/ method = "", form)
    <3> DEFINE q == Query("Api", "/do", post, TRUE, form)
    <3>1. /\ q.api = "Api" /\ q.path = "/do" /\ q.post = post
          /\ q.auth = TRUE /\ q.form = form
      BY DEF Query
    <3>2. /\ w.recv = "Api" /\ w.url = "/do" /\ w.auth = TRUE /\ w.name = "Do"
          /\ w.postOnly = (method # "") /\ w.fields = fields
      BY DEF Made, w
    <3> HIDE DEF q
    <3> DEFINE matching == {x \in {w} : x.recv = q.api /\ x.url = q.path}
    <3>3. matching = {w}
      BY <3>1, <3>2
    <3>4. (CHOOSE x \in {w} : TRUE) = w
      OBVIOUS
    <3>5. ServeGenerated({w}, q) = IF w.postOnly /\ ~q.post
                                   THEN Refusal(406, "bad method")
                                   ELSE wrapper(w, q)
      <4>1. ServeGenerated({w}, q) =
              IF matching = {} THEN Refusal(404, "unknown method")
              ELSE LET x == CHOOSE x \in matching : TRUE
                   IN  IF x.postOnly /\ ~q.post THEN Refusal(406, "bad method")
                       ELSE wrapper(x, q)
        BY DEF ServeGenerated
      <4> HIDE DEF matching
      <4>2. matching # {} /\ (CHOOSE x \in matching : TRUE) = w
        BY <3>3, <3>4
      <4>3. QED
        BY <4>1, <4>2
    <3>6. wrapper(w, q) =
            IF Wrong(fields, form) # {}
            THEN Refusal(400, FirstOf(fields, Wrong(fields, form)))
            ELSE Call("Do", [i \in DOMAIN fields |->
                   Filled(fields[i], FormValue(form, fields[i].name))])
      BY <3>1, <3>2 DEF wrapper
    <3>7. ServedAsMeant(ServeGenerated({w}, q), fields, post \/ method = "", form)
      <4>1. w.postOnly /\ ~q.post <=> ~(post \/ method = "")
        BY <3>1, <3>2
      <4>2. (post \/ method = "") \in BOOLEAN
        OBVIOUS
      <4>3. QED
        BY <1>5, <3>5, <3>6, <4>1, <4>2, WrapperMeans
    <3>8. QED
      BY <3>7 DEF q
  <2>3. QED
    BY <1>5, <2>1, <2>2 DEF file
<1>6. QED
  BY <1>4, <1>5

(* Whatever the structure, the generator fails on it or makes what its     *)
(* tags mean, a default that is ignored aside.                             *)
LEMMA TagsMeanCorrect == TagsMean
BY FileMeans DEF TagsMean

-----------------------------------------------------------------------------
(* A number has no enum and, in api.go, is not required.                   *)
LEMMA NumTags ==
  ASSUME NEW n, NEW min, NEW max
  PROVE  LET f == Num(n, min, max)
         IN  f.name = n /\ f.type = "int" /\ ~f.required /\ ~HasEnum(f)
BY DEF Str, Num, HasEnum

(* The places of a tuple.                                                  *)
LEMMA FourTuple ==
  ASSUME NEW a, NEW b, NEW c, NEW d
  PROVE  LET fields == <<a, b, c, d>> IN
         /\ fields[1] = a /\ fields[2] = b /\ fields[3] = c /\ fields[4] = d
         /\ fields # <<>> /\ DOMAIN fields = 1..4
OBVIOUS

(* What a structure needs to be given a wrapper that compiles.             *)
HasNumber(fields) == \E i \in DOMAIN fields : fields[i].type = "int"

Defaulted(f) == HasEnum(f) => f.default # Empty

Supported(fields) ==
  /\ \A i \in DOMAIN fields :
       /\ Defaulted(fields[i])
       /\ fields[i].type = "string"
            \/ /\ fields[i].type = "int" /\ ~fields[i].required
               /\ ~HasEnum(fields[i])
  /\ \A i, j \in DOMAIN fields : i # j =>
       /\ fields[i].name # fields[j].name
       /\ ~(HasEnum(fields[i]) /\ HasEnum(fields[j]))

(* The parameter of Profile is one required text.                          *)
LEMMA OneText == Supported(ProfileParams) /\ ProfileParams # <<>>
<1> DEFINE f == Str("login", TRUE, NoBound)
<1>1. f.type = "string" /\ ~HasEnum(f)
  BY DEF Str, HasEnum
<1>2. ProfileParams = <<f>>
  BY DEF ProfileParams
<1>3. Defaulted(f)
  BY <1>1 DEF Defaulted
<1> HIDE DEF f
<1>4. /\ DOMAIN ProfileParams = 1..1 /\ ProfileParams # <<>>
      /\ ProfileParams[1] = f
  BY <1>2
<1>5. QED
  BY <1>1, <1>3, <1>4 DEF Supported

(* Both Create methods take two texts, an enum and a number.               *)
LEMMA FourFields ==
  ASSUME NEW a, NEW b, NEW c, NEW d,
         a.type = "string", b.type = "string", c.type = "string",
         d.type = "int", ~d.required, ~HasEnum(a), ~HasEnum(b), ~HasEnum(d),
         Defaulted(a), Defaulted(b), Defaulted(c), Defaulted(d),
         a.name # b.name, a.name # c.name, a.name # d.name,
         b.name # c.name, b.name # d.name, c.name # d.name
  PROVE  /\ Supported(<<a, b, c, d>>) /\ <<a, b, c, d>> # <<>>
         /\ HasNumber(<<a, b, c, d>>)
<1> DEFINE fields == <<a, b, c, d>>
<1>1. /\ fields[1] = a /\ fields[2] = b /\ fields[3] = c /\ fields[4] = d
      /\ fields # <<>> /\ DOMAIN fields = 1..4
  BY FourTuple
<1> HIDE DEF fields
<1>2. \A i \in DOMAIN fields : i = 1 \/ i = 2 \/ i = 3 \/ i = 4
  BY <1>1
<1>3. ASSUME NEW i \in DOMAIN fields
      PROVE  /\ Defaulted(fields[i])
             /\ fields[i].type = "string"
                  \/ /\ fields[i].type = "int" /\ ~fields[i].required
                     /\ ~HasEnum(fields[i])
  BY <1>1, <1>2
<1>4. ASSUME NEW i \in DOMAIN fields, NEW j \in DOMAIN fields, i # j
      PROVE  /\ fields[i].name # fields[j].name
             /\ ~(HasEnum(fields[i]) /\ HasEnum(fields[j]))
  BY <1>1, <1>2, <1>4
<1>5. HasNumber(fields)
  BY <1>1 DEF HasNumber
<1>6. Supported(fields)
  BY <1>3, <1>4 DEF Supported
<1>7. QED
  BY <1>1, <1>5, <1>6 DEF fields

(* So the structures of api.go can be given wrappers.                      *)
LEMMA ApiGoFields ==
  /\ Supported(CreateParams) /\ CreateParams # <<>>
  /\ Supported(OtherCreateParams) /\ OtherCreateParams # <<>>
  /\ HasNumber(CreateParams)
<1>1. ASSUME NEW a, NEW b, NEW c, NEW d, NEW min, NEW enum, NEW default,
             NEW lo, NEW hi, Defaulted(Enum(c, enum, default)),
             a # b, a # c, a # d, b # c, b # d, c # d
      PROVE  LET fields == <<Str(a, TRUE, min), Str(b, FALSE, NoBound),
                             Enum(c, enum, default), Num(d, lo, hi)>>
             IN  /\ Supported(fields) /\ fields # <<>>
                 /\ HasNumber(fields)
  <2> DEFINE s == Str(a, TRUE, min)
             t == Str(b, FALSE, NoBound)
             e == Enum(c, enum, default)
             n == Num(d, lo, hi)
  <2>1. /\ s.type = "string" /\ s.name = a /\ ~HasEnum(s)
        /\ t.type = "string" /\ t.name = b /\ ~HasEnum(t)
    BY DEF Str, HasEnum
  <2>2. e.type = "string" /\ e.name = c /\ Defaulted(e)
    BY <1>1, EnumTags
  <2>3. n.type = "int" /\ n.name = d /\ ~n.required /\ ~HasEnum(n)
    BY NumTags
  <2>defaults. Defaulted(s) /\ Defaulted(t) /\ Defaulted(n)
    BY <2>1, <2>3 DEF Defaulted
  <2> HIDE DEF s, t, e, n
  <2>4. /\ Supported(<<s, t, e, n>>) /\ <<s, t, e, n>> # <<>>
        /\ HasNumber(<<s, t, e, n>>)
    BY <1>1, <2>1, <2>2, <2>3, <2>defaults, FourFields
  <2>5. QED
    BY <2>4 DEF s, t, e, n
<1> DEFINE user == Txt("user", 4, NotInt)
           warrior == Txt("warrior", 7, NotInt)
<1>2. user # Empty /\ warrior # Empty
  BY DEF Empty, Txt
<1>3. ASSUME NEW c, NEW enum, NEW default, default # Empty
      PROVE  Defaulted(Enum(c, enum, default))
  <2>1. Enum(c, enum, default).default = default
    BY EnumTags
  <2>2. QED
    BY <1>3, <2>1 DEF Defaulted
<1>4. /\ Supported(CreateParams) /\ CreateParams # <<>>
      /\ HasNumber(CreateParams)
  <2>1. Defaulted(Enum("status", {"user", "moderator", "admin"}, user))
    BY <1>2, <1>3
  <2>2. /\ "login" # "full_name" /\ "login" # "status" /\ "login" # "age"
        /\ "full_name" # "status" /\ "full_name" # "age" /\ "status" # "age"
    OBVIOUS
  <2>3. ASSUME NEW min, NEW enum, NEW default, NEW lo, NEW hi,
               Defaulted(Enum("status", enum, default))
        PROVE  LET fields == <<Str("login", TRUE, min),
                               Str("full_name", FALSE, NoBound),
                               Enum("status", enum, default),
                               Num("age", lo, hi)>>
               IN  Supported(fields) /\ fields # <<>> /\ HasNumber(fields)
    BY <1>1, <2>2, <2>3
  <2>4. QED
    BY <2>1, <2>3 DEF CreateParams
<1>5. Supported(OtherCreateParams) /\ OtherCreateParams # <<>>
  <2>1. Defaulted(Enum("class", {"warrior", "sorcerer", "rouge"}, warrior))
    BY <1>2, <1>3
  <2>2. QED
    BY <1>1, <2>1 DEF OtherCreateParams
<1>6. QED
  BY <1>4, <1>5

(* The wrappers of api.go.                                                 *)
ProfileWrapper ==
  [recv |-> "MyApi", name |-> "Profile", url |-> "/user/profile",
   auth |-> FALSE, postOnly |-> FALSE, fields |-> ProfileParams]
CreateWrapper ==
  [recv |-> "MyApi", name |-> "Create", url |-> "/user/create",
   auth |-> TRUE, postOnly |-> TRUE, fields |-> CreateParams]
OtherCreateWrapper ==
  [recv |-> "OtherApi", name |-> "Create", url |-> "/user/create",
   auth |-> TRUE, postOnly |-> TRUE, fields |-> OtherCreateParams]

ProfileDoc == [url |-> "/user/profile", auth |-> FALSE]
CreateDoc == [url |-> "/user/create", auth |-> TRUE, method |-> "POST"]

(* What the comments of api.go mean.                                       *)
LEMMA Comments ==
  /\ ProfileDoc # NoJson /\ CreateDoc # NoJson
  /\ \A f : f.doc = <<ProfileDoc>> =>
       /\ ApiOf(f).url = "/user/profile" /\ ApiOf(f).auth = FALSE
       /\ ApiOf(f).method = ""
  /\ \A f : f.doc = <<CreateDoc>> =>
       /\ ApiOf(f).url = "/user/create" /\ ApiOf(f).auth = TRUE
       /\ ApiOf(f).method = "POST"
<1>1. /\ DOMAIN ProfileDoc = {"url", "auth"}
      /\ ProfileDoc.url = "/user/profile" /\ ProfileDoc.auth = FALSE
  BY DEF ProfileDoc
<1>2. /\ DOMAIN CreateDoc = {"url", "auth", "method"}
      /\ CreateDoc.url = "/user/create" /\ CreateDoc.auth = TRUE
      /\ CreateDoc.method = "POST"
  BY DEF CreateDoc
<1>3. NoApi.method = "" /\ DOMAIN NoJson = {}
  BY DEF NoApi, NoJson
<1>4. "url" \in DOMAIN ProfileDoc /\ "url" \in DOMAIN CreateDoc
  BY <1>1, <1>2
<1>5. ProfileDoc # NoJson /\ CreateDoc # NoJson
  BY <1>3, <1>4
<1>6. ASSUME NEW f, f.doc = <<ProfileDoc>>
      PROVE  /\ ApiOf(f).url = "/user/profile" /\ ApiOf(f).auth = FALSE
             /\ ApiOf(f).method = ""
  <2>1. \A key \in {"url", "auth", "method"} :
          ApiOf(f)[key] = IF key \in DOMAIN ProfileDoc THEN ProfileDoc[key]
                          ELSE NoApi[key]
    BY <1>6, OneLine
  <2>2. QED
    BY <1>1, <1>3, <2>1
<1>7. ASSUME NEW f, f.doc = <<CreateDoc>>
      PROVE  /\ ApiOf(f).url = "/user/create" /\ ApiOf(f).auth = TRUE
             /\ ApiOf(f).method = "POST"
  <2>1. \A key \in {"url", "auth", "method"} :
          ApiOf(f)[key] = IF key \in DOMAIN CreateDoc THEN CreateDoc[key]
                          ELSE NoApi[key]
    BY <1>7, OneLine
  <2>2. QED
    BY <1>2, <2>1
<1>8. QED
  BY <1>5, <1>6, <1>7

(* What codegen.go makes of api.go.                                        *)
LEMMA GeneratedIs ==
  Generated = {ProfileWrapper, CreateWrapper, OtherCreateWrapper}
<1> DEFINE profile == Method("MyApi", "Profile", ProfileDoc, "ProfileParams")
           create == Method("MyApi", "Create", CreateDoc, "CreateParams")
           other == Method("OtherApi", "Create", CreateDoc, "OtherCreateParams")
           new == [recv |-> "", name |-> "NewMyApi", doc |-> <<>>, params |-> <<>>]
           s1 == Struct("ProfileParams", ProfileParams)
           s2 == Struct("CreateParams", CreateParams)
           s3 == Struct("OtherCreateParams", OtherCreateParams)
<1>1. ApiGo.funcs = {profile, create, other, new}
  BY DEF ApiGo, ProfileDoc, CreateDoc
<1>2. \A s : s \in ApiGo.structs /\ s.tagged <=> s \in {s1, s2, s3}
  <2> DEFINE Untagged(n) ==
               [name |-> n, fields |-> <<Str("ID", FALSE, NoBound)>>,
                tagged |-> FALSE]
             names == {"ApiError", "MyApi", "User", "NewUser", "OtherUser"}
  <2>1. s1.tagged = TRUE /\ s2.tagged = TRUE /\ s3.tagged = TRUE
    BY DEF Struct
  <2>2. \A n : Untagged(n).tagged = FALSE
    OBVIOUS
  <2>3. ApiGo.structs = {s1, s2, s3} \cup {Untagged(n) : n \in names}
    BY DEF ApiGo
  <2> HIDE DEF s1, s2, s3, Untagged, names
  <2>4. QED
    BY <2>1, <2>2, <2>3
<1>3. /\ profile.recv = "MyApi" /\ profile.name = "Profile"
      /\ profile.doc = <<ProfileDoc>>
      /\ profile.params = <<"Context", "ProfileParams">>
      /\ create.recv = "MyApi" /\ create.name = "Create"
      /\ create.doc = <<CreateDoc>>
      /\ create.params = <<"Context", "CreateParams">>
      /\ other.recv = "OtherApi" /\ other.name = "Create"
      /\ other.doc = <<CreateDoc>>
      /\ other.params = <<"Context", "OtherCreateParams">>
  BY DEF Method
<1>new. new.doc = <<>> /\ new.recv = ""
  OBVIOUS
<1>4. /\ s1.name = "ProfileParams" /\ s1.fields = ProfileParams
      /\ s2.name = "CreateParams" /\ s2.fields = CreateParams
      /\ s3.name = "OtherCreateParams" /\ s3.fields = OtherCreateParams
  BY DEF Struct
<1> HIDE DEF profile, create, other, new, s1, s2, s3
<1>5. /\ DOMAIN profile.doc = {1} /\ profile.doc[1] = ProfileDoc
      /\ DOMAIN create.doc = {1} /\ create.doc[1] = CreateDoc
      /\ DOMAIN other.doc = {1} /\ other.doc[1] = CreateDoc
      /\ DOMAIN new.doc = {}
      /\ profile.doc # <<>> /\ create.doc # <<>> /\ other.doc # <<>>
  <2>1. \A x : DOMAIN <<x>> = {1} /\ <<x>>[1] = x /\ <<x>> # <<>>
    OBVIOUS
  <2>2. new.doc = <<>>
    BY <1>new
  <2>3. DOMAIN new.doc = {}
    BY <2>2
  <2>4. QED
    BY <1>3, <2>1, <2>3
<1>6. ~ParsePanics(ApiGo)
  BY <1>1, <1>5, Comments DEF ParsePanics
<1>7. gmethods(ApiGo) = {profile, create, other}
  <2>1. profile.recv # "" /\ create.recv # "" /\ other.recv # "" /\ new.recv = ""
    BY <1>3, <1>new
  <2>2. QED
    BY <1>1, <1>5, <2>1 DEF gmethods
<1>8. gtype(ApiGo) = {s1, s2, s3}
  BY <1>2, <1>4, OneText, ApiGoFields DEF gtype
<1>9. /\ Len(profile.params) = 2 /\ profile.params[2] = "ProfileParams"
      /\ Len(create.params) = 2 /\ create.params[2] = "CreateParams"
      /\ Len(other.params) = 2 /\ other.params[2] = "OtherCreateParams"
  <2>1. \A x, y : Len(<<x, y>>) = 2 /\ <<x, y>>[2] = y
    OBVIOUS
  <2>2. QED
    BY <1>3, <2>1
<1>10. ~GenPanics(ApiGo)
  <2>1. \A s \in {s1, s2, s3} :
          /\ s.name # Pointer
          /\ \A i \in DOMAIN s.fields :
               HasEnum(s.fields[i]) => s.fields[i].default # Empty
    <3>1. \A fields : Supported(fields) =>
            \A i \in DOMAIN fields :
              HasEnum(fields[i]) => fields[i].default # Empty
      BY DEF Supported, Defaulted
    <3>2. s1.name # Pointer /\ s2.name # Pointer /\ s3.name # Pointer
      BY <1>4 DEF Pointer
    <3>3. QED
      BY <1>4, <3>1, <3>2, OneText, ApiGoFields
  <2>2. ASSUME NEW f \in gmethods(ApiGo)
        PROVE  /\ ~(Len(f.params) < 2)
               /\ \E s \in gtype(ApiGo) : s.name = f.params[2]
    BY <1>4, <1>7, <1>8, <1>9
  <2>3. QED
    BY <1>8, <2>1, <2>2 DEF GenPanics
<1>11. ASSUME NEW f \in gmethods(ApiGo), NEW s \in gtype(ApiGo),
              s.name = f.params[2]
       PROVE  Wrapper(ApiGo, f) =
                [recv |-> f.recv, name |-> f.name, url |-> ApiOf(f).url,
                 auth |-> ApiOf(f).auth, postOnly |-> ApiOf(f).method # "",
                 fields |-> s.fields]
  <2>1. \A t \in gtype(ApiGo) : t.name = s.name => t = s
    BY <1>4, <1>8
  <2>2. \A t \in gtype(ApiGo) : t.name = f.params[2] => t = s
    BY <1>11, <2>1
  <2>3. QED
    BY <1>11, <2>2, WrapperOfMethod
<1>12. /\ s1 \in gtype(ApiGo) /\ s2 \in gtype(ApiGo) /\ s3 \in gtype(ApiGo)
       /\ profile \in gmethods(ApiGo) /\ create \in gmethods(ApiGo)
       /\ other \in gmethods(ApiGo)
  BY <1>7, <1>8
<1>13. Wrapper(ApiGo, profile) = ProfileWrapper
  <2>1. Wrapper(ApiGo, profile) =
          [recv |-> profile.recv, name |-> profile.name,
           url |-> ApiOf(profile).url, auth |-> ApiOf(profile).auth,
           postOnly |-> ApiOf(profile).method # "", fields |-> s1.fields]
    BY <1>4, <1>9, <1>11, <1>12
  <2>2. QED
    BY <1>3, <1>4, <2>1, Comments DEF ProfileWrapper
<1>14. ASSUME NEW f, f.doc = <<CreateDoc>>
       PROVE  (ApiOf(f).method # "") = TRUE
  <2>1. ApiOf(f).method = "POST"
    BY <1>14, Comments
  <2>2. QED
    BY <2>1
<1>15. Wrapper(ApiGo, create) = CreateWrapper
  <2>1. Wrapper(ApiGo, create) =
          [recv |-> create.recv, name |-> create.name,
           url |-> ApiOf(create).url, auth |-> ApiOf(create).auth,
           postOnly |-> ApiOf(create).method # "", fields |-> s2.fields]
    BY <1>4, <1>9, <1>11, <1>12
  <2>2. /\ ApiOf(create).url = "/user/create" /\ ApiOf(create).auth = TRUE
        /\ (ApiOf(create).method # "") = TRUE
    BY <1>3, <1>14, Comments
  <2>3. QED
    BY <1>3, <1>4, <2>1, <2>2 DEF CreateWrapper
<1>16. Wrapper(ApiGo, other) = OtherCreateWrapper
  <2>1. Wrapper(ApiGo, other) =
          [recv |-> other.recv, name |-> other.name,
           url |-> ApiOf(other).url, auth |-> ApiOf(other).auth,
           postOnly |-> ApiOf(other).method # "", fields |-> s3.fields]
    BY <1>4, <1>9, <1>11, <1>12
  <2>2. /\ ApiOf(other).url = "/user/create" /\ ApiOf(other).auth = TRUE
        /\ (ApiOf(other).method # "") = TRUE
    BY <1>3, <1>14, Comments
  <2>3. QED
    BY <1>3, <1>4, <2>1, <2>2 DEF OtherCreateWrapper
<1>17. {Wrapper(ApiGo, f) : f \in gmethods(ApiGo)} =
         {ProfileWrapper, CreateWrapper, OtherCreateWrapper}
  BY <1>7, <1>13, <1>15, <1>16
<1>18. Compiles({ProfileWrapper, CreateWrapper, OtherCreateWrapper})
  <2>1. /\ ProfileWrapper.fields = ProfileParams
        /\ CreateWrapper.fields = CreateParams
        /\ OtherCreateWrapper.fields = OtherCreateParams
    BY DEF ProfileWrapper, CreateWrapper, OtherCreateWrapper
  <2>2. \A w \in {ProfileWrapper, CreateWrapper, OtherCreateWrapper} :
          Supported(w.fields)
    BY <2>1, OneText, ApiGoFields
  <2>3. \E i \in DOMAIN CreateWrapper.fields :
          CreateWrapper.fields[i].type = "int"
    BY <2>1, ApiGoFields DEF HasNumber
  <2>4. QED
    BY <2>2, <2>3 DEF Compiles, Supported
<1>19. QED
  BY <1>6, <1>10, <1>17, <1>18 DEF Generated, Generate

(* ServeHTTP, where one wrapper has the url of the request.                *)
LEMMA ServeOne ==
  ASSUME NEW wrappers, NEW q, NEW w \in wrappers,
         \A v \in wrappers : v.recv = q.api /\ v.url = q.path <=> v = w
  PROVE  ServeGenerated(wrappers, q) =
           IF w.postOnly /\ ~q.post THEN Refusal(406, "bad method")
           ELSE wrapper(w, q)
<1> DEFINE matching == {v \in wrappers : v.recv = q.api /\ v.url = q.path}
<1>1. ServeGenerated(wrappers, q) =
        IF matching = {} THEN Refusal(404, "unknown method")
        ELSE LET v == CHOOSE v \in matching : TRUE
             IN  IF v.postOnly /\ ~q.post THEN Refusal(406, "bad method")
                 ELSE wrapper(v, q)
  BY DEF ServeGenerated
<1>2. matching = {w}
  OBVIOUS
<1> HIDE DEF matching
<1>3. matching # {} /\ (CHOOSE v \in matching : TRUE) = w
  BY <1>2
<1>4. QED
  BY <1>1, <1>3

(* And where none has it.                                                  *)
LEMMA ServeNone ==
  ASSUME NEW wrappers, NEW q,
         \A v \in wrappers : ~(v.recv = q.api /\ v.url = q.path)
  PROVE  ServeGenerated(wrappers, q) = Refusal(404, "unknown method")
<1>1. {v \in wrappers : v.recv = q.api /\ v.url = q.path} = {}
  OBVIOUS
<1>2. QED
  BY <1>1, Zenon DEF ServeGenerated

(* The answer of the handlers of api_handlers.go, case by case.            *)
LEMMA RefusedCases ==
  ASSUME NEW q, IsQuery(q)
  PROVE  /\ q.path = "/user/profile" /\ q.api = "MyApi" =>
              ServeHTTP(q) = "wrapperProfile" /\ Params(q) = ProfileParams
         /\ q.path = "/user/create" /\ q.post =>
              /\ ServeHTTP(q) = "wrapperCreate"
              /\ Params(q) = IF q.api = "MyApi" THEN CreateParams
                             ELSE OtherCreateParams
         /\ q.path = "/user/create" /\ ~q.post => ServeHTTP(q) = "bad method"
         /\ q.path # "/user/create" /\ ~(q.path = "/user/profile" /\ q.api = "MyApi")
              => ServeHTTP(q) = "unknown method"
         /\ ServeHTTP(q) = "unknown method" =>
              Refused(q) = Answer(404, "unknown method")
         /\ ServeHTTP(q) = "bad method" => Refused(q) = Answer(406, "bad method")
         /\ ServeHTTP(q) \in {"wrapperProfile", "wrapperCreate"} =>
              Refused(q) =
                IF ServeHTTP(q) = "wrapperCreate" /\ ~q.auth
                THEN Answer(403, "unauthorized")
                ELSE IF Wrong(Params(q), q.form) # {}
                THEN Answer(400, FirstOf(Params(q), Wrong(Params(q), q.form)))
                ELSE Pending
<1>1. q.post \in BOOLEAN /\ q.auth \in BOOLEAN
  BY DEF IsQuery
<1>2. /\ q.path = "/user/profile" /\ q.api = "MyApi" =>
           ServeHTTP(q) = "wrapperProfile"
      /\ q.path = "/user/create" /\ q.post => ServeHTTP(q) = "wrapperCreate"
      /\ q.path = "/user/create" /\ ~q.post => ServeHTTP(q) = "bad method"
      /\ q.path # "/user/create" /\ ~(q.path = "/user/profile" /\ q.api = "MyApi")
              => ServeHTTP(q) = "unknown method"
  BY <1>1 DEF ServeHTTP
<1>3. /\ ServeHTTP(q) = "wrapperProfile" => Params(q) = ProfileParams
      /\ ServeHTTP(q) = "wrapperCreate" =>
           Params(q) = IF q.api = "MyApi" THEN CreateParams ELSE OtherCreateParams
  BY DEF Params
<1>4. /\ ServeHTTP(q) = "unknown method" =>
           Refused(q) = Answer(404, "unknown method")
      /\ ServeHTTP(q) = "bad method" => Refused(q) = Answer(406, "bad method")
      /\ ServeHTTP(q) \in {"wrapperProfile", "wrapperCreate"} =>
           Refused(q) =
             IF ServeHTTP(q) = "wrapperCreate" /\ ~q.auth
             THEN Answer(403, "unauthorized")
             ELSE IF Wrong(Params(q), q.form) # {}
             THEN Answer(400, FirstOf(Params(q), Wrong(Params(q), q.form)))
             ELSE Pending
  BY DEF Refused
<1>5. QED
  BY <1>2, <1>3, <1>4

(* Refusals with the same status and reason agree.                         *)
LEMMA RefusalAgrees ==
  ASSUME NEW status, NEW what, NEW method, status # 0
  PROVE  Agrees(Refusal(status, what), Answer(status, what), method)
BY DEF Agrees, Answer, Pending, Refusal

(* A wrapper for the structure that ServeHTTP's has answers as that does.  *)
LEMMA WrapperAgrees ==
  ASSUME NEW q, IsQuery(q), NEW w, w.fields = Params(q),
         ServeHTTP(q) \in {"wrapperProfile", "wrapperCreate"},
         w.auth = (ServeHTTP(q) = "wrapperCreate")
  PROVE  Agrees(wrapper(w, q), Refused(q), w.name)
<1> DEFINE wrong == Wrong(Params(q), q.form)
           first == FirstOf(Params(q), wrong)
           in == [i \in DOMAIN w.fields |->
                    Filled(w.fields[i], FormValue(q.form, w.fields[i].name))]
<1>1. q.auth \in BOOLEAN
  BY DEF IsQuery
<1>2. Refused(q) = IF ServeHTTP(q) = "wrapperCreate" /\ ~q.auth
                   THEN Answer(403, "unauthorized")
                   ELSE IF wrong # {} THEN Answer(400, first)
                   ELSE Pending
  BY RefusedCases
<1>3. wrapper(w, q) = IF w.auth /\ ~q.auth THEN Refusal(403, "unauthorized")
                      ELSE IF wrong # {} THEN Refusal(400, first)
                      ELSE Call(w.name, in)
  BY DEF wrapper
<1> HIDE DEF wrong, first, in
<1>4. Agrees(Refusal(403, "unauthorized"), Answer(403, "unauthorized"), w.name)
  BY RefusalAgrees
<1>5. Agrees(Refusal(400, first), Answer(400, first), w.name)
  BY RefusalAgrees
<1>6. Agrees(Call(w.name, in), Pending, w.name)
  BY DEF Agrees, Call
<1>7. CASE w.auth /\ ~q.auth
  BY <1>2, <1>3, <1>4, <1>7
<1>8. CASE ~(w.auth /\ ~q.auth) /\ wrong # {}
  BY <1>2, <1>3, <1>5, <1>8
<1>9. CASE ~(w.auth /\ ~q.auth) /\ wrong = {}
  BY <1>2, <1>3, <1>6, <1>9
<1>10. QED
  BY <1>7, <1>8, <1>9

(* The generated handlers and those of api_handlers.go, path by path.      *)
LEMMA GeneratedAgrees ==
  ASSUME NEW q, IsQuery(q)
  PROVE  Agrees(ServeGenerated(Generated, q), Refused(q),
                IF ServeHTTP(q) = "wrapperProfile" THEN "Profile" ELSE "Create")
<1>1. q.api \in {"MyApi", "OtherApi"} /\ q.post \in BOOLEAN
  BY DEF IsQuery
<1>2. Generated = {ProfileWrapper, CreateWrapper, OtherCreateWrapper}
  BY GeneratedIs
<1>3. /\ ProfileWrapper.recv = "MyApi" /\ ProfileWrapper.url = "/user/profile"
      /\ ProfileWrapper.name = "Profile" /\ ProfileWrapper.auth = FALSE
      /\ ProfileWrapper.postOnly = FALSE
      /\ ProfileWrapper.fields = ProfileParams
  BY DEF ProfileWrapper
<1>4. /\ CreateWrapper.recv = "MyApi" /\ CreateWrapper.url = "/user/create"
      /\ CreateWrapper.name = "Create" /\ CreateWrapper.auth = TRUE
      /\ CreateWrapper.postOnly = TRUE
      /\ CreateWrapper.fields = CreateParams
  BY DEF CreateWrapper
<1>5. /\ OtherCreateWrapper.recv = "OtherApi"
      /\ OtherCreateWrapper.url = "/user/create"
      /\ OtherCreateWrapper.name = "Create" /\ OtherCreateWrapper.auth = TRUE
      /\ OtherCreateWrapper.postOnly = TRUE
      /\ OtherCreateWrapper.fields = OtherCreateParams
  BY DEF OtherCreateWrapper
<1>6. CASE q.path = "/user/profile" /\ q.api = "MyApi"
  <2>1. \A v \in Generated :
          v.recv = q.api /\ v.url = q.path <=> v = ProfileWrapper
    BY <1>2, <1>3, <1>4, <1>5, <1>6
  <2>2. ServeGenerated(Generated, q) = wrapper(ProfileWrapper, q)
    BY <1>2, <1>3, <2>1, ServeOne
  <2>3. ServeHTTP(q) = "wrapperProfile" /\ Params(q) = ProfileParams
    BY <1>6, RefusedCases
  <2>4. Agrees(wrapper(ProfileWrapper, q), Refused(q), ProfileWrapper.name)
    BY <1>3, <2>3, WrapperAgrees
  <2>5. QED
    BY <1>3, <2>2, <2>3, <2>4
<1>7. ASSUME NEW w \in Generated, w.postOnly = TRUE, w.auth = TRUE,
             w.name = "Create", q.path = "/user/create",
             w.fields = IF q.api = "MyApi" THEN CreateParams
                        ELSE OtherCreateParams,
             \A v \in Generated : v.recv = q.api /\ v.url = q.path <=> v = w
      PROVE  Agrees(ServeGenerated(Generated, q), Refused(q),
                    IF ServeHTTP(q) = "wrapperProfile" THEN "Profile"
                    ELSE "Create")
  <2>1. ServeGenerated(Generated, q) =
          IF ~q.post THEN Refusal(406, "bad method") ELSE wrapper(w, q)
    <3>1. \A v \in Generated : v.recv = q.api /\ v.url = q.path <=> v = w
      BY <1>7
    <3>2. ServeGenerated(Generated, q) =
            IF w.postOnly /\ ~q.post THEN Refusal(406, "bad method")
            ELSE wrapper(w, q)
      BY <3>1, ServeOne
    <3>3. QED
      BY <1>7, <3>2
  <2>2. CASE ~q.post
    <3>1. ServeHTTP(q) = "bad method" /\ Refused(q) = Answer(406, "bad method")
      BY <1>7, <2>2, RefusedCases
    <3>2. \A what, m, refused : refused = Answer(406, what) =>
            Agrees(Refusal(406, what), refused, m)
      BY RefusalAgrees
    <3>3. Agrees(Refusal(406, "bad method"), Refused(q), "Create")
      BY <3>1, <3>2, ZenonT(30)
    <3>4. ServeHTTP(q) # "wrapperProfile"
      BY <3>1
    <3>5. QED
      BY <2>1, <2>2, <3>3, <3>4
  <2>3. CASE q.post
    <3>1. /\ ServeHTTP(q) = "wrapperCreate"
          /\ Params(q) = IF q.api = "MyApi" THEN CreateParams
                         ELSE OtherCreateParams
      BY <1>7, <2>3, RefusedCases
    <3>2. Agrees(wrapper(w, q), Refused(q), w.name)
      BY <1>7, <3>1, WrapperAgrees
    <3>3. QED
      BY <1>7, <2>1, <2>3, <3>1, <3>2
  <2>4. QED
    BY <1>1, <2>2, <2>3
<1>8. CASE q.path = "/user/create" /\ q.api = "MyApi"
  <2>1. \A v \in Generated :
          v.recv = q.api /\ v.url = q.path <=> v = CreateWrapper
    BY <1>2, <1>3, <1>4, <1>5, <1>8
  <2>2. CreateWrapper \in Generated
    BY <1>2
  <2>3. QED
    BY <1>4, <1>7, <1>8, <2>1, <2>2
<1>9. CASE q.path = "/user/create" /\ q.api = "OtherApi"
  <2>1. \A v \in Generated :
          v.recv = q.api /\ v.url = q.path <=> v = OtherCreateWrapper
    BY <1>2, <1>3, <1>4, <1>5, <1>9
  <2>2. OtherCreateWrapper \in Generated
    BY <1>2
  <2>3. QED
    BY <1>5, <1>7, <1>9, <2>1, <2>2
<1>10. CASE /\ q.path # "/user/create"
            /\ ~(q.path = "/user/profile" /\ q.api = "MyApi")
  <2>1. \A v \in Generated : ~(v.recv = q.api /\ v.url = q.path)
    BY <1>2, <1>3, <1>4, <1>5, <1>10
  <2>2. ServeGenerated(Generated, q) = Refusal(404, "unknown method")
    BY <2>1, ServeNone
  <2>3. /\ ServeHTTP(q) = "unknown method"
        /\ Refused(q) = Answer(404, "unknown method")
    BY <1>10, RefusedCases
  <2>4. \A what, m, refused : refused = Answer(404, what) =>
          Agrees(Refusal(404, what), refused, m)
    BY RefusalAgrees
  <2>5. Agrees(Refusal(404, "unknown method"), Refused(q), "Create")
    BY <2>3, <2>4, ZenonT(30)
  <2>6. ServeHTTP(q) # "wrapperProfile"
    BY <2>3
  <2>7. QED
    BY <2>2, <2>5, <2>6
<1>11. QED
  BY <1>1, <1>6, <1>8, <1>9, <1>10

(* The generator gives every structure the checks and the values hw5.md    *)
(* says its tags mean, but for the structures it fails on and the requests *)
(* that leave out a field whose default it ignores; and api_handlers.go is *)
(* what it makes of api.go, whatever is asked.                             *)
THEOREM GeneratorMeansCorrect == Spec => []GeneratorMeans
<1>1. ApiInv => GeneratorMeans
  <2> SUFFICES ASSUME ApiInv
               PROVE  GeneratorMeans
    OBVIOUS
  <2>1. ASSUME NEW r \in Request, pc[r] = "serve"
        PROVE  IsQuery(query[r])
    BY <2>1, UserApiAssumption DEF ApiInv, Received
  <2>2. HandlersAreGenerated
    BY <2>1, GeneratedAgrees DEF HandlersAreGenerated
  <2>3. QED
    BY <2>2, TagsMeanCorrect DEF GeneratorMeans
<1>2. QED
  BY <1>1, ApiInvInvariant, PTL

-----------------------------------------------------------------------------
(* What EveryRequestIsAnswered needs of the program: who waits for the     *)
(* mutex waits for somebody who can go on, and nobody goes on for ever.    *)

(* The mutex is held by requests between its Lock and its Unlock only.     *)
HeldByServed ==
  /\ writer # Nothing =>
       writer \in Request /\ pc[writer] \in {"check", "number", "store", "unlock"}
  /\ \A r \in readers : r \in Request /\ pc[r] \in {"read", "runlock"}

(* The guards of Serve(r).                                                 *)
Ready(r) ==
  \/ pc[r] = "serve" /\ Refused(query[r]) # Pending
  \/ Calls(r, "OtherApi", "wrapperCreate")
  \/ Calls(r, "MyApi", "wrapperProfile") \/ Calls(r, "MyApi", "wrapperCreate")
  \/ pc[r] = "profile" /\ writer = Nothing
  \/ pc[r] = "create" /\ writer = Nothing /\ readers = {}
  \/ pc[r] \in {"read", "runlock", "check", "number", "store", "unlock"}

(* A request that has arrived and cannot go on waits for one that holds    *)
(* the mutex and can.                                                      *)
NobodyWaitsInVain ==
  \A r \in Request :
    pc[r] \notin {"new", "done"} /\ ~Ready(r) =>
      \E s \in Request : (writer = s \/ s \in readers) /\ Ready(s)

(* The statements that a request has before it.                            *)
Left(l) ==
  CASE l = "new" -> 7 [] l = "serve" -> 6 [] l = "create" -> 5
    [] l = "profile" -> 3 [] l = "read" -> 2 [] l = "runlock" -> 1
    [] l = "check" -> 4 [] l = "number" -> 3 [] l = "store" -> 2
    [] l = "unlock" -> 1 [] l = "done" -> 0

(* A step takes one request further and leaves the others where they are.  *)
StepsRunOut ==
  [][\E r \in Request :
       /\ Left(pc[r])' \in Nat /\ Left(pc[r])' < Left(pc[r])
       /\ \A s \in Request \ {r} : pc'[s] = pc[s]]_vars

(* Where a step takes a request.                                           *)
Moves(r, from, to) == pc[r] = from /\ Goto(r, to)

LEMMA StepsMove ==
  ASSUME NEW r \in Request, Receive(r) \/ Serve(r)
  PROVE  \/ Moves(r, "new", "serve") \/ Moves(r, "serve", "done")
         \/ Moves(r, "serve", "profile") \/ Moves(r, "serve", "create")
         \/ Moves(r, "profile", "read") \/ Moves(r, "read", "runlock")
         \/ Moves(r, "runlock", "done") \/ Moves(r, "create", "check")
         \/ Moves(r, "check", "unlock") \/ Moves(r, "check", "number")
         \/ Moves(r, "number", "store") \/ Moves(r, "store", "unlock")
         \/ Moves(r, "unlock", "done")
<1>1. CASE Receive(r) \/ Refuse(r) \/ OtherCreate(r) \/ CallProfile(r) \/ CallCreate(r)
  BY <1>1, Zenon DEF Moves, Receive, Refuse, OtherCreate, CallProfile, CallCreate, Begin, Calls
<1>2. CASE RLock(r) \/ ReadUser(r) \/ RUnlock(r)
  BY <1>2, Zenon DEF Moves, RLock, ReadUser, RUnlock
<1>3. CASE Lock(r) \/ CheckExists(r) \/ TakeID(r) \/ StoreUser(r) \/ Unlock(r)
  BY <1>3, Zenon DEF Moves, Lock, CheckExists, TakeID, StoreUser, Unlock
<1> QED
  BY <1>1, <1>2, <1>3, Zenon DEF Serve

LEMMA HeldByServedInvariant == Spec => []HeldByServed
<1> USE UserApiAssumption
<1>1. Init => HeldByServed
  BY DEF Init, HeldByServed
<1>2. ApiInv /\ HeldByServed /\ [Next]_vars => HeldByServed'
  <2> SUFFICES ASSUME ApiInv, HeldByServed, [Next]_vars
               PROVE  HeldByServed'
    OBVIOUS
  <2>0. pc \in [Request -> Labels]
    BY DEF ApiInv, ApiTypes
  <2> USE DEF HeldByServed, mutex, Goto
  <2>1. ASSUME NEW r \in Request, UNCHANGED mutex, NEW l, Goto(r, l),
               pc[r] \in {"check", "number", "store"} => l \in {"number", "store", "unlock"},
               pc[r] # "unlock", pc[r] = "read" => l = "runlock", pc[r] # "runlock"
        PROVE  HeldByServed'
    BY <2>0, <2>1
  <2>2. ASSUME NEW r \in Request, Receive(r) \/ Refuse(r) \/ OtherCreate(r)
        PROVE  HeldByServed'
    BY <2>1, <2>2 DEF Receive, Refuse, OtherCreate, Calls
  <2>3. ASSUME NEW r \in Request, CallProfile(r) \/ CallCreate(r)
        PROVE  HeldByServed'
    <3>1. PICK l : pc[r] = "serve" /\ Goto(r, l) /\ UNCHANGED mutex
      BY <2>3, Zenon DEF CallProfile, CallCreate, Begin, Calls
    <3> QED BY <2>1, <3>1
  <2>4. ASSUME NEW r \in Request, RLock(r)
        PROVE  HeldByServed'
    BY <2>0, <2>4 DEF RLock
  <2>5. ASSUME NEW r \in Request, ReadUser(r) \/ TakeID(r) \/ StoreUser(r)
        PROVE  HeldByServed'
    <3>1. CASE ReadUser(r)
      BY <2>1, <3>1, Zenon DEF ReadUser
    <3>2. CASE TakeID(r)
      BY <2>1, <3>2, Zenon DEF TakeID
    <3>3. CASE StoreUser(r)
      BY <2>1, <3>3, Zenon DEF StoreUser
    <3> QED BY <2>5, <3>1, <3>2, <3>3
  <2>6. ASSUME NEW r \in Request, RUnlock(r)
        PROVE  HeldByServed'
    BY <2>0, <2>6 DEF RUnlock
  <2>7. ASSUME NEW r \in Request, Lock(r)
        PROVE  HeldByServed'
    BY <2>0, <2>7 DEF Lock
  <2>8. ASSUME NEW r \in Request, CheckExists(r)
        PROVE  HeldByServed'
    <3>1. pc[r] = "check" /\ UNCHANGED mutex
      BY <2>8 DEF CheckExists
    <3>2. Goto(r, "unlock") \/ Goto(r, "number")
      BY <2>8, Zenon DEF CheckExists
    <3> HIDE DEF Goto, HeldByServed
    <3> QED BY <2>1, <3>1, <3>2
  <2>9. ASSUME NEW r \in Request, Unlock(r)
        PROVE  HeldByServed'
    <3>1. writer' = Nothing /\ readers' = readers /\ pc' = [pc EXCEPT ![r] = "done"]
      BY <2>9 DEF Unlock
    <3>2. pc[r] = "unlock"
      BY <2>9 DEF Unlock
    <3> QED BY <2>0, <3>1, <3>2
  <2>10. CASE UNCHANGED vars
    BY <2>10 DEF vars
  <2> QED
    BY <2>2, <2>3, <2>4, <2>5, <2>6, <2>7, <2>8, <2>9, <2>10 DEF Next, Serve
<1> QED
  BY <1>1, <1>2, ApiInvInvariant, PTL DEF Spec

(* A request that has been received is refused or has its method.          *)
LEMMA ServedIsReady ==
  ASSUME NEW r \in Request, query[r] \in Queries[r], pc[r] = "serve"
  PROVE  Ready(r)
<1>1. IsQuery(query[r])
  BY UserApiAssumption
<1>2. query[r].api \in {"MyApi", "OtherApi"} /\ query[r].post \in BOOLEAN
  BY <1>1 DEF IsQuery
<1>3. \/ ServeHTTP(query[r]) = "wrapperProfile" /\ query[r].api = "MyApi"
      \/ ServeHTTP(query[r]) = "wrapperCreate"
      \/ Refused(query[r]) \in {Answer(404, "unknown method"), Answer(406, "bad method")}
  BY <1>1, <1>2, RefusedCases
<1>4. Pending \notin {Answer(404, "unknown method"), Answer(406, "bad method")}
  <2>1. /\ Pending.status # Answer(404, "unknown method").status
        /\ Pending.status # Answer(406, "bad method").status
    BY DEF Pending, Answer
  <2>2. /\ Pending # Answer(404, "unknown method")
        /\ Pending # Answer(406, "bad method")
    BY <2>1, Zenon
  <2> QED BY <2>2, Zenon
<1> QED
  BY <1>2, <1>3, <1>4 DEF Ready, Calls

(* api.go: the deferred Unlock. Whoever waits for the mutex, its holder is *)
(* served and can go on, for any number of requests.                       *)
THEOREM NobodyWaitsInVainCorrect == Spec => []NobodyWaitsInVain
<1>1. ApiInv /\ HeldByServed => NobodyWaitsInVain
  <2> SUFFICES ASSUME ApiInv, HeldByServed, NEW r \in Request,
                      pc[r] \notin {"new", "done"}, ~Ready(r)
               PROVE  \E s \in Request : (writer = s \/ s \in readers) /\ Ready(s)
    BY DEF NobodyWaitsInVain
  <2>1. pc[r] \in Labels /\ query[r] \in Queries[r]
    BY DEF ApiInv, ApiTypes, Received
  <2>2. pc[r] # "serve"
    BY <2>1, ServedIsReady
  <2>3. writer # Nothing \/ readers # {}
    BY <2>1, <2>2 DEF Labels, Ready
  <2>4. CASE writer # Nothing
    <3>1. writer \in Request /\ Ready(writer)
      BY <2>4 DEF HeldByServed, Ready
    <3> QED BY <3>1
  <2>5. CASE readers # {}
    <3>1. PICK s \in readers : TRUE
      BY <2>5
    <3>2. s \in Request /\ Ready(s)
      BY <3>1 DEF HeldByServed, Ready
    <3> QED BY <3>1, <3>2
  <2> QED BY <2>3, <2>4, <2>5
<1> QED
  BY <1>1, ApiInvInvariant, HeldByServedInvariant, PTL

(* api_handlers.go and api.go: no wrapper and no method has a loop. Every  *)
(* step takes one request nearer to its answer.                            *)
THEOREM StepsRunOutCorrect == Spec => StepsRunOut
<1>1. ApiInv /\ [Next]_vars =>
        [\E r \in Request :
           /\ Left(pc[r])' \in Nat /\ Left(pc[r])' < Left(pc[r])
           /\ \A s \in Request \ {r} : pc'[s] = pc[s]]_vars
  <2> SUFFICES ASSUME ApiInv, NEW r \in Request, Receive(r) \/ Serve(r)
               PROVE  /\ Left(pc[r])' \in Nat /\ Left(pc[r])' < Left(pc[r])
                      /\ \A s \in Request \ {r} : pc'[s] = pc[s]
    BY Zenon DEF Next
  <2>0. pc \in [Request -> Labels]
    BY DEF ApiInv, ApiTypes
  <2>1. ASSUME NEW k, NEW l, Moves(r, k, l), Left(l) \in Nat, Left(l) < Left(k)
        PROVE  /\ Left(pc[r])' \in Nat /\ Left(pc[r])' < Left(pc[r])
               /\ \A s \in Request \ {r} : pc'[s] = pc[s]
    <3>1. pc[r] = k /\ pc'[r] = l /\ \A s \in Request \ {r} : pc'[s] = pc[s]
      BY <2>0, <2>1 DEF Moves, Goto
    <3> QED BY <2>1, <3>1
  <2>2. /\ Left("new") = 7 /\ Left("serve") = 6 /\ Left("create") = 5
        /\ Left("profile") = 3 /\ Left("read") = 2 /\ Left("runlock") = 1
        /\ Left("check") = 4 /\ Left("number") = 3 /\ Left("store") = 2
        /\ Left("unlock") = 1 /\ Left("done") = 0
    BY DEF Left
  <2> QED
    BY <2>1, <2>2, StepsMove
<1> QED
  BY <1>1, ApiInvInvariant, PTL DEF Spec, StepsRunOut
=============================================================================
