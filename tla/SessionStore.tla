---------------------------- MODULE SessionStore ----------------------------
(***************************************************************************)
(* What a session manager promises its callers: a map from session id to   *)
(* login whose operations take effect in one step, between the call and    *)
(* the answer.  A caller is told what that step returned.  When the call   *)
(* fails he is told anything that admits nobody: an error, the login form, *)
(* or that he is logged out; and his login or logout may still take effect,*)
(* once, at any later time.  The map may disappear with its process.       *)
(***************************************************************************)
EXTENDS Naturals, Functions

CONSTANTS Caller, Key, Person

VARIABLES
  known,   \* the sessions: key -> person
  due,     \* the call of a caller, then what it returned until he is told
  told,    \* what a caller was told; nothing while he waits
  late     \* calls that have failed and may take effect yet

storeVars == <<known, due, told, late>>

Nothing == <<"nothing">>
Nobody == <<"nobody">>
Gone == <<"gone">>
Trouble == <<"trouble">>
Wants(op, k) == <<"call", op, k>>
Opened(k) == <<"key", k>>
Holder(p) == <<"person", p>>

Init ==
  /\ known = << >>
  /\ due = [c \in Caller |-> Nothing]
  /\ told = [c \in Caller |-> Nothing]
  /\ late = {}

Call(c, call) ==
  /\ due[c] = Nothing
  /\ due' = [due EXCEPT ![c] = call]
  /\ told' = [told EXCEPT ![c] = Nothing]
  /\ UNCHANGED <<known, late>>

Return(c, call, what) == due[c] = call /\ due' = [due EXCEPT ![c] = what]

(* A process that draws the same keys again may replace a session.         *)
Adds(k, p) == known' = [j \in {k} \cup DOMAIN known |-> IF j = k THEN p ELSE known[j]]
Drops(k) == known' = Restrict(known, DOMAIN known \ {k})

Open(c, k, p) ==
  /\ Return(c, Wants("open", 0), Opened(k))
  /\ Adds(k, p)
  /\ UNCHANGED <<told, late>>

Look(c, k) ==
  /\ Return(c, Wants("look", k),
            IF k \in DOMAIN known THEN Holder(known[k]) ELSE Nobody)
  /\ UNCHANGED <<known, told, late>>

Close(c, k) ==
  /\ Return(c, Wants("close", k), Gone)
  /\ Drops(k)
  /\ UNCHANGED <<told, late>>

(* A call that has failed takes effect after all.                          *)
LateOpen(l, k, p) ==
  /\ l.call = Wants("open", 0)
  /\ Adds(k, p)
  /\ late' = late \ {l}
  /\ UNCHANGED <<due, told>>

LateClose(l, k) ==
  /\ l.call = Wants("close", k)
  /\ Drops(k)
  /\ late' = late \ {l}
  /\ UNCHANGED <<due, told>>

(* The answer is told; one who has no session may be told of trouble.      *)
MayBeTold(what) ==
  {what} \cup (IF what = Nobody THEN {Trouble} ELSE {})
         \cup (IF what = Trouble THEN {Nobody, Gone} ELSE {})

Tell(c) ==
  /\ due[c] # Nothing /\ due[c][1] # "call"
  /\ \E w \in MayBeTold(due[c]) : told' = [told EXCEPT ![c] = w]
  /\ due' = [due EXCEPT ![c] = Nothing]
  /\ UNCHANGED <<known, late>>

(* A caller without key is answered at once.                               *)
NoKey(c) ==
  /\ due[c] = Nothing
  /\ \E w \in {Nobody, Gone, Trouble} : told' = [told EXCEPT ![c] = w]
  /\ UNCHANGED <<known, due, late>>

(* Calls break, with sessions or without; each may take effect yet.        *)
Fails(c) ==
  /\ due[c] # Nothing
  /\ \/ due'[c] = Trouble /\ told'[c] = told[c]
     \/ due'[c] = Nothing /\ told'[c] = Trouble

Break ==
  /\ DOMAIN known' \subseteq DOMAIN known
  /\ known' = Restrict(known, DOMAIN known')
  /\ \A c \in Caller : UNCHANGED <<due[c], told[c]>> \/ Fails(c)
  /\ \A l \in late' \ late :
       /\ l.by \in Caller /\ Fails(l.by)
       /\ l.call = due[l.by] /\ l.call[1] = "call"
       /\ \A m \in late' \ late : m.by = l.by => m = l

Next ==
  \/ Break
  \/ \E c \in Caller :
       \/ Call(c, Wants("open", 0)) \/ Tell(c) \/ NoKey(c)
       \/ \E k \in Key : \/ Call(c, Wants("look", k)) \/ Call(c, Wants("close", k))
                         \/ Look(c, k) \/ Close(c, k)
                         \/ \E p \in Person : Open(c, k, p)
  \/ \E l \in late, k \in Key : LateClose(l, k) \/ \E p \in Person : LateOpen(l, k, p)

Spec == Init /\ [][Next]_storeVars
=============================================================================
