------------------------------- MODULE Items --------------------------------
(***************************************************************************)
(* The list of items with its forms in src/database: three programs with   *)
(* the same pages, over MySQL by statements, over MySQL by gorm and over   *)
(* MongoDB by mgo.  Each handler is a few statements, executed one by one  *)
(* among those of the other requests.  `database' is the program that      *)
(* runs.  The pages of List and AddForm change nothing and depend on       *)
(* nothing else.                                                           *)
(*                                                                         *)
(* An id that is no number, or no ObjectId, is Bad.  0 is an id for MySQL  *)
(* that no row has: gorm's edit page of a missing item posts to it.        *)
(***************************************************************************)
EXTENDS Naturals, FiniteSets, Functions

CONSTANTS
  Visitor, Title,
  Database,      \* the programs to run: "mysql", "gorm", "mongodb"
  Bad,           \* an id that is none
  MaxVisits,     \* bound: requests of each visitor
  MaxLost        \* bound: connections lost

ASSUME ItemsAssumption ==
  Database \subseteq {"mysql", "gorm", "mongodb"} /\ Bad \notin Nat

VARIABLES
  database,
  items,      \* the rows: id -> text, who updated it
  lastId,     \* the last id given
  visit,      \* the request of a visitor
  step,       \* its next statement, or "none"
  shown,      \* what the visitor is shown
  visits, lost,
  refused,    \* mongodb: the session failed, and fails ever after
  removed,    \* the ids of deleted rows (history)
  cut         \* the visitors whose request lost a connection (history)

itemsVars == <<database, items, lastId, visit, step, shown, visits, lost,
               refused, removed, cut>>

Row(text, by) == [text |-> text, by |-> by]
NoVisit == [op |-> "none", id |-> 0, text |-> ""]

Page(what) == [page |-> "edit", is |-> what]
Empty == Row("", "")
List == [page |-> "list"]
Redirect == [page |-> "redirect"]
Affected(n) == [page |-> "affected", n |-> n]
Status500 == [page |-> "500"]
Aborted == [page |-> "aborted"]      \* __err_panic, recovered by net/http
Nothing == [page |-> "none"]

ItemsInit ==
  /\ database \in Database
  /\ items = <<Row("a", ""), Row("b", "rvasily")>>
  /\ lastId = 2
  /\ visit = [v \in Visitor |-> NoVisit]
  /\ step = [v \in Visitor |-> "none"]
  /\ shown = [v \in Visitor |-> Nothing]
  /\ visits = [v \in Visitor |-> 0] /\ lost = 0
  /\ refused = FALSE /\ removed = {} /\ cut = {}

(* What a statement makes of the rows and what the visitor is shown then.  *)
Result(rows, last, page) == [items |-> rows, last |-> last, shown |-> page]
Same(page) == Result(items, lastId, page)
With(i, row) ==
  [j \in {i} \cup DOMAIN items |-> IF j = i THEN row ELSE items[j]]
Insert(i, row) ==
  Result(With(i, row), IF i > lastId THEN i ELSE lastId, Redirect)
Removed(ids) == Restrict(items, DOMAIN items \ ids)
Given(i) == i \in DOMAIN items

-----------------------------------------------------------------------------
(* mysql/main.go.                                                          *)

MysqlList == Same(List)
MysqlAdd(text) == Insert(lastId + 1, Row(text, ""))
MysqlEdit(i) == Same(IF Given(i) THEN Page(items[i]) ELSE Aborted)

(* Faulty: the statement has no condition.                                 *)
MysqlUpdate_All(i, text) ==
  Result([j \in DOMAIN items |-> Row(text, "rvasily")], lastId, Redirect)

MysqlUpdate(i, text) ==
  Result(IF Given(i) THEN [items EXCEPT ![i] = Row(text, "rvasily")] ELSE items,
         lastId, Redirect)
MysqlDelete(i) ==
  Result(Removed({i}), lastId, Affected(IF Given(i) THEN 1 ELSE 0))

(* gorm/main.go.  Find of a missing row is an error, which Edit prints;    *)
(* Delete without a primary key has no condition.                          *)
GormList == Same(List)
GormAdd(text) == Insert(lastId + 1, Row(text, ""))
GormEdit(i) == Same(Page(IF Given(i) THEN items[i] ELSE Empty))
GormDelete(i) ==
  LET ids == IF i = 0 THEN DOMAIN items ELSE {i} \cap DOMAIN items
  IN  Result(Removed(ids), lastId, Affected(Cardinality(ids)))

(* mongodb/main.go.  Edit ignores the error; Update replaces the document. *)
MongoList == Same(List)
MongoAdd(text) == Insert(lastId + 1, Row(text, ""))
MongoEdit(i) == Same(Page(IF Given(i) THEN items[i] ELSE Empty))
MongoUpdate(i, text) ==
  Result(IF Given(i) THEN [items EXCEPT ![i] = Row(text, "rvasily")] ELSE items,
         lastId, Redirect)
MongoDelete(i) ==
  Result(Removed({i}), lastId, Affected(IF Given(i) THEN 1 ELSE 0))

(* The handlers of one statement.  Find in MongoUpdate decides nothing.    *)
Handle(r) ==
  CASE database = "mysql" ->
         (CASE r.op = "list" -> MysqlList
            [] r.op = "add" -> MysqlAdd(r.text)
            [] r.op = "edit" -> MysqlEdit(r.id)
            [] r.op = "update" -> MysqlUpdate(r.id, r.text)
            [] r.op = "delete" -> MysqlDelete(r.id))
    [] database = "gorm" ->
         (CASE r.op = "list" -> GormList
            [] r.op = "add" -> GormAdd(r.text)
            [] r.op = "edit" -> GormEdit(r.id)
            [] r.op = "delete" -> GormDelete(r.id))
    [] database = "mongodb" ->
         (CASE r.op = "list" -> MongoList
            [] r.op = "add" -> MongoAdd(r.text)
            [] r.op = "edit" -> MongoEdit(r.id)
            [] r.op = "update" -> MongoUpdate(r.id, r.text)
            [] r.op = "delete" -> MongoDelete(r.id))

(* What the statement under way makes of the rows.  Find and First change  *)
(* nothing, and a row that is there cannot be created.                     *)
Statement(v) ==
  LET i == visit[v].id  new == Row(visit[v].text, "rvasily") IN
  CASE step[v] = "handle" -> Handle(visit[v])
    [] step[v] = "insert" -> Insert(lastId + 1, new)
    [] step[v] = "save" /\ Given(i) ->
         Result([items EXCEPT ![i] = new], lastId, Redirect)
    [] step[v] = "create" /\ ~Given(i) -> Insert(i, new)
    [] OTHER -> Same(Aborted)

-----------------------------------------------------------------------------
Then(v, s) == step' = [step EXCEPT ![v] = s]
Show(v, page) ==
  /\ shown' = [shown EXCEPT ![v] = page]
  /\ Then(v, "none")

Does(v, result) ==
  /\ items' = result.items /\ lastId' = result.last
  /\ removed' = removed \cup (DOMAIN items \ DOMAIN result.items)
  /\ Show(v, result.shown)
  /\ UNCHANGED <<database, visit, visits, lost, refused, cut>>

Reads(v) ==
  UNCHANGED <<database, items, lastId, visit, visits, lost, refused, removed,
              cut>>

Ids == (IF database = "mongodb" THEN 1 ELSE 0)..lastId \cup {Bad}

(* What the router lets through.                                           *)
Requests ==
  {[op |-> "list", id |-> 0, text |-> ""]}
  \cup [op : {"add"}, id : {0}, text : Title]
  \cup [op : {"edit", "delete"}, id : Ids, text : {""}]
  \cup [op : {"update"}, id : Ids, text : Title]

Arrive(v) ==
  /\ step[v] = "none" /\ visits[v] < MaxVisits
  /\ visits' = [visits EXCEPT ![v] = @ + 1]
  /\ \E r \in Requests :
       /\ visit' = [visit EXCEPT ![v] = r]
       /\ IF r.id = Bad
          THEN Show(v, IF database = "mongodb" THEN Status500 ELSE Aborted)
          ELSE /\ Then(v, IF database = "gorm" /\ r.op = "update"
                          THEN "find" ELSE "handle")
               /\ shown' = [shown EXCEPT ![v] = Nothing]
  /\ cut' = cut \ {v}
  /\ UNCHANGED <<database, items, lastId, lost, refused, removed>>

Execute(v) ==
  /\ step[v] = "handle" /\ ~refused
  /\ Does(v, Statement(v))

(* gorm's Update: Find, which leaves the item empty if there is no row or  *)
(* an error, and nobody looks at that...                                   *)
GormFind(v) ==
  /\ step[v] = "find"
  /\ Then(v, IF Given(visit[v].id) THEN "save" ELSE "insert")
  /\ Reads(v) /\ UNCHANGED shown

GormFindFails(v) ==
  /\ step[v] = "find" /\ lost < MaxLost
  /\ lost' = lost + 1 /\ cut' = cut \cup {v}
  /\ Then(v, "insert")
  /\ UNCHANGED <<database, items, lastId, visit, shown, visits, refused,
                 removed>>

(* ...then Save, which inserts what has no id, and otherwise updates.  If  *)
(* no row was changed, because it is gone or the same, it looks for the    *)
(* row and creates it.                                                     *)
GormInsert(v) ==
  /\ step[v] = "insert"
  /\ Does(v, Statement(v))

GormSave(v) ==
  LET i == visit[v].id IN
  /\ step[v] = "save"
  /\ IF Given(i) /\ items[i] # Row(visit[v].text, "rvasily")
     THEN Does(v, Statement(v))
     ELSE Then(v, "first") /\ Reads(v) /\ UNCHANGED shown

GormFirst(v) ==
  /\ step[v] = "first"
  /\ IF Given(visit[v].id) THEN Show(v, Redirect)
                           ELSE Then(v, "create") /\ UNCHANGED shown
  /\ Reads(v)

GormCreate(v) ==
  /\ step[v] = "create"
  /\ Does(v, Statement(v))

(* mgo's session has failed: what looks at the error panics.               *)
MongoRefused(v) ==
  /\ step[v] = "handle" /\ refused
  /\ Does(v, Same(IF visit[v].op = "edit" THEN Page(Empty) ELSE Aborted))

(* A connection is lost.  The statement under way was executed or not, and *)
(* its handler panics; database/sql makes a new connection, mgo does not.  *)
ConnectionLost(v) ==
  /\ step[v] \notin {"none", "find"} /\ ~refused /\ lost < MaxLost
  /\ lost' = lost + 1 /\ cut' = cut \cup {v}
  /\ refused' = (database = "mongodb")
  /\ \E r \in {Statement(v), Same(Aborted)} :
       /\ items' = r.items /\ lastId' = r.last
       /\ removed' = removed \cup (DOMAIN items \ DOMAIN r.items)
  /\ Show(v, IF database = "mongodb" /\ visit[v].op = "edit"
             THEN Page(Empty) ELSE Aborted)
  /\ UNCHANGED <<database, visit, visits>>

ItemsNext ==
  \E v \in Visitor :
    \/ Arrive(v) \/ Execute(v)
    \/ GormFind(v) \/ GormFindFails(v) \/ GormInsert(v) \/ GormSave(v)
    \/ GormFirst(v) \/ GormCreate(v)
    \/ MongoRefused(v) \/ ConnectionLost(v)

ItemsSpec == ItemsInit /\ [][ItemsNext]_itemsVars

-----------------------------------------------------------------------------
(* A step changes the row its request names, or adds one for an Add; a row *)
(* that was deleted does not come back, and an Update that is answered     *)
(* leaves its text in the row it names unless there is none.  gorm breaks  *)
(* each of these in its own way: its Delete without id takes every row;    *)
(* the Update of a row that is missing, or whose Find lost its connection, *)
(* adds a row, or brings the deleted one back; one that finds its row      *)
(* deleted and brought back leaves the other's text, and so does a second  *)
(* Update that finds the row with its own text when a third comes between. *)
Changed == {i \in DOMAIN items \cup DOMAIN items' :
              ~(i \in DOMAIN items \cap DOMAIN items' /\ items[i] = items'[i])}

Acts(v) == step[v] # "none" /\ step'[v] # step[v]

New == (lastId + 1)..lastId'

(* gorm's Update may not see its row: no row ever had the id, or it was    *)
(* deleted once, or the connection was lost.                               *)
MayMiss(v) ==
  /\ database = "gorm" /\ visit[v].op = "update"
  /\ visit[v].id \in {0} \cup removed \/ v \in cut

ItsOwn(v) ==
  LET r == visit[v] IN
  /\ \/ Changed \subseteq
          (CASE r.op \in {"list", "edit"} -> {}
             [] r.op = "add" -> New
             [] r.op = "delete" ->
                  IF database = "gorm" /\ r.id = 0 THEN DOMAIN items ELSE {r.id}
             [] r.op = "update" -> {r.id})
     \/ MayMiss(v) /\ Changed \subseteq New
  /\ DOMAIN items' \cap removed # {} => database = "gorm"
  /\ r.op = "update" /\ shown'[v] = Redirect =>
       \/ r.id \in DOMAIN items' /\ items'[r.id].text = r.text
       \/ database # "gorm" /\ r.id \notin DOMAIN items
       \/ MayMiss(v) /\ \E i \in New : items'[i].text = r.text
       \/ step[v] = "first"

RowsAreTheirOwn == [][\A v \in Visitor : Acts(v) => ItsOwn(v)]_itemsVars
=============================================================================
