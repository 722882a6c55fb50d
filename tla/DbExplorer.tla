----------------------------- MODULE DbExplorer -----------------------------
(***************************************************************************)
(* The MySQL explorer of src/hw6_db_explorer/db_explorer.go, for one table *)
(* of the database: every request builds one SQL statement from what was   *)
(* read about the columns at the start, and the table changes as MySQL (in *)
(* strict mode) executes it.                                               *)
(*                                                                         *)
(* SQL text is modelled by what it says: a literal is the value it stands  *)
(* for, the name of a column that column's value, and text that is neither *)
(* is Broken.  The code splices the segment of the path and the texts for  *)
(* numbers into its statements as they are, so a segment may be a number,  *)
(* any condition, or nothing MySQL parses, and a text a number, a name or  *)
(* nothing.  (Such a text could also go on with SQL of its own; these are  *)
(* left out.)  The text 'NULL' is kept apart because the code gives it a   *)
(* meaning, and "a'b" is the text with a quote in it.                      *)
(***************************************************************************)
EXTENDS Integers, Sequences, FiniteSets

CONSTANTS
  Schemas,     \* tables: per field its type, whether it may be NULL, is key
  Bodies,      \* what requests carry: json values by field name
  Paths,       \* what follows the table's name in a path, split at "/"
  Numerals,    \* the texts that are numbers, with twice their values
  MaxRows,     \* bound: rows of the table
  MaxId        \* bound: numbers MySQL has given to rows

VARIABLES
  columns,     \* the columns of the table, as read by getColumns
  table,       \* MySQL: the rows by their numbers, which rise with age
  nextId,      \* MySQL: the next number, AUTO_INCREMENT if there is a key
  req          \* the request being served, or NoRequest

vars == <<columns, table, nextId, req>>

(* Values of json, of cells, and of literals.  Numbers count halves.       *)
Text(s) == [type |-> "string", val |-> s]
Halves(n) == [type |-> "float64", val |-> n]
Number(n) == Halves(2 * n)
Bool == [type |-> "bool", val |-> 1]
Object == [type |-> "", val |-> 0]
Nil == [type |-> "nil", val |-> 0]
Broken == [type |-> "broken", val |-> 0]
Column(f) == [type |-> "column", val |-> f]
Quote == Text("a'b")

NoKey == "-"
NoId == Text("")
NoRequest == [method |-> "none", path |-> <<>>, body |-> <<>>, referer |-> 0]

Fields == DOMAIN columns

(* getPRI.                                                                 *)
getPRI ==
  IF \E f \in Fields : columns[f].pri
  THEN CHOOSE f \in Fields : columns[f].pri
  ELSE NoKey

(* A limit in the URL of the request itself is never looked at; referer is *)
(* the limit in the query of the Referer, 0 if there is none.              *)
Requests ==
  [method : {"POST", "PUT"}, path : Paths, body : Bodies, referer : {0}]
    \cup [method : {"DELETE"}, path : Paths, body : {<<>>}, referer : {0}]
    \cup [method : {"GET"}, path : Paths, body : {<<>>}, referer : {0, 1}]

Texts ==
  {v \in UNION {{b[f] : f \in DOMAIN b} : b \in Bodies} : v.type = "string"}
Cells == {Nil, Text(""), Text("null")} \cup Texts
           \cup {Halves(n) : n \in 0..(2 * MaxId)}

(* MySQL assigns the columns of a statement one after the other; a body    *)
(* whose texts name columns that it gives as well is left out.             *)
OneValueEach ==
  /\ \A s \in DOMAIN Numerals : Numerals[s] \in Int
  /\ \A b \in Bodies : \A f \in DOMAIN b :
       /\ b[f].type = "float64" => b[f].val \in Int
       /\ b[f].type = "string" => b[f].val \notin DOMAIN b

TypeOK ==
  /\ columns \in Schemas
  /\ nextId \in 1..MaxId
  /\ DOMAIN table \subseteq 1..(nextId - 1)
  /\ Cardinality(DOMAIN table) <= MaxRows
  /\ \A k \in DOMAIN table : table[k] \in [Fields -> Cells]
  /\ req = NoRequest \/ req.body \in Bodies \cup {<<>>}

Init ==
  /\ columns \in Schemas
  /\ table = <<>>
  /\ nextId = 1
  /\ req = NoRequest

(* Rows are inserted while the bounds leave room.                          *)
Receive ==
  /\ req = NoRequest
  /\ req' \in Requests
  /\ req'.method = "PUT" =>
       Cardinality(DOMAIN table) < MaxRows /\ nextId < MaxId
  /\ UNCHANGED <<columns, table, nextId>>

-----------------------------------------------------------------------------
(* The statements.                                                         *)

(* The id is the segment behind the table's name, if it is the last one.   *)
Id(path) == IF Len(path) = 1 THEN path[1] ELSE NoId

IsText(f) == columns[f].type \in {"varchar", "text"}

GetType(f) ==
  CASE IsText(f) -> "string"
    [] columns[f].type = "int" -> "int"
    [] columns[f].type = "float" -> "float"
    [] OTHER -> ""

(* strings.Contains(reflect.TypeOf(v).Name(), GetType()): "float64" has    *)
(* "float" in it, no type has "int", and "" is in every name.              *)
HasType(v, f) ==
  CASE GetType(f) = "string" -> v.type = "string"
    [] GetType(f) = "float" -> v.type = "float64"
    [] GetType(f) = "int" -> FALSE
    [] OTHER -> TRUE

(* What a value says that was formatted without quotes.                    *)
Unquoted(v) ==
  CASE v \in {Text("NULL"), Text("null")} -> Nil
    [] v = Bool -> Number(1)
    [] v.type = "float64" -> v
    [] v.type = "string" /\ v.val \in DOMAIN Numerals -> Halves(Numerals[v.val])
    [] v.type = "string" /\ v.val \in Fields -> Column(v.val)
    [] OTHER -> Broken

(* WhereByPRIKey: the rows a statement is about.  A condition has the      *)
(* numbers of the rows it is true of as its val.                           *)
WhereByPRIKey(row, id) ==
  \/ id = NoId \/ getPRI = NoKey
  \/ id.type = "float64" /\ row[getPRI] = id
  \/ id.type = "condition" /\ row[getPRI] \in id.val

(* A segment that MySQL does not parse, behind the key's name.             *)
BadId == Id(req.path) = Broken /\ getPRI # NoKey

Given(body) == Fields \cap DOMAIN body

(* Update refuses a body for the first column it does not fit.             *)
Refused(body) ==
  \E f \in Given(body) :
    \/ columns[f].pri
    \/ body[f] = Nil /\ ~columns[f].null
    \/ body[f] # Nil /\ ~HasType(body[f], f)

(* Faulty: empty texts are taken for missing ones.                         *)
Update_SkipsEmpty(body) ==
  [f \in {g \in Given(body) : body[g] # Text("")} |->
     CASE body[f] \in {Nil, Text("NULL")} -> Nil
       [] OTHER -> IF IsText(f) THEN body[f] ELSE Unquoted(body[f])]

(* Update: the SET clause.  A NULL is not quoted, nor is the text 'NULL',  *)
(* and a quote in a text ends it.                                          *)
Update(body) ==
  [f \in Given(body) |->
     CASE body[f] \in {Nil, Text("NULL")} -> Nil
       [] IsText(f) /\ body[f] = Quote -> Broken
       [] OTHER -> IF IsText(f) THEN body[f] ELSE Unquoted(body[f])]

(* Insert leaves out the key and what is NULL by default, but a nullable   *)
(* column that is given is set to null, and quoted if it holds text.       *)
Insert(body) ==
  [f \in {g \in Fields : ~columns[g].pri
                         /\ (columns[g].null => g \in Given(body))} |->
     CASE columns[f].null -> IF IsText(f) THEN Text("null") ELSE Nil
       [] ~columns[f].null /\ (f \notin Given(body) \/ body[f] = Nil) ->
            IF IsText(f) THEN Text("") ELSE Broken
       [] OTHER -> IF IsText(f) THEN body[f] ELSE Unquoted(body[f])]

(* Insert asserts that what it quotes is a string.                         *)
Panics(body) ==
  \E f \in Given(body) :
    /\ ~columns[f].pri /\ ~columns[f].null /\ IsText(f)
    /\ body[f].type \notin {"string", "nil"}

(* MySQL: a column takes a value as its type has it.  A number is rounded  *)
(* for a column of whole numbers, halves away from zero; a text is a       *)
(* number if it looks like one.                                            *)
Rounded(n) ==
  CASE n % 2 = 0 -> n
    [] n % 2 = 1 /\ n > 0 -> n + 1
    [] OTHER -> n - 1

Held(f, n) == Halves(IF columns[f].type = "float" THEN n ELSE Rounded(n))

Taken(f, w) ==
  IF w = Nil THEN IF columns[f].null THEN Nil ELSE Broken
  ELSE IF IsText(f) THEN w
  ELSE CASE w.type = "float64" -> Held(f, w.val)
         [] w.type = "string" /\ w.val \in DOMAIN Numerals ->
              Held(f, Numerals[w.val])
         [] OTHER -> Broken

(* What a clause gives a column of a row.                                  *)
Gives(set, f, row) ==
  Taken(f, IF set[f].type = "column" THEN row[set[f].val] ELSE set[f])

(* A statement fails as a whole if it says something that is no value, or  *)
(* gives one of its rows what the column does not take.                    *)
Fails(set, rows) ==
  \E f \in DOMAIN set :
    set[f] = Broken \/ \E row \in rows : Gives(set, f, row) = Broken

-----------------------------------------------------------------------------
(* The requests, one statement each: what the table is afterwards, and the *)
(* status of the answer (0 when the handler panics and there is none).     *)

(* The rows the path selects, and those afterwards if they are given what  *)
(* set says.                                                               *)
Selected == {k \in DOMAIN table : WhereByPRIKey(table[k], Id(req.path))}

SelectedRows == {table[k] : k \in Selected}

Changed(set) ==
  [k \in DOMAIN table |->
     IF k \in Selected
     THEN [f \in Fields |->
             IF f \in DOMAIN set THEN Gives(set, f, table[k]) ELSE table[k][f]]
     ELSE table[k]]

(* A body without any column makes a statement MySQL does not parse.       *)
PostStatus ==
  CASE Refused(req.body) -> 400
    [] /\ ~Refused(req.body)
       /\ \/ Given(req.body) = {} \/ BadId
          \/ Fails(Update(req.body), SelectedRows)
         -> 500
    [] OTHER -> 200

(* Faulty: one statement per column, where only those that fit succeed.    *)
Post_PerColumn ==
  LET clause(f) == [g \in {f} |-> Update(req.body)[g]]
      fits == {f \in Given(req.body) :
                 /\ ~columns[f].pri
                 /\ HasType(req.body[f], f)
                 /\ ~BadId
                 /\ ~Fails(clause(f), SelectedRows)}
  IN
  /\ req.method = "POST"
  /\ table' = Changed([f \in fits |-> Update(req.body)[f]])
  /\ UNCHANGED nextId

Post ==
  /\ req.method = "POST"
  /\ table' = IF PostStatus = 200 THEN Changed(Update(req.body)) ELSE table
  /\ UNCHANGED nextId

(* A name in an INSERT stands for the column's value by default; the key   *)
(* has none before the row is stored.                                      *)
Blank ==
  [f \in Fields |->
     CASE columns[f].pri -> Number(0)
       [] ~columns[f].pri /\ IsText(f) /\ ~columns[f].null -> Text("")
       [] OTHER -> Nil]

Inserts == ~Panics(req.body) /\ ~Fails(Insert(req.body), {Blank})

(* The key of the answer is only looked for after the row was inserted.    *)
PutStatus ==
  CASE Panics(req.body) -> 0
    [] ~Panics(req.body) /\ (~Inserts \/ getPRI = NoKey) -> 500
    [] OTHER -> 200

NewRow(set) ==
  [f \in Fields |->
     CASE columns[f].pri -> Number(nextId)
       [] ~columns[f].pri /\ f \in DOMAIN set -> Gives(set, f, Blank)
       [] OTHER -> Nil]

Put ==
  /\ req.method = "PUT"
  /\ IF Inserts
     THEN /\ table' = [k \in DOMAIN table \cup {nextId} |->
                        IF k \in DOMAIN table THEN table[k]
                        ELSE NewRow(Insert(req.body))]
          /\ nextId' = nextId + 1
     ELSE UNCHANGED <<table, nextId>>

(* Without a key or without an id the statement is empty or incomplete.    *)
DeleteStatus ==
  IF getPRI = NoKey \/ Id(req.path) = NoId \/ BadId THEN 500 ELSE 200

Delete ==
  /\ req.method = "DELETE"
  /\ table' = IF DeleteStatus # 200 THEN table
              ELSE [k \in DOMAIN table \ Selected |-> table[k]]
  /\ UNCHANGED nextId

(* query: an empty cell of a nullable column becomes null.                 *)
ReadRow(row) ==
  [f \in Fields |->
     IF row[f] = Text("") /\ columns[f].null THEN Nil ELSE row[f]]

(* Without a limit it is 5.  With an id only the first row is shown.       *)
Limit ==
  CASE Id(req.path) # NoId -> 1
    [] Id(req.path) = NoId /\ req.referer = 0 -> 5
    [] OTHER -> req.referer

GetAnswer ==
  {ReadRow(table[k]) :
     k \in {n \in Selected : Cardinality({m \in Selected : m < n}) < Limit}}

Get == req.method = "GET" /\ UNCHANGED <<table, nextId>>

Status ==
  CASE req.method = "POST" -> PostStatus
    [] req.method = "PUT" -> PutStatus
    [] req.method = "DELETE" -> DeleteStatus
    [] OTHER -> CASE BadId -> 500
                  [] ~BadId /\ GetAnswer = {} -> 404
                  [] OTHER -> 200

Serve ==
  /\ req # NoRequest
  /\ Post \/ Put \/ Delete \/ Get
  /\ req' = NoRequest
  /\ UNCHANGED columns

Next == Receive \/ Serve

Spec == Init /\ [][Next]_vars

-----------------------------------------------------------------------------
(* The properties.  An exception a property names is what the code does.   *)

Others(rows, id) ==
  [k \in {n \in DOMAIN rows : rows[n][getPRI] # id} |-> rows[k]]

(* WhereByPRIKey: a POST or DELETE whose path ends in a number leaves the  *)
(* rows of all other numbers alone, and a PUT every row.  That is no more  *)
(* than the code does: a POST whose path does not end in an id is about    *)
(* every row, and an id that is no number, but a condition, is about every *)
(* row the condition holds of, because the segment is spliced into the     *)
(* statement as it is (db_explorer.go:69, 161; hw6.md:27 asks otherwise).  *)
(* An answer that is an error means the statement was not executed, except *)
(* for a PUT into a table without a key: the row is there, the answer is   *)
(* 500.                                                                    *)
WritesStayInRow ==
  [][/\ req.method = "PUT" =>
          table = [k \in DOMAIN table' \ {nextId} |-> table'[k]]
     /\ /\ req.method \in {"POST", "DELETE"}
        /\ getPRI # NoKey /\ Id(req.path).type = "float64"
        => Others(table', Id(req.path)) = Others(table, Id(req.path))
     /\ req # NoRequest /\ Status # 200
        => table' = table \/ (req.method = "PUT" /\ getPRI = NoKey)]_vars

(* The number nearest to n halves that a column can hold.                  *)
Holds(cell, f, n) ==
  /\ cell.type = "float64"
  /\ IF columns[f].type = "float" THEN cell.val = n
     ELSE cell.val % 2 = 0 /\ cell.val - n \in -1..1

(* A column of numbers holds a value: NULL, a number, or a text of one.    *)
HoldsValue(cell, f, w) ==
  CASE w = Nil -> cell = Nil
    [] w.type = "float64" -> Holds(cell, f, w.val)
    [] w.type = "string" -> /\ w.val \in DOMAIN Numerals
                            /\ Holds(cell, f, Numerals[w.val])
    [] OTHER -> FALSE

(* What a body gives a column of a row is read back.  A text is read from  *)
(* a column of texts as it was given, except that for POST the text 'NULL' *)
(* becomes NULL and an empty one in a nullable column is read as NULL.  A  *)
(* number is read from a column of whole numbers as the nearest (11.1 as   *)
(* 11, main_test.go:401-430), and true as 1.  A text for a column of       *)
(* numbers is not refused but taken for SQL: a number, NULL, or, if it is  *)
(* a column's name, that column's value.                                   *)
ReadsBackAs(cell, f, v, row) ==
  \/ IsText(f) /\ cell = v
  \/ IsText(f) /\ v = Text("") /\ columns[f].null /\ cell = Nil
  \/ IsText(f) /\ v = Text("NULL") /\ cell = Nil
  \/ ~IsText(f) /\ HoldsValue(cell, f, v)
  \/ ~IsText(f) /\ v = Bool /\ Holds(cell, f, 2)
  \/ ~IsText(f) /\ v \in {Text("NULL"), Text("null")} /\ cell = Nil
  \/ ~IsText(f) /\ v.type = "string" /\ v.val \in Fields
     /\ HoldsValue(cell, f, row[v.val])

PostReadsBack(k, f) ==
  LET cell == ReadRow(table'[k])[f] IN
  IF k \in Selected /\ f \in Given(req.body)
  THEN ReadsBackAs(cell, f, req.body[f], table[k])
  ELSE cell = ReadRow(table[k])[f]

(* A PUT also loses what is given for a nullable column, for NULL or the   *)
(* text 'null', and NULL for a column of texts that is not.                *)
PutReadsBack(f) ==
  LET cell == ReadRow(table'[nextId])[f] IN
  CASE columns[f].null -> cell \in {Nil, Text("null")}
    [] ~columns[f].null /\ req.body[f] = Nil -> cell = Text("")
    [] OTHER -> ReadsBackAs(cell, f, req.body[f], Blank)

(* What a request says is read back from the rows it was written to, as    *)
(* ReadsBackAs and PutReadsBack have it, and what it does not say is read  *)
(* as before.                                                              *)
ReadsBack ==
  [][/\ req.method = "POST" /\ Status = 200 =>
          \A k \in DOMAIN table, f \in Fields : PostReadsBack(k, f)
     /\ req.method = "PUT" /\ Status = 200 =>
          \A f \in Given(req.body) : ~columns[f].pri => PutReadsBack(f)]_vars

=============================================================================
