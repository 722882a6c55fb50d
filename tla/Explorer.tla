------------------------------ MODULE Explorer ------------------------------
(***************************************************************************)
(* DbExplorer among other programs: its names, of which many are those of  *)
(* any program with a table, are behind `Db!'.                             *)
(***************************************************************************)
CONSTANTS Schemas, Bodies, Paths, Numerals, MaxRows, MaxId
VARIABLES columns, table, nextId, req

Db == INSTANCE DbExplorer

ASSUME ExplorerAssumption == Db!OneValueEach

dbVars == <<columns, table, nextId, req>>

(* A request changes the row it names and no other (see DbExplorer).       *)
WritesStayInRow == Db!WritesStayInRow

(* What a request wrote is read back by the next GET (see DbExplorer).     *)
ReadsBack == Db!ReadsBack
=============================================================================
