----------------------------- MODULE MCExamples -----------------------------
(***************************************************************************)
(* The programs that serve one page or one connection, side by side.  They *)
(* have nothing to do with each other: `example' is the one that runs, and *)
(* the others stay as they were started.                                   *)
(***************************************************************************)
EXTENDS Items, ConsulConfig, Translit, Monitoring, I2S, AclCheck, Explorer

VARIABLE example

(* The explorer's tables: one like items of the tests, with a nullable     *)
(* number like test of users; one whose types are shown as int and float;  *)
(* one without key.                                                        *)
Column(type, null, pri) == [type |-> type, null |-> null, pri |-> pri]

MCSchemas ==
  {[id |-> Column("bigint", FALSE, TRUE),
    title |-> Column("varchar", FALSE, FALSE),
    updated |-> Column("varchar", TRUE, FALSE),
    test |-> Column("bigint", TRUE, FALSE)],
   [id |-> Column("int", FALSE, TRUE),
    test |-> Column("int", TRUE, FALSE),
    updated |-> Column("float", FALSE, FALSE)],
   [title |-> Column("text", FALSE, FALSE),
    test |-> Column("bigint", FALSE, FALSE)]}

Json(type, val) == [type |-> type, val |-> val]

(* 1.5 is 3 halves; "1" is a number for SQL, and "id" a name.              *)
MCNumerals == "1" :> 2

Values ==
  [title |-> {Json("string", s) : s \in {"a", "", "NULL", "a'b"}}
               \cup {Json("float64", 2), Json("nil", 0)},
   updated |-> {Json("string", s) : s \in {"a", "", "NULL", "1"}}
               \cup {Json("float64", 3), Json("nil", 0)},
   test |-> {Json("string", s) : s \in {"a", "NULL", "1", "id"}}
               \cup {Json("float64", 3), Json("float64", 2), Json("bool", 1),
                     Json("", 0), Json("nil", 0)}]

(* One field with any value, or two with the more likely ones.             *)
MCBodies ==
  {<<>>} \cup UNION {[{f} -> Values[f]] : f \in DOMAIN Values}
  \cup {f :> Json("float64", 2) : f \in {"id", "other"}}
  \cup
  UNION {[fs -> {Json("string", "a"), Json("float64", 2), Json("nil", 0)}] :
           fs \in {{"title", "test"}, {"updated", "test"}}}

(* No id, an id, a condition that holds of every row, and no SQL at all.   *)
MCPaths ==
  {<<>>, <<Json("float64", 2)>>, <<Json("float64", 4)>>,
   <<Json("float64", 2), Json("float64", 2)>>,
   <<Json("condition", {Json("float64", 2), Json("float64", 4)})>>,
   <<Json("broken", 0)>>}

(* The structures and data for i2s: structures of two fields, slices, and  *)
(* one level more; every kind of data in every place.                      *)
Inner == <<"struct", <<Field("a", <<"int">>)>>>>
MCTypes ==
  LET inner == {<<"int">>, <<"bool">>, <<"string">>, Inner, <<"slice", Inner>>,
                <<"slice", <<"slice", Inner>>>>, <<"slice", <<"int">>>>}
  IN  {<<"struct", <<Field("a", s), Field("b", t)>>>> :
         s \in {<<"int">>, <<"bool">>}, t \in inner}
      \cup inner \cup {<<"slice", t>> : t \in inner}

(* The numbers are 1 and -1.5.                                             *)
Leaves ==
  {<<"float64", 2>>, <<"float64", -3>>, <<"bool", TRUE>>, <<"string", "s">>,
   NoData}
Maps == {<<"map", <<>>>>} \cup {<<"map", "a" :> l>> : l \in Leaves}
Slices(data) ==
  {<<"slice", s>> : s \in {<<>>} \cup {<<d, e>> : d \in data, e \in data}}
Deep == Leaves \cup Slices(Leaves \cup Maps) \cup Slices(Slices(Maps))
MCData ==
  Deep \cup Maps \cup Slices(Maps) \cup {<<"map", "b" :> NoData>>}
  \cup {<<"map", "a" :> l @@ "b" :> d>> : l \in Leaves, d \in Deep \cup Maps}

MCDepth[d \in MCData] ==
  IF d[1] \notin {"slice", "map"} THEN 0
  ELSE 1 + Max({0} \cup {MCDepth[d[2][i]] : i \in DOMAIN d[2]})

MCSegment == STRING
Method(service, name) == <<"", service, name>>

(* Every list of up to two of eight paths, well-formed and malformed, for  *)
(* one of two consumers, the other one being unknown; every header of up   *)
(* to two values that may make one of their names, or another.             *)
Entries ==
  {Method("main.Biz", n) : n \in {"Check", "*"}}
  \cup {Method("main.Admin", n) : n \in {"Check", "*"}}
  \cup {Method("*", "Check"), <<"", "main.Biz">>, <<"">>,
        <<"", "main.Biz", "Check", "v2">>}

MCLists ==
  {name :> list : name \in {<<"biz_">>, <<"biz_", "user">>},
                  list \in BoundedSeq(Entries, 2)}

MCHeaders == BoundedSeq({<<"biz_">>, <<"user">>, <<"biz_", "user">>}, 2)

MCCalls ==
  {Method("main.Biz", "Check"), Method("main.Biz", "Test"),
   Method("main.Admin", "Logging")}

small == <<itemsVars, configVars, translitVars, monitorVars, call, input>>
programs == <<small, dbVars>>

ACall == CHOOSE c \in Lists \X Headers \X Calls : TRUE
AnInput == <<Inner, NoData>>

Examples == {"items", "config", "translit", "monitoring", "explorer",
             "i2s", "auth"}

(* The programs that do not run begin as one of their number does.         *)
Init ==
  /\ example \in Examples
  /\ ItemsInit /\ ConfigInit /\ TranslitInit /\ MonitorInit /\ Db!Init
  /\ example # "items" => database = "gorm"
  /\ example # "translit" => serving
  /\ example # "monitoring" => monitor = "site"
  /\ example # "explorer" => columns = CHOOSE c \in MCSchemas : TRUE
  /\ input \in IF example = "i2s" THEN Inputs ELSE {AnInput}
  /\ call \in IF example = "auth" THEN Lists \X Headers \X Calls ELSE {ACall}

Next ==
  /\ UNCHANGED <<example, input, call>>
  /\ \/ /\ example = "items" /\ ItemsNext
        /\ UNCHANGED <<configVars, translitVars, monitorVars, dbVars>>
     \/ /\ example = "config" /\ ConfigNext
        /\ UNCHANGED <<itemsVars, translitVars, monitorVars, dbVars>>
     \/ /\ example = "translit" /\ TranslitNext
        /\ UNCHANGED <<itemsVars, configVars, monitorVars, dbVars>>
     \/ /\ example = "monitoring" /\ MonitorNext
        /\ UNCHANGED <<itemsVars, configVars, translitVars, dbVars>>
     \/ /\ example = "explorer" /\ Db!Next
        /\ UNCHANGED small

Spec == Init /\ [][Next]_<<example, programs>>
=============================================================================
