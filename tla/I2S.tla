-------------------------------- MODULE I2S ---------------------------------
(***************************************************************************)
(* src/hw8_i2s: i2s fills a structure from what encoding/json makes of a   *)
(* text.  A type is <<"int">>, <<"bool">>, <<"string">>, <<"slice", t>> or *)
(* <<"struct", fields>>, the fields a sequence of names with types.  Data  *)
(* and values carry their kind: <<"float64", n>>, <<"bool", b>>,           *)
(* <<"string", s>>, <<"slice", items>>, <<"map", members>>, <<"nil">>; a   *)
(* float64 counts halves, and is within what an int64 can hold.            *)
(*                                                                         *)
(* What is recursive is a recursive function of the data here, and gives,  *)
(* for some data, what becomes of each type: the operator before it says   *)
(* what happens once, given what happens below.                            *)
(***************************************************************************)
EXTENDS Integers, Sequences, SequencesExt, TLC

CONSTANTS
  Types,    \* those i2s may meet, with the types of their parts
  Data,     \* the same for data
  depth     \* how deep data nests

Field(name, type) == [name |-> name, type |-> type]
NoData == <<"nil">>

IsType(t) ==
  \/ t[1] \in {"int", "bool", "string"}
  \/ t[1] = "slice" /\ t[2] \in Types
  \/ t[1] = "struct" /\ t[2] \in Seq([name : STRING, type : Types])

(* What a walk may meet next: the elements, the members or a missing one.  *)
Parts(d) ==
  IF d[1] = "slice" THEN {d[2][i] : i \in DOMAIN d[2]}
  ELSE IF d[1] = "map" THEN {d[2][name] : name \in DOMAIN d[2]} \cup {NoData}
  ELSE {}

IsDatum(d) ==
  /\ d[1] \in {"float64", "bool", "string", "nil", "slice", "map"}
  /\ d[1] = "float64" => d[2] \in Int
  /\ d[1] = "slice" => d[2] \in Seq(Parts(d))
  /\ \A e \in Parts(d) : depth[e] < depth[d]

(* A text is finite: data does not contain itself.                         *)
ASSUME I2SAssumption ==
  /\ NoData \in Data /\ depth \in [Data -> Nat]
  /\ UNION {Parts(d) : d \in Data} \subseteq Data
  /\ \A d \in Data : IsDatum(d)
  /\ \A t \in Types : IsType(t)

(* What reflect.New makes.                                                 *)
Zero[t \in Types] ==
  CASE t[1] = "int" -> <<"int", 0>>
    [] t[1] = "bool" -> <<"bool", FALSE>>
    [] t[1] = "string" -> <<"string", "">>
    [] t[1] = "slice" -> <<"slice", <<>>>>
    [] t[1] = "struct" ->
         <<"struct", [i \in DOMAIN t[2] |-> Zero[t[2][i].type]]>>

(* data[field.Name]                                                        *)
Member(d, name) == IF name \in DOMAIN d[2] THEN d[2][name] ELSE NoData

(* The type assertions, which panic.                                       *)
Asserts(t, d) ==
  d[1] = (CASE t[1] = "int" -> "float64" [] t[1] = "struct" -> "map" [] OTHER -> t[1])

Basic(t) == t[1] \in {"int", "bool", "string"}

(* int64(...) of n halves.                                                 *)
Int64(n) == IF n >= 0 THEN n \div 2 ELSE -((-n) \div 2)

Convert(t, d) == IF t[1] = "int" THEN <<"int", Int64(d[2])>> ELSE d

(* walk returns an error, if it recovers, and leaves what it has set.      *)
Walked(er, out) == [er |-> er, out |-> out]

(* Faulty: elements that do not fit are left out.                          *)
Appended_Fitting(ws) ==
  LET fit == SelectSeq(ws, LAMBDA w : ~w.er)
  IN  <<"slice", [i \in DOMAIN fit |-> fit[i].out]>>

(* The elements are appended with or without error.                        *)
Appended(ws) == <<"slice", [i \in DOMAIN ws |-> ws[i].out]>>

(* The field i of a structure.                                             *)
Type(t, i) == t[2][i].type
Datum(t, i, d) == Member(d, t[2][i].name)
Panics(t, i, d) == Type(t, i)[1] # "struct" /\ ~Asserts(Type(t, i), Datum(t, i, d))

(* A walk goes field by field until an assertion panics; the errors of the *)
(* walks below it are dropped.  A number, a bool or a string as an element *)
(* is nothing it knows.                                                    *)
Filled(below, t, i, d) ==
  IF \E j \in 1..i : Panics(t, j, d) THEN Zero[Type(t, i)]
  ELSE IF Basic(Type(t, i)) THEN Convert(Type(t, i), Datum(t, i, d))
  ELSE below[Datum(t, i, d)][Type(t, i)].out

WalkOnce(below, t, d) ==
  IF Basic(t) THEN Walked(FALSE, Zero[t])
  ELSE IF ~Asserts(t, d) THEN Walked(TRUE, Zero[t])
  ELSE IF t[1] = "slice"
  THEN Walked(FALSE, Appended([i \in DOMAIN d[2] |-> below[d[2][i]][t[2]]]))
  ELSE Walked(\E i \in DOMAIN t[2] : Panics(t, i, d),
              <<"struct", [i \in DOMAIN t[2] |-> Filled(below, t, i, d)]>>)

walk[d \in Data] == [t \in Types |-> WalkOnce(walk, t, d)]

i2s(t, d) == walk[d][t]

-----------------------------------------------------------------------------
(* Does data fit a type, and what does it mean then?                       *)
FitsOnce(below, t, d) ==
  /\ Asserts(t, d)
  /\ t[1] = "slice" => \A i \in DOMAIN d[2] : below[d[2][i]][t[2]]
  /\ t[1] = "struct" => \A i \in DOMAIN t[2] : below[Datum(t, i, d)][Type(t, i)]

fits[d \in Data] == [t \in Types |-> FitsOnce(fits, t, d)]

(* An int means a number if it is the number or, if there is a fraction,   *)
(* the next one on the way to zero: nothing rounds or refuses a fraction.  *)
Abs(n) == IF n < 0 THEN -n ELSE n

WholePart(n) ==
  CHOOSE k \in -Abs(n)..Abs(n) :
    /\ Abs(n - 2 * k) < 2
    /\ Abs(2 * k) <= Abs(n)

Meaning(t, d) ==
  IF t[1] = "int" THEN <<"int", WholePart(d[2])>> ELSE d

MeansOnce(below, t, d) ==
  IF ~Asserts(t, d) THEN NoData
  ELSE IF Basic(t) THEN Meaning(t, d)
  ELSE IF t[1] = "slice"
  THEN <<"slice", [i \in DOMAIN d[2] |-> below[d[2][i]][t[2]]]>>
  ELSE <<"struct", [i \in DOMAIN t[2] |-> below[Datum(t, i, d)][Type(t, i)]]>>

means[d \in Data] == [t \in Types |-> MeansOnce(means, t, d)]

(* Whether no number, bool or text is an element of a slice.               *)
OfStructsOnce(below, t, d) ==
  Asserts(t, d) =>
    /\ t[1] = "slice" => \A i \in DOMAIN d[2] : ~Basic(t[2]) /\ below[d[2][i]][t[2]]
    /\ t[1] = "struct" => \A i \in DOMAIN t[2] : below[Datum(t, i, d)][Type(t, i)]

ofStructs[d \in Data] == [t \in Types |-> OfStructsOnce(ofStructs, t, d)]

(* Whether whatever another walk is for fits: the elements of slices, and  *)
(* structures in structures.                                               *)
ElementsFit(t, d) ==
  t[1] = "slice" /\ Asserts(t, d) => \A i \in DOMAIN d[2] : fits[d[2][i]][t[2]]

NestedFit(t, d) ==
  /\ ElementsFit(t, d)
  /\ t[1] = "struct" /\ Asserts(t, d) =>
       \A i \in DOMAIN t[2] :
         /\ ElementsFit(Type(t, i), Datum(t, i, d))
         /\ Type(t, i)[1] = "struct" => fits[Datum(t, i, d)][Type(t, i)]

(* Whether the slices of a value of i2s are as long as those of the data,  *)
(* as far as a walk gets.                                                  *)
Outs == {i2s(t, d).out : t \in Types, d \in Data}

SameLengthOnce(below, t, d, v) ==
  ~Basic(t) /\ Asserts(t, d) =>
    /\ t[1] = "slice" =>
         /\ Len(v[2]) = Len(d[2])
         /\ ~Basic(t[2]) => \A i \in DOMAIN d[2] : below[d[2][i]][t[2]][v[2][i]]
    /\ t[1] = "struct" =>
         \A i \in DOMAIN t[2] :
           ~Basic(Type(t, i)) /\ (\A j \in 1..i : ~Panics(t, j, d)) =>
             below[Datum(t, i, d)][Type(t, i)][v[2][i]]

sameLength[d \in Data] ==
  [t \in Types |-> [v \in Outs |-> SameLengthOnce(sameLength, t, d, v)]]

-----------------------------------------------------------------------------
(* A call of i2s, with a pointer to a structure or a slice, is one state.  *)
VARIABLE input

Inputs == {t \in Types : ~Basic(t)} \X Data

I2SInit == input \in Inputs
I2SSpec == I2SInit /\ [][FALSE]_input

(* i2s reports no misfit where there is none, and then sets what the data  *)
(* means, but for slices of numbers and texts, whose elements stay zero.   *)
(* Data that does not fit, at any depth, is reported, as TestErrors asks   *)
(* (main_test.go:107-147), except where the misfit is in an element of a   *)
(* slice or in a structure in a structure, whose error is dropped          *)
(* (i2s.go:48, 54, 64).  So "SubSimple":true, for which main_test.go:131-134 *)
(* expects an error, has one only because the test's data has no Blocks.   *)
(* A part that does not fit still has its place in its slice.              *)
FilledIfItFits ==
  LET t == input[1]
      d == input[2]
      r == i2s(t, d)
  IN
  /\ fits[d][t] => ~r.er /\ (ofStructs[d][t] => r.out = means[d][t])
  /\ ~fits[d][t] /\ NestedFit(t, d) => r.er
  /\ sameLength[d][t][r.out]
=============================================================================
