----------------------------- MODULE ApiParams ------------------------------
(***************************************************************************)
(* The validation of parameters that handlers_gen/codegen.go of            *)
(* src/hw5_codegen generates from the tags of a structure, and what        *)
(* hw5.md says that the tags mean.                                         *)
(*                                                                         *)
(* A text of a form is known by its length in characters, the number it    *)
(* reads as, and itself: Txt(word, len, int).                              *)
(***************************************************************************)
EXTENDS Integers, Sequences, FiniteSetsExt

NotInt == -1000       \* strconv.Atoi fails
NoBound == -1000      \* no such tag, as Empty for default

Txt(word, len, int) == [word |-> word, len |-> len, int |-> int]
Empty == Txt("", 0, NotInt)

(* A field of a structure with its tags, and those api.go has.             *)
Str(name, required, min) ==
  [name |-> name, type |-> "string", required |-> required, min |-> min,
   max |-> NoBound, enum |-> {}, default |-> Empty]
Enum(name, enum, default) ==
  [Str(name, FALSE, NoBound) EXCEPT !.enum = enum, !.default = default]
Num(name, min, max) ==
  [Str(name, FALSE, min) EXCEPT !.type = "int", !.max = max]

(* The structures of api.go.                                               *)
ProfileParams == <<Str("login", TRUE, NoBound)>>
CreateParams ==
  <<Str("login", TRUE, 10), Str("full_name", FALSE, NoBound),
    Enum("status", {"user", "moderator", "admin"}, Txt("user", 4, NotInt)),
    Num("age", 0, 128)>>
OtherCreateParams ==
  <<Str("username", TRUE, 3), Str("account_name", FALSE, NoBound),
    Enum("class", {"warrior", "sorcerer", "rouge"}, Txt("warrior", 7, NotInt)),
    Num("level", 1, 50)>>

(* r.FormValue: what is not in the form is empty.                          *)
FormValue(form, name) == IF name \in DOMAIN form THEN form[name] ELSE Empty

-----------------------------------------------------------------------------
(* The code generated for one field: its checks in their order.            *)

Size(f, v) == IF f.type = "int" THEN v.int ELSE v.len

Filled(f, v) ==
  IF f.enum # {} /\ v.word = "" THEN f.default.word ELSE v.word

apiParRequired(f, v) == f.required => v.word # ""
apiParMin(f, v) == f.min = NoBound \/ Size(f, v) >= f.min

(* The check of enum takes the place of that of max.                       *)
apiParMax(f, v) ==
  IF f.enum # {} THEN Filled(f, v) \in f.enum
  ELSE f.max = NoBound \/ Size(f, v) <= f.max

Passes(f, v) ==
  /\ f.type = "int" => v.int # NotInt
  /\ apiParRequired(f, v) /\ apiParMin(f, v) /\ apiParMax(f, v)

Wrong(fields, form) ==
  {i \in DOMAIN fields : ~Passes(fields[i], FormValue(form, fields[i].name))}

(* The wrapper returns at the first of them.                               *)
FirstOf(fields, wrong) == fields[Min(wrong)].name

-----------------------------------------------------------------------------
(* hw5.md:22-30: the tags of a field, each by itself.  Where nothing       *)
(* arrives the field has what default says, whatever its type and its      *)
(* other tags; that value is what the tags are about and the method gets.  *)

Given(f, form) ==
  LET v == FormValue(form, f.name)
  IN  IF v = Empty THEN f.default ELSE v

Meets(f, form) ==
  LET v == Given(f, form) IN
  /\ f.required => v # Empty
  /\ f.enum # {} => v.word \in f.enum
  /\ f.type = "int" => v.int # NotInt
  /\ f.min # NoBound => Size(f, v) >= f.min
  /\ f.type = "int" /\ f.max # NoBound => v.int <= f.max

(* The fields that do not meet their tags.                                 *)
NotMet(fields, form) ==
  {i \in DOMAIN fields : ~Meets(fields[i], form)}
=============================================================================
