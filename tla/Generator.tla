----------------------------- MODULE Generator ------------------------------
(***************************************************************************)
(* What the handlers that handlers_gen/codegen.go of src/hw5_codegen       *)
(* generates do with requests, compared with what hw5.md says that tags    *)
(* mean, and with the handlers of api_handlers.go.                         *)
(***************************************************************************)
EXTENDS UserApi, Codegen

CONSTANTS
  Structs,      \* the fields of structures, each with its tags
  TestForms     \* what requests to their handlers carry

(* A name is an identifier nothing else in the generated code has (also no *)
(* field x next to lx, the values of an enum x), a text one for a tag.     *)
Tagged ==
  [name : STRING, type : {"string", "int"}, required : BOOLEAN, min : Int,
   max : Int, enum : SUBSET STRING,
   default : [word : STRING, len : Nat, int : Int]]

(* hw5.md has max for numbers only.  A text without characters is Empty.   *)
ASSUME GeneratorAssumption ==
  /\ \A fields \in Structs :
       /\ fields \in Seq(Tagged)
       /\ \A i \in DOMAIN fields :
            /\ fields[i].type = "string" => fields[i].max = NoBound
            /\ fields[i].default.word = "" <=> fields[i].default = Empty
  /\ \A form \in TestForms : \A n \in DOMAIN form :
       form[n].word = "" <=> form[n] = Empty

Query(api, path, post, auth, form) ==
  [api |-> api, path |-> path, post |-> post, auth |-> auth, form |-> form]

(* A file with one structure and one method for it.                        *)
FileOf(fields, method) ==
  [structs |-> {Struct("In", fields)},
   funcs |-> {Method("Api", "Do",
                [url |-> "/do", auth |-> TRUE, method |-> method], "In")}]

(* What hw5.md allows and the generator does not: a panic over an enum     *)
(* without default; a file without numbers, two fields of one name, two    *)
(* enums in a structure and required or enum for a number give code that   *)
(* does not compile.                                                       *)
Unsupported(fields) ==
  \/ \E i \in DOMAIN fields :
       \/ HasEnum(fields[i]) /\ fields[i].default = Empty
       \/ fields[i].type = "int" /\ (fields[i].required \/ HasEnum(fields[i]))
  \/ \A i \in DOMAIN fields : fields[i].type = "string"
  \/ \E i, j \in DOMAIN fields :
       /\ i # j
       /\ \/ fields[i].name = fields[j].name
          \/ HasEnum(fields[i]) /\ HasEnum(fields[j])

DocumentedAnswer(fields, post, form) ==
  IF ~post THEN Refusal(406, "bad method")
  ELSE IF NotMet(fields, form) # {}
  THEN Refusal(400, FirstOf(fields, NotMet(fields, form)))
  ELSE Call("Do", [i \in DOMAIN fields |-> Given(fields[i], form).word])

(* Where the generator leaves hw5.md:27: default is written by the code    *)
(* for enum only, after the checks of required and min.                    *)
DefaultIgnored(f) ==
  /\ f.default # Empty
  /\ ~HasEnum(f) \/ f.required \/ f.min > 0

WithoutIgnored(fields) ==
  [i \in DOMAIN fields |->
     IF DefaultIgnored(fields[i]) THEN [fields[i] EXCEPT !.default = Empty]
     ELSE fields[i]]

(* As hw5.md says, but for a request that leaves out a field with a        *)
(* default that is ignored: that is served as if the field had none.       *)
ServedAsMeant(served, fields, post, form) ==
  /\ (\A i \in DOMAIN fields :
        DefaultIgnored(fields[i]) => FormValue(form, fields[i].name) # Empty)
       => served = DocumentedAnswer(fields, post, form)
  /\ served = DocumentedAnswer(WithoutIgnored(fields), post, form)

(* Every structure of numbers and texts, with any tags that the generator  *)
(* supports (see Unsupported).                                             *)
TagsMean ==
  \A fields \in Structs, method \in {"", "POST"} :
    LET made == Generate(FileOf(fields, method)) IN
    IF Unsupported(fields) THEN made \in {Panics, DoesNotCompile}
    ELSE \A form \in TestForms, post \in BOOLEAN :
           ServedAsMeant(
             ServeGenerated(made, Query("Api", "/do", post, TRUE, form)),
             fields, post \/ method = "", form)

Generated == Generate(ApiGo)

(* What is answered is the call of the method, or the same refusal.        *)
Agrees(answered, refused, method) ==
  IF refused = Pending THEN answered.status = 200 /\ answered.method = method
  ELSE answered = Refusal(refused.status, refused.body)

(* Those of api_handlers.go refuse the same requests as what is generated  *)
(* from api.go, for the same reasons, and call the same method.            *)
HandlersAreGenerated ==
  \A r \in Request : pc[r] = "serve" =>
    Agrees(ServeGenerated(Generated, query[r]), Refused(query[r]),
           IF ServeHTTP(query[r]) = "wrapperProfile" THEN "Profile" ELSE "Create")

(* The generator gives every structure the checks and the values hw5.md    *)
(* says its tags mean, in their order, except for what it does not support *)
(* and for the defaults it ignores (codegen.go:384); and the handlers in   *)
(* api_handlers.go are those it makes of api.go.                           *)
GeneratorMeans == TagsMean /\ HandlersAreGenerated
=============================================================================
