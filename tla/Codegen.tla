------------------------------ MODULE Codegen -------------------------------
(***************************************************************************)
(* handlers_gen/codegen.go of src/hw5_codegen: what it makes of a file of  *)
(* structures and functions.  A structure has a name, fields with their    *)
(* tags (see ApiParams; paramname is already the name) and whether all of  *)
(* its fields are tagged.  A function has a receiver ("" if it is none's), *)
(* a comment and the types of its parameters.  A line of the comment is    *)
(* NoJson if it has no brace, or a record of what its JSON mentions.       *)
(***************************************************************************)
EXTENDS ApiParams, FiniteSets

NoJson == << >>
Pointer == "*"         \* the type of a parameter that is neither T nor p.T

Panics == "panics"                \* and leaves a part of the file written
DoesNotCompile == "does not compile"

(* The lines of the comment one after the other into one apiJson: of what  *)
(* several mention the last one counts.                                    *)
NoApi == [url |-> "", auth |-> FALSE, method |-> ""]

Mentions(f, key) == {i \in DOMAIN f.doc : key \in DOMAIN f.doc[i]}

ApiOf(f) ==
  [key \in DOMAIN NoApi |->
     IF Mentions(f, key) = {} THEN NoApi[key]
     ELSE f.doc[Max(Mentions(f, key))][key]]

gmethods(file) == {f \in file.funcs : f.doc # <<>> /\ f.recv # ""}

gtype(file) == {s \in file.structs : s.fields # <<>> /\ s.tagged}

(* Faulty: the wrapper of a method that is restricted to POST asks for no  *)
(* authorisation.                                                          *)
Wrapper_PostOpen(file, f) ==
  LET api == ApiOf(f) IN
  [recv |-> f.recv, name |-> f.name, url |-> api.url,
   auth |-> api.auth /\ api.method = "",
   postOnly |-> api.method # "",
   fields |-> (CHOOSE s \in gtype(file) : s.name = f.params[2]).fields]

(* One wrapper; the structure of its parameters is that of the second one. *)
Wrapper(file, f) ==
  LET api == ApiOf(f) IN
  [recv |-> f.recv, name |-> f.name, url |-> api.url, auth |-> api.auth,
   postOnly |-> api.method # "",
   fields |-> (CHOOSE s \in gtype(file) : s.name = f.params[2]).fields]

HasEnum(f) == f.enum # {}

(* Taking the text from the first brace, the second parameter, its         *)
(* structure, and the default of an enum.                                  *)
ParsePanics(file) ==
  \E f \in file.funcs : \E i \in DOMAIN f.doc : f.doc[i] = NoJson

GenPanics(file) ==
  \E f \in gmethods(file) :
    \/ Len(f.params) < 2
    \/ ~\E s \in gtype(file) :
         /\ s.name = f.params[2] /\ s.name # Pointer
         /\ \A i \in DOMAIN s.fields :
              HasEnum(s.fields[i]) => s.fields[i].default # Empty

(* strconv is imported for the fields that are numbers; `_, ok :=' of an   *)
(* enum; texts given to apiParRequired and looked up in an enum.           *)
Compiles(wrappers) ==
  /\ \E w \in wrappers : \E i \in DOMAIN w.fields : w.fields[i].type = "int"
  /\ \A w \in wrappers :
       /\ \A i, j \in DOMAIN w.fields : i # j =>
            /\ w.fields[i].name # w.fields[j].name
            /\ ~(HasEnum(w.fields[i]) /\ HasEnum(w.fields[j]))
       /\ \A i \in DOMAIN w.fields :
            LET f == w.fields[i] IN
            f.type # "string" => f.type = "int" /\ ~f.required /\ ~HasEnum(f)

Generate(file) ==
  IF ParsePanics(file) \/ GenPanics(file) THEN Panics
  ELSE LET wrappers == {Wrapper(file, f) : f \in gmethods(file)}
       IN  IF Compiles(wrappers) THEN wrappers ELSE DoesNotCompile

-----------------------------------------------------------------------------
(* What the generated ServeHTTP and wrappers make of a request: they       *)
(* refuse it with a status and the field, or call the method.              *)

Refusal(status, what) == [status |-> status, what |-> what]
Call(method, in) == [status |-> 200, method |-> method, in |-> in]

(* Faulty: the default is not filled in.                                   *)
wrapper_NoDefault(w, q) ==
  IF w.auth /\ ~q.auth THEN Refusal(403, "unauthorized")
  ELSE IF Wrong(w.fields, q.form) # {}
  THEN Refusal(400, FirstOf(w.fields, Wrong(w.fields, q.form)))
  ELSE Call(w.name, [i \in DOMAIN w.fields |->
                       FormValue(q.form, w.fields[i].name).word])

wrapper(w, q) ==
  IF w.auth /\ ~q.auth THEN Refusal(403, "unauthorized")
  ELSE IF Wrong(w.fields, q.form) # {}
  THEN Refusal(400, FirstOf(w.fields, Wrong(w.fields, q.form)))
  ELSE Call(w.name, [i \in DOMAIN w.fields |->
                       Filled(w.fields[i], FormValue(q.form, w.fields[i].name))])

(* No two methods of a type have one url: the case that would be tried     *)
(* first depends on the order of a map.                                    *)
ServeGenerated(wrappers, q) ==
  LET case == {w \in wrappers : w.recv = q.api /\ w.url = q.path} IN
  IF case = {} THEN Refusal(404, "unknown method")
  ELSE LET w == CHOOSE w \in case : TRUE
       IN  IF w.postOnly /\ ~q.post THEN Refusal(406, "bad method")
           ELSE wrapper(w, q)

-----------------------------------------------------------------------------
(* What is generated for api.go.                                           *)

Struct(name, fields) == [name |-> name, fields |-> fields, tagged |-> TRUE]
Method(recv, name, doc, in) ==
  [recv |-> recv, name |-> name, doc |-> <<doc>>, params |-> <<"Context", in>>]

ApiGo ==
  [structs |->
     {Struct("ProfileParams", ProfileParams), Struct("CreateParams", CreateParams),
      Struct("OtherCreateParams", OtherCreateParams)}
     \cup {[name |-> n, fields |-> <<Str("ID", FALSE, NoBound)>>, tagged |-> FALSE] :
             n \in {"ApiError", "MyApi", "User", "NewUser", "OtherUser"}},
   funcs |->
     {Method("MyApi", "Profile", [url |-> "/user/profile", auth |-> FALSE],
             "ProfileParams"),
      Method("MyApi", "Create",
             [url |-> "/user/create", auth |-> TRUE, method |-> "POST"],
             "CreateParams"),
      Method("OtherApi", "Create",
             [url |-> "/user/create", auth |-> TRUE, method |-> "POST"],
             "OtherCreateParams")}
     \cup {[recv |-> "", name |-> "NewMyApi", doc |-> <<>>, params |-> <<>>]}]
=============================================================================
