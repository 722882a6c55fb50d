----------------------------- MODULE MCUserApi ------------------------------
(***************************************************************************)
(* Forms on both sides of every bound of the tags of api.go, and small     *)
(* structures with every combination of tags.                              *)
(***************************************************************************)
EXTENDS Generator

CONSTANT Tester  \* the request that tries every form

Name(word, len) == Txt(word, len, NotInt)
Number(word, n) == Txt(word, 2, n)

Form(login, status, age) == [login |-> login, status |-> status, age |-> age]

Moderator == Name("mr.moderator", 12)

Logins ==
  {Form(l, Empty, Number("32", 32)) :
     l \in {Empty, Name("new_m", 5), Name("moderator1", 10),
            Name("bad_username", 12), Name("bad_user", 8),
            Name("rvasily", 7)}}

Forms ==
  Logins
  \cup
  {Form(Moderator, s, Number("32", 32)) :
     s \in {Empty, Name("admin", 5), Name("adm", 3)}}
  \cup
  {Form(Moderator, Empty, a) :
     a \in {Empty, Number("-1", -1), Number("0", 0), Number("128", 128),
            Number("129", 129)}}

OtherForms ==
  {[username |-> u, class |-> Name("warrior", 7), level |-> n] :
     u \in {Empty, Name("I3", 2), Name("I31", 3)},
     n \in {Number("0", 0), Number("1", 1), Number("51", 51)}}

(* Every form as a POST to create, every login as a GET to profile; with a *)
(* valid and an empty form also wrong methods and no authorisation; paths  *)
(* the API does not have.                                                  *)
AllQueries ==
  {Query("MyApi", "/user/create", TRUE, TRUE, f) : f \in Forms}
  \cup {Query("MyApi", "/user/profile", FALSE, FALSE, f) : f \in Logins}
  \cup {Query("OtherApi", "/user/create", TRUE, TRUE, f) : f \in OtherForms}
  \cup {Query(a, p, post, auth, f) :
           a \in {"MyApi", "OtherApi"}, p \in {"/user/create", "/user/profile"},
           post \in BOOLEAN, auth \in BOOLEAN,
           f \in {Form(Moderator, Empty, Number("32", 32)),
                  Form(Empty, Empty, Empty)}}
  \cup {Query(a, "/user/unknown", TRUE, TRUE, Form(Empty, Empty, Empty)) :
           a \in {"MyApi", "OtherApi"}}

(* The others create or look up one of two users.                          *)
MCQueries ==
  [r \in Request |->
     IF r = Tester THEN AllQueries
     ELSE {Query("MyApi", "/user/create", TRUE, TRUE,
                 Form(l, Empty, Number("32", 32))) :
             l \in {Moderator, Name("moderator1", 10)}}
          \cup {Query("MyApi", "/user/profile", FALSE, FALSE,
                      Form(Moderator, Empty, Empty))}]

-----------------------------------------------------------------------------
(* Structures of one field and of two, the second a number or an enum, or  *)
(* another field of the first one's name.                                  *)

Bounds == {NoBound, 2}
Enums == {{}, {"a", "bb"}}

Fields ==
  {[Str("f", r, min) EXCEPT !.enum = e, !.default = d] :
     r \in BOOLEAN, min \in Bounds \cup {0}, e \in Enums,
     d \in {Empty, Name("a", 1), Name("bb", 2), Name("ccc", 3)}}
  \cup
  {[Num("f", min, max) EXCEPT !.required = r, !.enum = e, !.default = d] :
     r \in BOOLEAN, min \in Bounds, max \in Bounds, e \in Enums,
     d \in {Empty, Number("1", 1), Number("2", 2)}}

MCStructs ==
  {<<f>> : f \in Fields}
  \cup {<<f, g>> : f \in Fields,
                   g \in {Num("n", 1, 3), Num("f", 1, 3),
                          Enum("e", {"a"}, Name("a", 1))}}

Texts ==
  {Empty, Name("a", 1), Name("bb", 2), Name("ccc", 3)}
  \cup {Number(n, i) : <<n, i>> \in {<<"1", 1>>, <<"2", 2>>, <<"3", 3>>}}

MCTestForms == [{"f", "n"} -> Texts]

=============================================================================
