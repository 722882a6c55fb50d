------------------------------ MODULE Recursion -----------------------------
(***************************************************************************)
(* What f[x \in Dom] == Body(f, x) defines.  TLA+ only chooses some f that *)
(* satisfies the equation if there is one; there is one, and one only, if  *)
(* every value depends on values of a smaller rank.  The definitions of    *)
(* I2S are such: a walk asks for walks of parts of its data.               *)
(***************************************************************************)
EXTENDS Integers, WellFoundedInduction, TLAPS

CONSTANTS
  Dom,         \* where f is defined
  rank,        \* of each of its arguments, a number
  Body(_, _)   \* f[x], of f and x

Ranked == rank \in [Dom -> Nat]

Agree(f, g, n) == \A y \in Dom : rank[y] < n => f[y] = g[y]

(* Body asks f for values of a smaller rank only.                          *)
LooksDown == \A f, g : \A x \in Dom : Agree(f, g, rank[x]) => Body(f, x) = Body(g, x)

(* f satisfies the equation below a rank.                                  *)
Below(f, n) == \A x \in Dom : rank[x] < n => f[x] = Body(f, x)

(* A set of numbers that is not empty has a least one.                     *)
LEMMA LeastNumber ==
  ASSUME NEW S \in SUBSET Nat, S # {}
  PROVE  \E i \in S : \A j \in S : i <= j
  <1> DEFINE less == OpToRel(<, Nat)
  <1>1. IsWellFoundedOn(less, Nat)
    BY NatLessThanWellFounded
  <1>2. \A i, j \in Nat : i < j => <<i, j>> \in less
    BY DEF OpToRel
  <1> HIDE DEF less
  <1>3. \E i \in S : \A j \in S : <<j, i>> \notin less
    BY <1>1, WFMin
  <1>4. PICK i \in S : \A j \in S : <<j, i>> \notin less
    BY <1>3
  <1>5. \A j \in S : ~(j < i)
    BY <1>2, <1>4
  <1>6. \A j \in S : i <= j
    <2> SUFFICES ASSUME NEW j \in S PROVE i <= j
      OBVIOUS
    <2> QED BY <1>5
  <1> QED BY <1>6

(* So has a set of arguments: what does not hold of all of them fails      *)
(* first where it holds of everything smaller.                             *)
LEMMA LeastRank ==
  ASSUME Ranked, NEW S \in SUBSET Dom, S # {}
  PROVE  \E x \in S : \A y \in Dom : rank[y] < rank[x] => y \notin S
  <1> DEFINE N == {rank[x] : x \in S}
  <1>1. N \in SUBSET Nat /\ N # {}
    BY DEF Ranked
  <1>2. PICK n \in N : \A m \in N : n <= m
    <2> HIDE DEF N
    <2> QED BY <1>1, LeastNumber
  <1>3. PICK x \in S : rank[x] = n
    BY <1>2
  <1>4. ASSUME NEW y \in Dom, rank[y] < rank[x], y \in S
        PROVE  FALSE
    <2>1. n <= rank[y]
      BY <1>2, <1>4
    <2>2. rank[y] \in Nat /\ rank[x] \in Nat
      BY DEF Ranked
    <2> QED BY <1>3, <1>4, <2>1, <2>2
  <1> QED BY <1>4

(* Two functions that satisfy the equation below a rank agree there.       *)
LEMMA Unique ==
  ASSUME Ranked, LooksDown, NEW f, NEW g, NEW n \in Nat,
         Below(f, n), Below(g, n)
  PROVE  Agree(f, g, n)
  <1> DEFINE Differ == {x \in Dom : rank[x] < n /\ f[x] # g[x]}
  <1>1. Differ = {}
    <2> SUFFICES ASSUME Differ # {} PROVE FALSE
      OBVIOUS
    <2>1. PICK x \in Differ : \A y \in Dom : rank[y] < rank[x] => y \notin Differ
      <3>1. Differ \in SUBSET Dom
        OBVIOUS
      <3> HIDE DEF Differ
      <3> QED BY <3>1, LeastRank
    <2>2. x \in Dom /\ rank[x] < n /\ f[x] # g[x]
      BY <2>1
    <2>3. Agree(f, g, rank[x])
      <3> SUFFICES ASSUME NEW y \in Dom, rank[y] < rank[x] PROVE f[y] = g[y]
        BY DEF Agree
      <3>1. rank[y] \in Nat /\ rank[x] \in Nat
        BY <2>2 DEF Ranked
      <3>2. rank[y] < n
        BY <2>2, <3>1
      <3> QED BY <2>1, <3>2
    <2>4. f[x] = Body(f, x) /\ g[x] = Body(g, x)
      BY <2>2 DEF Below
    <2> QED BY <2>2, <2>3, <2>4 DEF LooksDown
  <1> QED BY <1>1 DEF Agree

(* There is one below every rank.                                          *)
LEMMA BelowExists ==
  ASSUME Ranked, LooksDown
  PROVE  \A n \in Nat : \E f : Below(f, n)
  <1> DEFINE None == {n \in Nat : \A f : ~Below(f, n)}
  <1>1. None = {}
    <2> SUFFICES ASSUME None # {} PROVE FALSE
      OBVIOUS
    <2>1. PICK n \in None : \A m \in None : n <= m
      <3>1. None \in SUBSET Nat
        OBVIOUS
      <3> HIDE DEF None
      <3> QED BY <3>1, LeastNumber
    <2>2. n \in Nat /\ \A f : ~Below(f, n)
      BY <2>1
    <2>3. n # 0
      <3>1. \A x \in Dom : rank[x] \in Nat /\ ~(rank[x] < 0)
        BY DEF Ranked
      <3>2. \A f : Below(f, 0)
        BY <3>1 DEF Below
      <3> QED BY <2>2, <3>2
    <2>4. n - 1 \in Nat /\ ~(n <= n - 1)
      BY <2>2, <2>3
    <2>5. n - 1 \notin None
      BY <2>1, <2>4
    <2>6. PICK f : Below(f, n - 1)
      BY <2>4, <2>5
    <2> DEFINE g == [x \in Dom |-> Body(f, x)]
    <2>7. Below(g, n)
      <3> SUFFICES ASSUME NEW x \in Dom, rank[x] < n PROVE g[x] = Body(g, x)
        BY Zenon DEF Below
      <3>1. Agree(f, g, rank[x])
        <4> SUFFICES ASSUME NEW y \in Dom, rank[y] < rank[x] PROVE f[y] = g[y]
          BY Zenon DEF Agree
        <4>1. rank[y] \in Nat /\ rank[x] \in Nat
          BY DEF Ranked
        <4>2. rank[y] < n - 1
          BY <2>2, <4>1
        <4>3. f[y] = Body(f, y)
          BY <2>6, <4>2 DEF Below
        <4> QED BY <4>3
      <3>2. g[x] = Body(f, x)
        OBVIOUS
      <3> HIDE DEF g
      <3> QED BY <3>1, <3>2 DEF LooksDown
    <2> QED BY <2>2, <2>7
  <1> QED BY <1>1

(* The equation has a solution.                                            *)
THEOREM Exists ==
  ASSUME Ranked, LooksDown
  PROVE  \E f : f = [x \in Dom |-> Body(f, x)]
  <1> DEFINE F(n) == CHOOSE f : Below(f, n)
             f == [x \in Dom |-> F(rank[x] + 1)[x]]
  <1>1. \A x \in Dom : rank[x] \in Nat /\ rank[x] + 1 \in Nat /\ rank[x] < rank[x] + 1
    BY DEF Ranked
  <1>2. \A n \in Nat : Below(F(n), n)
    BY BelowExists, Zenon
  <1>3. ASSUME NEW x \in Dom
        PROVE  f[x] = Body(f, x)
    <2> DEFINE g == F(rank[x] + 1)
    <2>1. f[x] = g[x] /\ g[x] = Body(g, x)
      <3>1. f[x] = g[x]
        OBVIOUS
      <3>2. Below(g, rank[x] + 1)
        BY <1>1, <1>2, Zenon
      <3> HIDE DEF f, g
      <3> QED BY <1>1, <3>1, <3>2 DEF Below
    <2>2. Agree(g, f, rank[x])
      <3> SUFFICES ASSUME NEW y \in Dom, rank[y] < rank[x] PROVE g[y] = f[y]
        BY Zenon DEF Agree
      <3> DEFINE h == F(rank[y] + 1)
      <3>1. Below(g, rank[x] + 1) /\ Below(h, rank[y] + 1)
        BY <1>1, <1>2, Zenon
      <3>2. f[y] = h[y]
        OBVIOUS
      <3> HIDE DEF f, g, h, F
      <3>3. Below(g, rank[y] + 1)
        <4> SUFFICES ASSUME NEW z \in Dom, rank[z] < rank[y] + 1
                     PROVE  g[z] = Body(g, z)
          BY Zenon DEF Below
        <4>1. rank[z] < rank[x] + 1
          <5>1. rank[z] \in Nat /\ rank[y] \in Nat /\ rank[x] \in Nat
            BY <1>1
          <5> QED BY <5>1
        <4> QED BY <3>1, <4>1 DEF Below
      <3>4. Agree(g, h, rank[y] + 1)
        BY <1>1, <3>1, <3>3, Unique
      <3>5. g[y] = h[y]
        BY <1>1, <3>4 DEF Agree
      <3> QED BY <3>2, <3>5
    <2> HIDE DEF f, g
    <2> QED BY <2>1, <2>2 DEF LooksDown
  <1>4. f = [x \in Dom |-> Body(f, x)]
    <2>1. f = [x \in Dom |-> f[x]]
      OBVIOUS
    <2> HIDE DEF f
    <2> QED BY <1>3, <2>1
  <1> QED BY <1>4, Zenon
=============================================================================
