-------------------------- MODULE StatisticsProofs --------------------------
(***************************************************************************)
(* Accounting and TornOneWay of Statistics, for any methods, consumers,    *)
(* intervals and number of events.                                         *)
(***************************************************************************)
EXTENDS Statistics, FiniteSetTheorems, TLAPS

CounterTypes ==
  /\ count \in [Key -> Nat]
  /\ unread \in SUBSET Key
  /\ message \in [Key -> Nat]
  /\ events \in [Key -> Nat]
  /\ missed \in [Key -> Nat]
  /\ reported \in [Key -> Nat]

(* by_method is read to its end before by_consumer, and both before Reset. *)
ReadInOrder ==
  /\ pc = "consumers" => unread \cap MethodName = {}
  /\ pc = "transport" => unread = {}

(* What Reset will throw away is a counter that has been read: its value   *)
(* is in the message, and what came later has been missed.                 *)
Accounted ==
  \A k \in Key :
    /\ Read(k) => reported[k] + message[k] + missed[k] = events[k]
    /\ ~Read(k) /\ pc # "done"
         => reported[k] + count[k] + missed[k] = events[k]

CountInv == CounterTypes /\ ReadInOrder /\ Accounted

(* CountInv is inductive.                                                  *)
LEMMA CountInvInvariant == Spec => []CountInv
<1>1. Init => CountInv
  BY DEF Init, CountInv, CounterTypes, ReadInOrder, Accounted, Read, Zero
<1>2. CountInv /\ [Next]_vars => CountInv'
  <2> SUFFICES ASSUME CountInv, [Next]_vars
               PROVE  CountInv'
    OBVIOUS
  <2> USE DEF CountInv, CounterTypes, ReadInOrder, Accounted, Read
  <2>1. ASSUME NEW m \in MethodName, NEW c \in Consumer, Set(m, c)
        PROVE  CountInv'
    <3>1. m # c /\ m \in Key /\ c \in Key
      BY StatisticsAssumption DEF Key
    <3>2. /\ count' = Count(count, m, c)
          /\ events' = Count(events, m, c)
          /\ UNCHANGED <<pc, unread, message, reported>>
      BY <2>1 DEF Set
    <3>3. missed' = [k \in Key |-> IF k \in {m, c} /\ Read(k)
                                  THEN missed[k] + 1 ELSE missed[k]]
      BY <2>1 DEF Set
    <3>4. count' \in [Key -> Nat]
      BY <3>1, <3>2 DEF Count
    <3>5. events' \in [Key -> Nat]
      BY <3>1, <3>2 DEF Count
    <3>6. missed' \in [Key -> Nat]
      BY <3>3
    <3>7. \A k \in Key :
            IF k \in {m, c}
            THEN count'[k] = count[k] + 1 /\ events'[k] = events[k] + 1
            ELSE count'[k] = count[k] /\ events'[k] = events[k]
      BY <3>1, <3>2 DEF Count
    <3>8. \A k \in Key : missed'[k] = IF k \in {m, c} /\ Read(k)
                                     THEN missed[k] + 1 ELSE missed[k]
      BY <3>3
    <3>9. Accounted'
      <4> SUFFICES ASSUME NEW k \in Key
                   PROVE  /\ Read(k) => reported[k] + message[k] + missed'[k]
                                           = events'[k]
                          /\ ~Read(k) /\ pc # "done"
                               => reported[k] + count'[k] + missed'[k]
                                    = events'[k]
        BY <3>2
      <4>1. {reported[k], message[k], missed[k], events[k], count[k]}
              \subseteq Nat
        OBVIOUS
      <4>2. CASE k \in {m, c}
        BY <3>7, <3>8, <4>1, <4>2
      <4>3. CASE k \notin {m, c}
        BY <3>7, <3>8, <4>1, <4>3
      <4> QED
        BY <4>2, <4>3
    <3> QED
      BY <3>2, <3>4, <3>5, <3>6, <3>9
  <2>2. CASE Disconnect
    BY <2>2 DEF Disconnect
  <2>3. CASE ExitCollector
    BY <2>3 DEF ExitCollector
  <2>4. CASE NewTicker
    BY <2>4 DEF NewTicker
  <2>5. CASE Tick
    BY <2>5 DEF Tick, Zero
  <2>6. ASSUME NEW k \in Key, Marshal(k)
        PROVE  CountInv'
    BY <2>6 DEF Marshal
  <2>7. CASE EndOfMap
    BY <2>7 DEF EndOfMap
  <2>8. CASE SendAndReset
    BY <2>8 DEF SendAndReset, Zero
  <2>9. CASE SendFails
    BY <2>9 DEF SendFails
  <2>10. CASE Return
    BY <2>10 DEF Return
  <2>11. CASE UNCHANGED vars
    BY <2>11 DEF vars
  <2> QED
    BY <2>1, <2>2, <2>3, <2>4, <2>5, <2>6, <2>7, <2>8, <2>9, <2>10, <2>11
       DEF Next, Send
<1> QED
  BY <1>1, <1>2, PTL DEF Spec

(* statStorage, Statistics: between two reports every event delivered is   *)
(* in a message, in the maps, or came after its counter had been read for  *)
(* a report that was under way.                                            *)
THEOREM AccountingCorrect == Spec => []Accounting
<1>1. CountInv => Accounting
  BY DEF CountInv, Accounted, Accounting, Read
<1> QED
  BY <1>1, CountInvInvariant, PTL

-----------------------------------------------------------------------------
(* Sums of counters.                                                       *)

LEMMA UnitsAreFinite ==
  ASSUME NEW keys, IsFiniteSet(keys), NEW c, \A k \in keys : c[k] \in Nat
  PROVE  IsFiniteSet(Units(c, keys)) /\ Total(c, keys) \in Nat
<1> DEFINE Parts == {{k} \X (1..c[k]) : k \in keys}
           f == [k \in keys |-> {k} \X (1..c[k])]
<1>1. f \in Surjection(keys, Parts)
  BY DEF Surjection
<1>2. IsFiniteSet(Parts)
  BY <1>1, FS_Surjection
<1>3. \A k \in keys : IsFiniteSet({k} \X (1..c[k]))
  <2> SUFFICES ASSUME NEW k \in keys
               PROVE  IsFiniteSet({k} \X (1..c[k]))
    OBVIOUS
  <2>1. c[k] \in Int
    OBVIOUS
  <2>2. IsFiniteSet({k})
    BY FS_Singleton
  <2>3. IsFiniteSet(1..c[k])
    BY <2>1, FS_Interval
  <2> QED
    BY <2>2, <2>3, FS_Product
<1>4. \A P \in Parts : IsFiniteSet(P)
  BY <1>3
<1>5. IsFiniteSet(UNION Parts)
  BY <1>2, <1>4, FS_UNION
<1>6. IsFiniteSet(Units(c, keys))
  BY <1>5 DEF Units
<1> QED
  BY <1>6, FS_CardinalityType DEF Total

LEMMA UnitIn ==
  ASSUME NEW keys, NEW c, NEW u
  PROVE  u \in Units(c, keys)
           <=> \E k \in keys : \E i \in 1..c[k] : u = <<k, i>>
BY DEF Units

(* A sum does not shrink when its counters do not.                         *)
LEMMA TotalGrows ==
  ASSUME NEW keys, IsFiniteSet(keys), NEW c, NEW d,
         \A k \in keys : c[k] \in Nat /\ d[k] \in Nat /\ c[k] <= d[k]
  PROVE  Total(c, keys) <= Total(d, keys)
<1>1. \A k \in keys : 1..c[k] \subseteq 1..d[k]
  OBVIOUS
<1>2. Units(c, keys) \subseteq Units(d, keys)
  BY <1>1, UnitIn
<1> QED
  BY <1>2, UnitsAreFinite, FS_Subset DEF Total

(* One event more in one counter is one more in the sum.                   *)
LEMMA TotalCounts ==
  ASSUME NEW keys, IsFiniteSet(keys), NEW c, NEW d, NEW k \in keys,
         \A j \in keys : c[j] \in Nat,
         d[k] = c[k] + 1, \A j \in keys : j # k => d[j] = c[j]
  PROVE  Total(d, keys) = Total(c, keys) + 1
<1> DEFINE new == <<k, c[k] + 1>>
<1>0. c[k] \in Nat /\ 1..d[k] = 1..c[k] \cup {c[k] + 1}
  OBVIOUS
<1>1. new \notin Units(c, keys)
  BY <1>0, UnitIn
<1>2. Units(d, keys) = Units(c, keys) \cup {new}
  <2>1. ASSUME NEW u \in Units(d, keys)
        PROVE  u \in Units(c, keys) \cup {new}
    <3>1. PICK j \in keys : \E i \in 1..d[j] : u = <<j, i>>
      BY <2>1, UnitIn
    <3>2. CASE j = k
      BY <1>0, <3>1, <3>2, UnitIn
    <3>3. CASE j # k
      BY <3>1, <3>3, UnitIn
    <3> QED
      BY <3>2, <3>3
  <2>2. ASSUME NEW u \in Units(c, keys)
        PROVE  u \in Units(d, keys)
    <3>1. PICK j \in keys : \E i \in 1..c[j] : u = <<j, i>>
      BY <2>2, UnitIn
    <3>2. CASE j = k
      BY <1>0, <3>1, <3>2, UnitIn
    <3>3. CASE j # k
      BY <3>1, <3>3, UnitIn
    <3> QED
      BY <3>2, <3>3
  <2>3. new \in Units(d, keys)
    BY <1>0, UnitIn
  <2> QED
    BY <2>1, <2>2, <2>3
<1> HIDE DEF new
<1>3. IsFiniteSet(Units(c, keys))
  BY UnitsAreFinite
<1> QED
  BY <1>1, <1>2, <1>3, FS_AddElement DEF Total

-----------------------------------------------------------------------------
(* The maps agree on how many events they count.  What was read of         *)
(* by_method is no more than is there until by_consumer is begun, and from *)
(* then on no more than will have been read of it.                         *)
ToBeRead == [k \in Key |-> IF k \in unread THEN count[k] ELSE message[k]]

Tearing ==
  /\ Total(count, MethodName) = Total(count, Consumer)
  /\ pc = "methods" =>
       /\ Consumer \subseteq unread
       /\ \A k \in MethodName : message[k] <= count[k]
  /\ pc = "consumers" =>
       Total(message, MethodName) <= Total(ToBeRead, Consumer)
  /\ pc = "transport" => Total(message, MethodName) <= Total(message, Consumer)

LEMMA TotalsAreNat ==
  ASSUME CountInv
  PROVE  /\ Total(count, MethodName) \in Nat /\ Total(count, Consumer) \in Nat
         /\ Total(message, MethodName) \in Nat
         /\ Total(message, Consumer) \in Nat
         /\ Total(ToBeRead, Consumer) \in Nat
<1>1. /\ \A k \in MethodName : count[k] \in Nat /\ message[k] \in Nat
      /\ \A k \in Consumer :
           count[k] \in Nat /\ message[k] \in Nat /\ ToBeRead[k] \in Nat
  BY DEF CountInv, CounterTypes, Key, ToBeRead
<1> QED
  BY <1>1, UnitsAreFinite, StatisticsAssumption

LEMMA TearingInvariant == Spec => []Tearing
<1> USE StatisticsAssumption
<1>1. Init => Tearing
  <2> SUFFICES ASSUME Init PROVE Tearing
    OBVIOUS
  <2>1. Units(Zero, MethodName) = {} /\ Units(Zero, Consumer) = {}
    BY UnitIn DEF Zero, Key
  <2>2. pc = "start" /\ count = Zero
    BY DEF Init
  <2> QED
    BY <2>1, <2>2 DEF Tearing, Total
<1>2. CountInv /\ CountInv' /\ Tearing /\ [Next]_vars => Tearing'
  <2> SUFFICES ASSUME CountInv, CountInv', Tearing, [Next]_vars
               PROVE  Tearing'
    OBVIOUS
  <2>0. /\ count \in [Key -> Nat] /\ message \in [Key -> Nat]
        /\ MethodName \subseteq Key /\ Consumer \subseteq Key
        /\ pc = "consumers" => unread \cap MethodName = {}
        /\ pc = "transport" => unread = {}
    BY DEF CountInv, CounterTypes, ReadInOrder, Key
  <2>00. /\ count' \in [Key -> Nat] /\ message' \in [Key -> Nat]
         /\ \A k \in Key : ToBeRead[k] \in Nat /\ ToBeRead'[k] \in Nat
    BY <2>0 DEF CountInv, CounterTypes, ToBeRead
  <2>1. ASSUME NEW m \in MethodName, NEW c \in Consumer, Set(m, c)
        PROVE  Tearing'
    <3>1. /\ m \in Key /\ c \in Key /\ m # c
          /\ m \notin Consumer /\ c \notin MethodName
      BY <2>0
    <3>2. /\ count' = Count(count, m, c)
          /\ UNCHANGED <<pc, unread, message>>
      BY <2>1 DEF Set
    <3>3. \A k \in Key : count'[k] = IF k \in {m, c} THEN count[k] + 1
                                                    ELSE count[k]
      BY <2>0, <3>1, <3>2 DEF Count
    <3>4. Total(count', MethodName) = Total(count, MethodName) + 1
      BY <2>0, <3>1, <3>3, TotalCounts
    <3>5. Total(count', Consumer) = Total(count, Consumer) + 1
      BY <2>0, <3>1, <3>3, TotalCounts
    <3>6. Total(count', MethodName) = Total(count', Consumer)
      BY <3>4, <3>5 DEF Tearing
    <3>7. pc = "methods" => /\ Consumer \subseteq unread
                            /\ \A k \in MethodName : message[k] <= count'[k]
      BY <2>0, <3>3 DEF Tearing
    <3>8. pc = "consumers"
            => Total(message, MethodName) <= Total(ToBeRead', Consumer)
      <4>1. \A k \in Key : ToBeRead[k] <= ToBeRead'[k]
        BY <2>0, <3>2, <3>3 DEF ToBeRead
      <4>2. Total(ToBeRead, Consumer) <= Total(ToBeRead', Consumer)
        BY <2>0, <2>00, <4>1, TotalGrows
      <4>3. Total(ToBeRead', Consumer) \in Nat
        BY <2>0, <2>00, UnitsAreFinite
      <4> QED
        BY <4>2, <4>3, TotalsAreNat DEF Tearing
    <3> QED
      BY <3>2, <3>6, <3>7, <3>8 DEF Tearing
  <2>2. CASE Disconnect \/ ExitCollector
    BY <2>2 DEF Disconnect, ExitCollector, Tearing, ToBeRead
  <2>3. CASE NewTicker
    BY <2>3 DEF NewTicker, Tearing
  <2>4. CASE Tick
    BY <2>0, <2>4 DEF Tick, Tearing, Zero
  <2>5. ASSUME NEW k \in Key, Marshal(k)
        PROVE  Tearing'
    <3>1. /\ k \in unread
          /\ message' = [message EXCEPT ![k] = count[k]]
          /\ unread' = unread \ {k}
          /\ UNCHANGED <<pc, count>>
      BY <2>5 DEF Marshal
    <3>2. CASE pc = "methods"
      <4>1. k \in MethodName
        BY <2>5, <3>2 DEF Marshal
      <4>2. k \notin Consumer
        BY <4>1
      <4> QED
        BY <2>0, <3>1, <3>2, <4>2 DEF Tearing
    <3>3. CASE pc = "consumers"
      <4>1. k \in Consumer /\ k \notin MethodName
        BY <2>0, <2>5, <3>3 DEF Marshal
      <4>2. ToBeRead' = ToBeRead
        BY <2>0, <3>1 DEF ToBeRead
      <4>3. \A j \in MethodName : message'[j] = message[j]
        BY <2>0, <3>1, <4>1
      <4>4. Total(message', MethodName) <= Total(message, MethodName)
        BY <2>0, <2>00, <4>3, TotalGrows
      <4>5. Total(message', MethodName) \in Nat
        BY <2>0, <2>00, UnitsAreFinite
      <4>6. Total(message', MethodName) <= Total(ToBeRead', Consumer)
        BY <3>3, <4>2, <4>4, <4>5, TotalsAreNat DEF Tearing
      <4> QED
        BY <3>1, <3>3, <4>6 DEF Tearing
    <3> QED
      BY <2>5, <3>2, <3>3 DEF Marshal
  <2>6. CASE EndOfMap
    <3>1. UNCHANGED <<count, message, unread>>
      BY <2>6 DEF EndOfMap
    <3>2. CASE pc = "methods" /\ pc' = "consumers"
      <4>1. Total(message, MethodName) <= Total(count, MethodName)
        BY <2>0, <3>2, TotalGrows DEF Tearing
      <4>2. \A k \in Consumer : count[k] <= ToBeRead'[k]
        BY <2>0, <3>1, <3>2 DEF ToBeRead, Tearing
      <4>3. Total(count, Consumer) <= Total(ToBeRead', Consumer)
        BY <2>0, <2>00, <4>2, TotalGrows
      <4>4. Total(ToBeRead', Consumer) \in Nat
        BY <2>0, <2>00, UnitsAreFinite
      <4>5. Total(message, MethodName) <= Total(ToBeRead', Consumer)
        BY <4>1, <4>3, <4>4, TotalsAreNat DEF Tearing
      <4> QED
        BY <3>1, <3>2, <4>5 DEF Tearing
    <3>3. CASE pc = "consumers" /\ unread = {} /\ pc' = "transport"
      <4>1. \A k \in Consumer : ToBeRead[k] <= message[k]
        BY <2>0, <3>3 DEF ToBeRead
      <4>2. Total(ToBeRead, Consumer) <= Total(message, Consumer)
        BY <2>0, <2>00, <4>1, TotalGrows
      <4>3. Total(message, MethodName) <= Total(message, Consumer)
        BY <3>3, <4>2, TotalsAreNat DEF Tearing
      <4> QED
        BY <3>1, <3>3, <4>3 DEF Tearing
    <3> QED
      BY <2>6, <3>2, <3>3 DEF EndOfMap
  <2>7. CASE SendAndReset
    <3>1. Units(Zero, MethodName) = {} /\ Units(Zero, Consumer) = {}
      BY UnitIn DEF Zero, Key
    <3>2. pc' = "wait" /\ count' = Zero
      BY <2>7 DEF SendAndReset
    <3> QED
      BY <3>1, <3>2 DEF Tearing, Total
  <2>8. CASE SendFails \/ Return
    BY <2>8 DEF SendFails, Return, Tearing
  <2>9. CASE UNCHANGED vars
    BY <2>9 DEF vars, Tearing, ToBeRead
  <2> QED
    BY <2>1, <2>2, <2>3, <2>4, <2>5, <2>6, <2>7, <2>8, <2>9 DEF Next, Send
<1> QED
  BY <1>1, <1>2, CountInvInvariant, PTL DEF Spec

(* Statistics: whatever events come while the maps are marshalled, a       *)
(* message counts by consumer at least what it counts by method.           *)
THEOREM TornOneWayCorrect == Spec => []TornOneWay
<1>1. Tearing => TornOneWay
  BY DEF Tearing, TornOneWay
<1> QED
  BY <1>1, TearingInvariant, PTL
=============================================================================
