------------------------ MODULE MicroserviceProofs ------------------------
(***************************************************************************)
(* First, what the event bus guarantees for any number of events and       *)
(* subscribers: the safety properties of Publisher and that it implements  *)
(* EventFeed.  They follow from one inductive invariant, IInv.             *)
(*                                                                         *)
(* Then what the hw7 service guarantees for any set of calls and any       *)
(* access list: it acts on authorised calls only, it panics in a few named *)
(* places only, and its bus waits for nobody but handlers that receive and *)
(* clients that have left.                                                 *)
(***************************************************************************)
EXTENDS Microservice, SequenceTheorems, TLAPS

-----------------------------------------------------------------------------
(* Sequences: taking the element at one position out.                      *)

LEMMA RemoveAtFacts ==
  ASSUME NEW S, NEW q \in Seq(S), NEW k \in 1..Len(q)
  PROVE  /\ RemoveAt(q, k) \in Seq(S)
         /\ Len(RemoveAt(q, k)) = Len(q) - 1
         /\ \A i \in 1..(Len(q) - 1) :
              RemoveAt(q, k)[i] = q[IF i < k THEN i ELSE i + 1]
<1> DEFINE a == SubSeq(q, 1, k - 1)
           b == SubSeq(q, k + 1, Len(q))
<1>1. a \in Seq(S) /\ Len(a) = k - 1 /\ \A i \in 1..(k - 1) : a[i] = q[i]
  OBVIOUS
<1>2. /\ b \in Seq(S) /\ Len(b) = Len(q) - k
      /\ \A i \in 1..(Len(q) - k) : b[i] = q[k + i]
  OBVIOUS
<1>3. RemoveAt(q, k) = a \o b
  BY DEF RemoveAt
<1> HIDE DEF a, b
<1>4. /\ a \o b \in Seq(S)
      /\ Len(a \o b) = Len(a) + Len(b)
      /\ \A i \in 1..(Len(a) + Len(b)) :
           (a \o b)[i] = IF i <= Len(a) THEN a[i] ELSE b[i - Len(a)]
  <2>1. a \in Seq(S) /\ b \in Seq(S)
    BY <1>1, <1>2
  <2>2. QED BY <2>1, ConcatProperties
<1>5. Len(a) = k - 1 /\ Len(a) + Len(b) = Len(q) - 1
  BY <1>1, <1>2
<1>6. ASSUME NEW i \in 1..(Len(q) - 1)
      PROVE  (a \o b)[i] = q[IF i < k THEN i ELSE i + 1]
  <2>1. CASE i < k
    BY <2>1, <1>1, <1>4, <1>5
  <2>2. CASE ~(i < k)
    <3>1. /\ i \in 1..(Len(a) + Len(b)) /\ ~(i <= Len(a))
          /\ i - Len(a) = i - (k - 1)
      BY <2>2, <1>5
    <3>0. (a \o b)[i] = b[i - (k - 1)] /\ i - (k - 1) \in 1..(Len(q) - k)
      BY <3>1, <2>2, <1>4
    <3>2. b[i - (k - 1)] = q[k + (i - (k - 1))]
      BY <3>0, <1>2
    <3>3. k + (i - (k - 1)) = i + 1
      OBVIOUS
    <3>4. QED BY <2>2, <3>0, <3>2, <3>3
  <2>3. QED BY <2>1, <2>2
<1>7. QED
  BY <1>3, <1>4, <1>5, <1>6

(* A sequence without repetitions.                                         *)
Injective(q) == \A i, j \in DOMAIN q : i # j => q[i] # q[j]

(* Removing a subscriber from a list without repetitions leaves the others *)
(* and their order.                                                        *)
LEMMA RemoveFirstFacts ==
  ASSUME NEW S, NEW q \in Seq(S), NEW e, Injective(q)
  PROVE  /\ RemoveFirst(q, e) \in Seq(S)
         /\ Injective(RemoveFirst(q, e))
         /\ ToSet(RemoveFirst(q, e)) \subseteq ToSet(q) \ {e}
<1>1. CASE ~\E i \in 1..Len(q) : q[i] = e
  <2>1. RemoveFirst(q, e) = q
    BY <1>1 DEF RemoveFirst
  <2>2. e \notin ToSet(q)
    BY <1>1 DEF ToSet
  <2>3. QED BY <2>1, <2>2
<1>2. CASE \E i \in 1..Len(q) : q[i] = e
  <2>1. PICK k \in 1..Len(q) : q[k] = e
    BY <1>2
  <2>2. {i \in 1..Len(q) : q[i] = e} = {k}
    BY <2>1 DEF Injective
  <2>3. SelectInSeq(q, LAMBDA v : v = e) = k
    BY <2>2 DEF SelectInSeq, Min
  <2>4. RemoveFirst(q, e) = RemoveAt(q, k)
    BY <1>2, <2>3 DEF RemoveFirst
  <2> DEFINE r == RemoveAt(q, k)
  <2>5. /\ r \in Seq(S) /\ Len(r) = Len(q) - 1
        /\ \A i \in 1..(Len(q) - 1) : r[i] = q[IF i < k THEN i ELSE i + 1]
    BY <2>1, RemoveAtFacts
  <2> HIDE DEF r
  <2>6. Injective(r)
    <3> SUFFICES ASSUME NEW i \in 1..Len(r), NEW j \in 1..Len(r), i # j
                 PROVE  r[i] # r[j]
      BY <2>5 DEF Injective
    <3> DEFINE from_(n) == IF n < k THEN n ELSE n + 1
    <3>1. /\ from_(i) \in 1..Len(q) /\ from_(j) \in 1..Len(q)
          /\ from_(i) # from_(j)
      BY <2>5
    <3>2. q[from_(i)] # q[from_(j)]
      BY <3>1 DEF Injective
    <3>3. QED BY <2>5, <3>2
  <2>7. ToSet(r) \subseteq ToSet(q) \ {e}
    BY <2>1, <2>5 DEF ToSet, Injective
  <2>8. QED
    BY <2>4, <2>5, <2>6, <2>7 DEF r
<1>3. QED BY <1>1, <1>2

-----------------------------------------------------------------------------
(* The inductive invariant.                                                *)

(* The length of the log up to which s has been given its events.          *)
Cursor(s) == from[s] + Len(got[s])

(* The list holds subscribers that joined, each once; one that did not has *)
(* been given nothing.                                                     *)
Listed ==
  /\ Injective(subscribers)
  /\ \A i \in DOMAIN subscribers : from[subscribers[i]] # Never
  /\ \A s \in Subscriber : from[s] = Never => got[s] = <<>>

(* Whoever the loop over the list has not reached yet lacks exactly the    *)
(* event of the round; everyone else in the list has the whole log.  The   *)
(* properties speak of whole rounds only and do not say how far one got.   *)
Caught ==
  \A i \in DOMAIN subscribers :
    Cursor(subscribers[i]) =
      IF pub = "notify" /\ i >= pos THEN Len(log) - 1 ELSE Len(log)

(* A round of Notify is about the last event of the log.                   *)
Round ==
  pub = "notify" => /\ pos \in 1..(Len(subscribers) + 1)
                    /\ log # <<>>
                    /\ cur = log[Len(log)]

(* A closed subscriber is out of the list until the list is given up.      *)
Closing ==
  /\ \A s \in closedIn : from[s] # Never
  /\ pub # "exited" =>
       \A i \in DOMAIN subscribers : subscribers[i] \notin closedIn

IInv == TypeOK /\ Listed /\ Caught /\ Round /\ GaplessFeed /\ Closing

USE NoEventAssumption DEF Never

(* The inductive invariant holds when the process starts.                  *)
LEMMA InitIInv == BusInit => IInv
<1> SUFFICES ASSUME BusInit PROVE IInv
  OBVIOUS
<1> USE DEF BusInit
<1>1. TypeOK
  <2>1. /\ alive \in BOOLEAN /\ stop \in BOOLEAN
        /\ pub \in PubStates /\ pos \in Nat /\ open \in BOOLEAN
    BY DEF PubStates
  <2>2. subscribers \in Seq(Subscriber) /\ log \in Seq(Event)
    OBVIOUS
  <2>3. from \in [Subscriber -> Nat \cup {Never}]
    OBVIOUS
  <2>4. got \in [Subscriber -> Seq(Event)]
    OBVIOUS
  <2>5. /\ cur \in Event \cup {NoEvent}
        /\ closedIn \in SUBSET Subscriber
        /\ dropped \in SUBSET Event
    OBVIOUS
  <2>6. QED BY <2>1, <2>2, <2>3, <2>4, <2>5 DEF TypeOK
<1>2. Listed /\ Caught /\ Round
  BY DEF Listed, Caught, Round, Injective
<1>3. GaplessFeed /\ Closing
  BY DEF GaplessFeed, Closing
<1>4. QED BY <1>1, <1>2, <1>3 DEF IInv


(* Steps that leave the list, the log and the streams alone and neither    *)
(* begin nor end a round of Notify preserve the inductive invariant.       *)
LEMMA QuietStep ==
  ASSUME IInv,
         UNCHANGED <<subscribers, cur, pos, closedIn, log, from, got>>,
         alive' \in BOOLEAN, stop' \in BOOLEAN, open' \in BOOLEAN,
         dropped' \in SUBSET Event,
         pub' \in PubStates,
         pub' = "notify" <=> pub = "notify",
         pub = "exited" => pub' = "exited"
  PROVE  IInv'
<1> USE DEF IInv
<1>1. TypeOK'
  BY DEF TypeOK
<1>2. Listed'
  BY DEF Listed, Injective
<1>3. Caught'
  BY DEF Caught, Cursor
<1>4. Round'
  BY DEF Round
<1>5. GaplessFeed'
  BY DEF GaplessFeed, SegmentOfLog
<1>6. Closing'
  BY DEF Closing
<1>7. QED BY <1>1, <1>2, <1>3, <1>4, <1>5, <1>6

(* Every step of the event bus preserves the inductive invariant.          *)
LEMMA Preserved == IInv /\ [BusNext]_busVars => IInv'
<1> SUFFICES ASSUME IInv, [BusNext]_busVars
             PROVE  IInv'
  OBVIOUS
<1> USE DEF IInv
<1>1. CASE NewPublisher
  BY <1>1, QuietStep DEF NewPublisher, TypeOK, PubStates
<1>2. CASE Park
  BY <1>2, QuietStep DEF Park, TypeOK, PubStates
<1>3. CASE SelectStop
  BY <1>3, QuietStep DEF SelectStop, TypeOK, PubStates
<1>4. CASE Stop
  BY <1>4, QuietStep DEF Stop, TypeOK, PubStates
<1>5. CASE Panic
  BY <1>5, QuietStep DEF Panic, TypeOK, PubStates
<1>6. CASE UNCHANGED busVars
  BY <1>6, QuietStep DEF busVars, TypeOK, PubStates
<1>7. ASSUME NEW e \in Event, DropEvent(e)
      PROVE  IInv'
  BY <1>7, QuietStep DEF DropEvent, TypeOK, PubStates
<1>8. CASE EndNotify
  <2>1. TypeOK'
    BY <1>8 DEF EndNotify, TypeOK, PubStates
  <2>2. Listed'
    BY <1>8 DEF EndNotify, Listed, Injective
  <2>3. Caught'
    BY <1>8 DEF EndNotify, Caught, Cursor, TypeOK
  <2>4. Round'
    BY <1>8 DEF EndNotify, Round
  <2>5. GaplessFeed'
    BY <1>8 DEF EndNotify, GaplessFeed, SegmentOfLog
  <2>6. Closing'
    BY <1>8 DEF EndNotify, Closing
  <2>7. QED BY <2>1, <2>2, <2>3, <2>4, <2>5, <2>6
<1>9. CASE CloseAll
  <2>1. TypeOK'
    <3>1. closedIn \cup ToSet(subscribers) \in SUBSET Subscriber
      BY DEF TypeOK, ToSet
    <3>2. QED BY <1>9, <3>1 DEF CloseAll, TypeOK, PubStates
  <2>2. Listed'
    BY <1>9 DEF CloseAll, Listed, Injective
  <2>3. Caught'
    BY <1>9 DEF CloseAll, Caught, Cursor
  <2>4. Round'
    BY <1>9 DEF CloseAll, Round
  <2>5. GaplessFeed'
    BY <1>9 DEF CloseAll, GaplessFeed, SegmentOfLog
  <2>6. Closing'
    BY <1>9 DEF CloseAll, Closing, Listed, ToSet
  <2>7. QED BY <2>1, <2>2, <2>3, <2>4, <2>5, <2>6
<1>10. ASSUME NEW e \in Event, alive, AcceptEvent(e)
       PROVE  IInv'
  <2>1. /\ log' = Append(log, e) /\ pub' = "notify" /\ cur' = e /\ pos' = 1
        /\ pub = "parked" /\ alive' = alive
        /\ UNCHANGED <<subscribers, stop, open, closedIn, dropped, from, got>>
    BY <1>10 DEF AcceptEvent
  <2>2. /\ log' \in Seq(Event) /\ Len(log') = Len(log) + 1
        /\ log'[Len(log')] = e
        /\ \A i \in 1..Len(log) : log'[i] = log[i]
    BY <2>1 DEF TypeOK
  <2>3. TypeOK'
    BY <2>1, <2>2 DEF TypeOK, PubStates
  <2>4. Listed'
    BY <2>1 DEF Listed, Injective
  <2>5. Caught'
    BY <2>1, <2>2 DEF Caught, Cursor, TypeOK
  <2>6. Round'
    BY <2>1, <2>2 DEF Round, TypeOK
  <2>7. GaplessFeed'
    <3> SUFFICES ASSUME NEW s \in Subscriber, from[s] # Never
                 PROVE  SegmentOfLog(s)'
      BY <2>1 DEF GaplessFeed
    <3>1. from[s] \in Nat /\ Len(got[s]) \in Nat /\ Len(log) \in Nat
      BY DEF TypeOK
    <3>2. SegmentOfLog(s)
      BY DEF GaplessFeed
    <3>3. QED BY <2>1, <2>2, <3>1, <3>2 DEF SegmentOfLog
  <2>8. Closing'
    BY <2>1 DEF Closing
  <2>9. QED BY <2>3, <2>4, <2>5, <2>6, <2>7, <2>8
<1>11. ASSUME NEW s \in Subscriber, Notify(s)
       PROVE  IInv'
  <2>1. /\ pub = "notify" /\ pos \in 1..Len(subscribers) /\ s = subscribers[pos]
        /\ pos' = pos + 1
        /\ got' = [got EXCEPT ![s] = Append(got[s], cur)]
        /\ UNCHANGED <<pub, subscribers, cur, alive, stop, open, closedIn,
                       dropped, log, from>>
    BY <1>11 DEF Notify, TypeOK, Round
  <2>2. /\ cur \in Event /\ Len(log) \in Nat \ {0} /\ cur = log[Len(log)]
    BY <2>1 DEF TypeOK, Round
  <2>3. /\ from[s] \in Nat /\ from[s] + Len(got[s]) = Len(log) - 1
        /\ got[s] \in Seq(Event) /\ Len(got[s]) \in Nat
    BY <2>1 DEF TypeOK, Listed, Caught, Cursor
  <2>4. /\ got'[s] \in Seq(Event) /\ Len(got'[s]) = Len(got[s]) + 1
        /\ got'[s][Len(got[s]) + 1] = cur
        /\ \A i \in 1..Len(got[s]) : got'[s][i] = got[s][i]
        /\ \A x \in Subscriber \ {s} : got'[x] = got[x]
    BY <2>1, <2>2, <2>3 DEF TypeOK
  <2>5. TypeOK'
    <3>1. got' \in [Subscriber -> Seq(Event)]
      BY <2>1, <2>2 DEF TypeOK
    <3>2. pos' \in Nat
      BY <2>1
    <3>3. QED BY <2>1, <3>1, <3>2 DEF TypeOK
  <2>6. Listed'
    BY <2>1, <2>3, <2>4 DEF Listed, Injective
  <2>7. Caught'
    <3> SUFFICES ASSUME NEW i \in DOMAIN subscribers
                 PROVE  Cursor(subscribers[i])' =
                          IF i >= pos + 1 THEN Len(log) - 1 ELSE Len(log)
      BY <2>1 DEF Caught
    <3>1. CASE i = pos
      <4>1. subscribers[i] = s /\ from'[s] = from[s]
        BY <2>1, <3>1
      <4>2. from[s] + Len(got'[s]) = Len(log)
        BY <2>2, <2>3, <2>4
      <4>3. QED BY <2>1, <2>2, <3>1, <4>1, <4>2 DEF Cursor
    <3>2. CASE i # pos
      <4>1. subscribers[i] \in Subscriber \ {s} /\ i \in Nat
        BY <2>1, <3>2 DEF Listed, Injective, TypeOK
      <4>2. Cursor(subscribers[i])' = Cursor(subscribers[i])
        BY <2>1, <2>4, <4>1 DEF Cursor
      <4>3. QED BY <2>1, <3>2, <4>1, <4>2 DEF Caught
    <3>3. QED BY <3>1, <3>2
  <2>8. Round'
    BY <2>1 DEF Round, TypeOK
  <2>9. GaplessFeed'
    <3> SUFFICES ASSUME NEW x \in Subscriber, from[x] # Never
                 PROVE  SegmentOfLog(x)'
      BY <2>1 DEF GaplessFeed
    <3>1. SegmentOfLog(x)
      BY DEF GaplessFeed
    <3>2. CASE x = s
      <4>1. from[s] + Len(got'[s]) = Len(log)
        BY <2>3, <2>4
      <4>2. \A i \in 1..Len(got[s]) : got'[s][i] = log[from[s] + i]
        BY <2>4, <3>1, <3>2 DEF SegmentOfLog
      <4>3. got'[s][Len(got'[s])] = log[from[s] + Len(got'[s])]
        BY <2>2, <2>4, <4>1
      <4>4. ASSUME NEW i \in 1..Len(got'[s])
            PROVE  got'[s][i] = log[from[s] + i]
        <5>1. i = Len(got'[s]) \/ i \in 1..Len(got[s])
          BY <2>3, <2>4
        <5> QED BY <4>2, <4>3, <5>1
      <4>5. from' = from /\ log' = log
        BY <2>1
      <4>6. from[s] + Len(got'[s]) <= Len(log)
        BY <2>2, <4>1
      <4> QED BY <3>2, <4>4, <4>5, <4>6 DEF SegmentOfLog
    <3>3. CASE x # s
      BY <2>1, <2>4, <3>1, <3>3 DEF SegmentOfLog
    <3>4. QED BY <3>2, <3>3
  <2>10. Closing'
    BY <2>1 DEF Closing
  <2>11. QED BY <2>5, <2>6, <2>7, <2>8, <2>9, <2>10
<1>12. ASSUME NEW s \in Subscriber, alive, from[s] = Never, Selecting,
               subscribers' = Append(subscribers, s),
               from' = [from EXCEPT ![s] = Len(log)],
               pub' = "top",
               UNCHANGED <<alive, cur, pos, stop, open, closedIn, dropped, log,
                         got>>
       PROVE  IInv'
  <2>1. /\ subscribers' \in Seq(Subscriber)
        /\ Len(subscribers') = Len(subscribers) + 1
        /\ subscribers'[Len(subscribers) + 1] = s
        /\ \A i \in 1..Len(subscribers) : subscribers'[i] = subscribers[i]
    BY <1>12 DEF TypeOK
  <2>2. /\ from' \in [Subscriber -> Nat \cup {Never}]
        /\ from'[s] = Len(log) /\ Len(log) \in Nat
        /\ \A x \in Subscriber \ {s} : from'[x] = from[x]
    BY <1>12 DEF TypeOK
  <2>3. got[s] = <<>> /\ s \notin closedIn
    BY <1>12 DEF Listed, Closing
  <2>4. \A i \in 1..Len(subscribers) : subscribers[i] \in Subscriber \ {s}
    BY <1>12 DEF Listed, TypeOK
  <2>5. pub \in {"top", "parked"}
    BY <1>12 DEF Selecting
  <2>6. TypeOK'
    BY <1>12, <2>1, <2>2 DEF TypeOK, PubStates
  <2>7. Listed'
    <3>0. ASSUME NEW i \in DOMAIN subscribers'
          PROVE  \/ /\ i \in 1..Len(subscribers)
                    /\ subscribers'[i] = subscribers[i]
                 \/ i = Len(subscribers) + 1 /\ subscribers'[i] = s
      BY <2>1 DEF TypeOK
    <3>1. Injective(subscribers)'
      <4> SUFFICES ASSUME NEW i \in DOMAIN subscribers',
                          NEW j \in DOMAIN subscribers', i # j
                   PROVE  subscribers'[i] # subscribers'[j]
        BY DEF Injective
      <4>1. Injective(subscribers)
        BY DEF Listed
      <4>2. QED BY <2>4, <3>0, <4>1 DEF Injective
    <3>2. \A i \in DOMAIN subscribers' : from'[subscribers'[i]] # Never
      <4>1. \A i \in 1..Len(subscribers) : from[subscribers[i]] # Never
        BY DEF Listed, TypeOK
      <4>2. QED BY <2>2, <2>4, <3>0, <4>1
    <3>3. \A x \in Subscriber : from'[x] = Never => got[x] = <<>>
      BY <2>2 DEF Listed
    <3>4. QED BY <1>12, <3>1, <3>2, <3>3 DEF Listed
  <2>8. Caught'
    <3> SUFFICES ASSUME NEW i \in 1..(Len(subscribers) + 1)
                 PROVE  Cursor(subscribers[i])' = Len(log)
      BY <1>12, <2>1 DEF Caught
    <3>1. CASE i = Len(subscribers) + 1
      BY <1>12, <2>1, <2>2, <2>3, <3>1 DEF Cursor
    <3>2. CASE i # Len(subscribers) + 1
      <4>1. i \in 1..Len(subscribers)
        BY <3>2 DEF TypeOK
      <4>2. Cursor(subscribers[i])' = Cursor(subscribers[i])
        BY <1>12, <2>1, <2>2, <2>4, <4>1 DEF Cursor
      <4>3. QED BY <2>5, <4>1, <4>2 DEF Caught, TypeOK
    <3>3. QED BY <3>1, <3>2
  <2>9. Round'
    BY <1>12 DEF Round
  <2>10. GaplessFeed'
    <3> SUFFICES ASSUME NEW x \in Subscriber, from'[x] # Never
                 PROVE  SegmentOfLog(x)'
      BY DEF GaplessFeed
    <3>1. CASE x = s
      BY <1>12, <2>2, <2>3, <3>1 DEF SegmentOfLog
    <3>2. CASE x # s
      BY <1>12, <2>2, <3>2 DEF GaplessFeed, SegmentOfLog
    <3>3. QED BY <3>1, <3>2
  <2>11. Closing'
    <3>1. \A x \in closedIn : from'[x] # Never
      BY <2>2, <2>3 DEF Closing, TypeOK
    <3>2. \A i \in 1..(Len(subscribers) + 1) : subscribers'[i] \notin closedIn
      <4>1. \A i \in 1..Len(subscribers) : subscribers[i] \notin closedIn
        BY <2>5 DEF Closing, TypeOK
      <4>2. ASSUME NEW i \in 1..(Len(subscribers) + 1)
            PROVE  i \in 1..Len(subscribers) \/ i = Len(subscribers) + 1
        BY DEF TypeOK
      <4>3. QED BY <2>1, <2>3, <4>1, <4>2
    <3>3. QED BY <1>12, <2>1, <3>1, <3>2 DEF Closing
  <2>12. QED BY <2>6, <2>7, <2>8, <2>9, <2>10, <2>11
<1>13. ASSUME NEW s \in Subscriber, alive, Selecting,
               subscribers' = RemoveFirst(subscribers, s),
               closedIn' = IF s \in ToSet(subscribers)
                             THEN closedIn \cup {s} ELSE closedIn,
               pub' = "top",
               UNCHANGED <<alive, cur, pos, stop, open, dropped, log, from,
                         got>>
       PROVE  IInv'
  <2>1. /\ subscribers' \in Seq(Subscriber)
        /\ Injective(subscribers')
        /\ ToSet(subscribers') \subseteq ToSet(subscribers) \ {s}
    <3>1. subscribers \in Seq(Subscriber) /\ Injective(subscribers)
      BY DEF TypeOK, Listed
    <3>2. QED BY <1>13, <3>1, RemoveFirstFacts
  <2>2. ASSUME NEW i \in DOMAIN subscribers'
        PROVE  \E j \in DOMAIN subscribers :
                 subscribers'[i] = subscribers[j] /\ subscribers[j] # s
    BY <2>1 DEF ToSet
  <2>3. pub \in {"top", "parked"}
    BY <1>13 DEF Selecting
  <2>4. TypeOK'
    BY <1>13, <2>1 DEF TypeOK, PubStates
  <2>5. Listed'
    BY <1>13, <2>1, <2>2 DEF Listed
  <2>6. Caught'
    <3> SUFFICES ASSUME NEW i \in DOMAIN subscribers'
                 PROVE  Cursor(subscribers[i])' = Len(log)
      BY <1>13 DEF Caught
    <3>1. PICK j \in DOMAIN subscribers : subscribers'[i] = subscribers[j]
      BY <2>2
    <3>2. Cursor(subscribers[j]) = Len(log)
      BY <2>3 DEF Caught
    <3>3. QED BY <1>13, <3>1, <3>2 DEF Cursor
  <2>7. Round'
    BY <1>13 DEF Round
  <2>8. GaplessFeed'
    BY <1>13 DEF GaplessFeed, SegmentOfLog
  <2>9. Closing'
    <3>1. \A x \in closedIn' : from[x] # Never
      BY <1>13 DEF Closing, Listed, ToSet
    <3>2. ASSUME NEW i \in DOMAIN subscribers'
          PROVE  subscribers'[i] \notin closedIn'
      BY <1>13, <2>2, <2>3 DEF Closing
    <3>3. QED BY <1>13, <3>1, <3>2 DEF Closing
  <2>10. QED BY <2>4, <2>5, <2>6, <2>7, <2>8, <2>9
<1>14. ASSUME NEW e \in Event, PublishMessage(e)
       PROVE  IInv'
  BY <1>5, <1>7, <1>10, <1>14 DEF PublishMessage
<1>15. ASSUME NEW s \in Subscriber, AddSubscriber(s)
       PROVE  IInv'
  BY <1>5, <1>12, <1>15 DEF AddSubscriber
<1>16. ASSUME NEW s \in Subscriber, RemoveSubscriber(s)
       PROVE  IInv'
  BY <1>5, <1>13, <1>16 DEF RemoveSubscriber
<1>17. QED
  BY <1>1, <1>2, <1>3, <1>4, <1>5, <1>6, <1>8, <1>9, <1>11, <1>14, <1>15, <1>16
  DEF BusNext, PublisherStep

(* The inductive invariant holds for ever.                                 *)
LEMMA Invariance == BusSpec => []IInv
  BY InitIInv, Preserved, PTL DEF BusSpec

-----------------------------------------------------------------------------
(* Every variable of the event bus keeps its type.                         *)
THEOREM TypeCorrect == BusSpec => []TypeOK
<1>1. IInv => TypeOK
  BY DEF IInv
<1>2. QED BY <1>1, Invariance, PTL

(* The loop in start never skips a subscriber, calls one twice or gives it *)
(* events out of order, whoever joins and leaves between the events.       *)
THEOREM GaplessFeedCorrect == BusSpec => []GaplessFeed
<1>1. IInv => GaplessFeed
  BY DEF IInv
<1>2. QED BY <1>1, Invariance, PTL

(* Between two rounds of Notify every subscriber in the list has all the   *)
(* events accepted since it joined.                                        *)
THEOREM NobodyLagsCorrect == BusSpec => []NobodyLags
<1>1. IInv => NobodyLags
  BY DEF IInv, NobodyLags, Caught, Cursor, ToSet
<1>2. QED BY <1>1, Invariance, PTL

(* No subscriber's channel is closed a second time by the remove or by the *)
(* stop branch of the select.                                              *)
THEOREM ClosedOnceCorrect == BusSpec => []ClosedOnce
<1>1. IInv => ClosedOnce
  BY DEF IInv, ClosedOnce, Listed, Closing, Injective, ToSet
<1>2. QED BY <1>1, Invariance, PTL

(* The event bus implements EventFeed: accepting, adding and notifying are *)
(* its Accept, Join and Read, every other step leaves it alone.            *)
THEOREM Refinement == BusSpec => FeedRefined
<1>1. BusInit => Feed!FeedInit
  BY DEF BusInit, Feed!FeedInit, Feed!Never
<1>2. IInv /\ [BusNext]_busVars => [Feed!FeedNext]_Feed!feedVars
  <2> SUFFICES ASSUME IInv, [BusNext]_busVars
               PROVE  [Feed!FeedNext]_Feed!feedVars
    OBVIOUS
  <2>1. ASSUME NEW e \in Event, PublishMessage(e)
        PROVE  Feed!Accept(e) \/ UNCHANGED Feed!feedVars
    BY <2>1 DEF PublishMessage, AcceptEvent, DropEvent, Panic,
                Feed!Accept, Feed!feedVars
  <2>2. ASSUME NEW s \in Subscriber, AddSubscriber(s)
        PROVE  Feed!Join(s) \/ UNCHANGED Feed!feedVars
    BY <2>2 DEF AddSubscriber, Panic, Feed!Join, Feed!Never, Feed!feedVars
  <2>3. ASSUME NEW s \in Subscriber, Notify(s)
        PROVE  Feed!Read(s)
    <3>1. /\ pub = "notify"
          /\ pos \in 1..Len(subscribers) /\ s = subscribers[pos]
          /\ got' = [got EXCEPT ![s] = Append(got[s], cur)]
          /\ UNCHANGED <<log, from>>
      BY <2>3 DEF Notify, IInv, Round
    <3>2. cur = log[Len(log)] /\ Len(log) \in Nat \ {0}
      BY <3>1 DEF IInv, TypeOK, Round
    <3>3. from[s] \in Nat /\ from[s] + Len(got[s]) = Len(log) - 1
      BY <3>1 DEF IInv, TypeOK, Listed, Caught, Cursor
    <3>4. Feed!Cursor(s) < Len(log) /\ Feed!Cursor(s) + 1 = Len(log)
      BY <3>2, <3>3 DEF Feed!Cursor, IInv, TypeOK
    <3>5. got' = [got EXCEPT ![s] = Append(got[s], log[Feed!Cursor(s) + 1])]
      BY <3>1, <3>2, <3>4
    <3>6. from[s] # Feed!Never
      BY <3>3 DEF Feed!Never
    <3>7. QED BY <3>1, <3>4, <3>5, <3>6 DEF Feed!Read
  <2>4. CASE Panic \/ NewPublisher \/ PublisherStep \/ Stop \/ UNCHANGED busVars
    BY <2>4 DEF Panic, NewPublisher, PublisherStep, Park, EndNotify, SelectStop,
                CloseAll, Stop, busVars, Feed!feedVars
  <2>5. ASSUME NEW s \in Subscriber, RemoveSubscriber(s)
        PROVE  UNCHANGED Feed!feedVars
    BY <2>5 DEF RemoveSubscriber, Panic, Feed!feedVars
  <2>6. QED
    BY <2>1, <2>2, <2>3, <2>4, <2>5 DEF BusNext, Feed!FeedNext
<1>3. QED
  BY <1>1, <1>2, Invariance, PTL DEF BusSpec, FeedRefined, Feed!FeedSpec

-----------------------------------------------------------------------------
(* Every step of the service is one of the bus or leaves the bus alone.    *)
LEMMA StepRefines == [Next]_vars => [BusNext]_busVars
<1> SUFFICES ASSUME [Next]_vars
             PROVE  [BusNext]_busVars
  OBVIOUS
<1> USE CallAssumption
<1>1. CASE MainStep
  BY <1>1 DEF MainStep, LoadData, MakePublisher, Listen, StartServer, BusNext
<1>2. CASE Finish
  BY <1>2 DEF Finish
<1>3. CASE StopperStep
  BY <1>3 DEF StopperStep, StopPublisher, StopServer, BusNext
<1>4. CASE BusStep
  BY <1>4 DEF BusStep, BusNext
<1>5. ASSUME NEW c \in Event, Call(c) \/ Interceptor(c)
      PROVE  [BusNext]_busVars
  <2>1. CASE Call(c)
    BY <2>1 DEF Call
  <2>2. CASE Interceptor(c)
    BY <2>2 DEF Interceptor, authUnaryInterceptor, authStreamInterceptor,
                Intercept, BusNext
  <2>3. QED BY <1>5, <2>1, <2>2
<1>6. ASSUME NEW c \in Subscriber,
             \/ Disconnect(c) \/ Subscribe(c) \/ NewTicker(c) \/ Deliver(c)
             \/ Set(c) \/ Send(c) \/ Tick(c) \/ Exit(c)
      PROVE  [BusNext]_busVars
  <2>1. CASE Subscribe(c)
    BY <2>1 DEF Subscribe, SubscribeLogging, SubscribeStatistics, BusNext
  <2>2. CASE Deliver(c)
    BY <2>2 DEF Deliver, DeliverLogging, DeliverStatistics, BusNext
  <2>3. CASE Disconnect(c) \/ Tick(c)
    BY <2>3 DEF Disconnect, Tick
  <2>4. CASE Send(c) \/ Exit(c)
    BY <2>4 DEF Send, SendLogging, SendStatistics, Exit, ExitCollector, ExitStatistics
  <2>5. CASE NewTicker(c) \/ Set(c)
    BY <2>5 DEF NewTicker, Set, BusNext
  <2>6. QED BY <1>6, <2>1, <2>2, <2>3, <2>4, <2>5
<1>7. CASE UNCHANGED vars
  BY <1>7 DEF vars
<1>8. QED BY <1>1, <1>2, <1>3, <1>4, <1>5, <1>6, <1>7 DEF Next

(* The bus's inductive invariant holds inside the service.                 *)
LEMMA BusInvariance == Spec => []IInv
<1>1. Init => IInv
  BY InitIInv DEF Init
<1>2. QED BY <1>1, StepRefines, Preserved, PTL DEF Spec

-----------------------------------------------------------------------------
(* Types: the variables the service adds to those of the bus.              *)
OwnTypeOK ==
  /\ main \in MainStates
  /\ serving \in BOOLEAN
  /\ ctxDone \in BOOLEAN
  /\ stopper \in StopperStates
  /\ pc \in [Event -> CallStates]
  /\ conn \in [Event -> BOOLEAN]
  /\ collector \in [Subscriber -> CollectorStates]

(* Every step of the service keeps the types of its own variables.        *)
LEMMA OwnTypes == OwnTypeOK /\ [Next]_vars => OwnTypeOK'
<1> SUFFICES ASSUME OwnTypeOK, [Next]_vars
             PROVE  OwnTypeOK'
  OBVIOUS
<1> USE CallAssumption
    DEF OwnTypeOK, MainStates, StopperStates, CallStates, CollectorStates
<1>1. CASE MainStep
  BY <1>1 DEF MainStep, LoadData, MakePublisher, Listen, StartServer
<1>2. CASE Finish
  BY <1>2 DEF Finish
<1>3. CASE StopperStep
  BY <1>3 DEF StopperStep, StopPublisher, StopServer
<1>4. CASE BusStep
  BY <1>4 DEF BusStep, svcVars
<1>5. ASSUME NEW c \in Event, Call(c)
      PROVE  OwnTypeOK'
  BY <1>5 DEF Call, Goto
<1>6. ASSUME NEW c \in Event, Interceptor(c)
      PROVE  OwnTypeOK'
  <2>1. /\ UNCHANGED <<main, serving, ctxDone, stopper, conn, collector>>
        /\ \E l \in {"rejected", "called", "done", "subscribe"} :
             pc' = [pc EXCEPT ![c] = l]
    BY <1>6 DEF Interceptor, authUnaryInterceptor, authStreamInterceptor,
                Intercept, GoOn, Goto
  <2>2. QED BY <2>1
<1>7. ASSUME NEW c \in Subscriber,
             Disconnect(c) \/ Deliver(c) \/ Set(c)
      PROVE  OwnTypeOK'
  BY <1>7 DEF Disconnect, Deliver, DeliverLogging, DeliverStatistics, Set,
              Goto, svcVars
<1>8. ASSUME NEW c \in Subscriber,
             Send(c) \/ Tick(c) \/ Exit(c)
      PROVE  OwnTypeOK'
  BY <1>8 DEF Send, SendLogging, SendStatistics, Tick, Exit, ExitCollector,
              ExitStatistics, Goto
<1>9. ASSUME NEW c \in Subscriber,
             Subscribe(c) \/ NewTicker(c)
      PROVE  OwnTypeOK'
  <2>1. /\ UNCHANGED <<main, serving, ctxDone, stopper, conn>>
        /\ \E l \in CallStates : pc' = [pc EXCEPT ![c] = l]
    BY <1>9 DEF Subscribe, SubscribeLogging, SubscribeStatistics, NewTicker,
                GoOn, Goto
  <2>2. collector' \in [Subscriber -> CollectorStates]
    BY <1>9 DEF Subscribe, SubscribeLogging, SubscribeStatistics, NewTicker
  <2>3. QED BY <2>1, <2>2
<1>10. CASE UNCHANGED vars
  BY <1>10 DEF vars, svcVars
<1>11. QED
  BY <1>1, <1>2, <1>3, <1>4, <1>5, <1>6, <1>7, <1>8, <1>9, <1>10 DEF Next

(* Every variable of the service keeps its type.                           *)
THEOREM ServiceTypeCorrect == Spec => []SvcTypeOK
<1>1. Init => OwnTypeOK
  BY DEF Init, OwnTypeOK, MainStates, StopperStates, CallStates,
         CollectorStates
<1>2. IInv /\ OwnTypeOK => SvcTypeOK
  BY DEF IInv, OwnTypeOK, SvcTypeOK
<1>3. QED BY <1>1, <1>2, OwnTypes, BusInvariance, PTL DEF Spec

-----------------------------------------------------------------------------
(* Authorisation.                                                          *)

(* A positive verdict comes from an entry that grants the method.          *)
LEMMA AllowIsGranted ==
  ASSUME NEW c \in Event, Verdict(c) = "allow"
  PROVE  Granted(c)
<1> DEFINE consumer == JoinedConsumer(Header[c])
           list == AclData[consumer]
<1>1. Header[c] # <<>> /\ accessCheck(AclData, consumer, Method[c]) = "allow"
  BY DEF Verdict, auth
<1>2. consumer \in DOMAIN AclData
  BY <1>1 DEF accessCheck
<1>3. \E i \in DOMAIN list :
        StopsAt(i, list, Method[c]) /\ ~Malformed(list[i])
  BY <1>1, <1>2 DEF accessCheck
<1>4. QED
  BY <1>1, <1>2, <1>3 DEF Granted, StopsAt, Decisive

(* What offering an event to the bus does to the events offered.           *)
LEMMA OfferedGrows ==
  ASSUME IInv, NEW c \in Event, PublishMessage(c)
  PROVE  /\ c \notin Offered
         /\ Offered' \subseteq Offered \cup {c}
         /\ Offered \subseteq Offered'
         /\ alive' => c \in Offered'
         /\ from' = from
         /\ log' = log \/ log' = Append(log, c)
<1>1. log \in Seq(Event)
  BY DEF IInv, TypeOK
<1>3. c \notin Offered
  BY DEF PublishMessage
<1>4. CASE AcceptEvent(c)
  <2>1. log' = Append(log, c) /\ UNCHANGED <<dropped, from>>
    BY <1>4 DEF AcceptEvent
  <2>2. ToSet(log)' = ToSet(log) \cup {c}
    BY <1>1, <2>1 DEF ToSet
  <2>3. Offered' = Offered \cup {c}
    BY <2>1, <2>2 DEF Offered
  <2>4. QED BY <1>3, <2>1, <2>3
<1>5. CASE DropEvent(c)
  BY <1>3, <1>5 DEF DropEvent, Offered
<1>6. CASE Panic
  BY <1>3, <1>6 DEF Panic, Offered
<1>7. QED BY <1>4, <1>5, <1>6 DEF PublishMessage

(* A handler that has not been started.                                    *)
Before == {"idle", "called", "rejected"}

(* Subscriber c joined after its own event had been accepted or dropped.   *)
NotAfter(c) == \A i \in 1..Len(log) : i > from[c] => log[i] # c

OrderInv ==
  /\ \A c \in Subscriber : alive /\ pc[c] = "subscribe" => c \in Offered
  /\ \A c \in Subscriber : from[c] # Never => c \in Offered /\ NotAfter(c)

(* The inductive invariant of the service.                                 *)
SvcInv == IInv /\ OwnTypeOK /\ OnlyAuthorised /\ OrderInv

(* Steps that publish nothing, add no subscriber and start no handler.     *)
LEMMA QuietServiceStep ==
  ASSUME SvcInv,
         UNCHANGED <<log, dropped, from>>,
         alive' => alive,
         \A c \in Event :
           \/ pc'[c] = pc[c]
           \/ pc'[c] \in Before
           \/ pc[c] \notin Before /\ pc'[c] # "subscribe"
  PROVE  (OnlyAuthorised /\ OrderInv)'
<1>1. Offered' = Offered
  BY DEF Offered
<1>2. OnlyAuthorised'
  BY <1>1 DEF SvcInv, OnlyAuthorised, Granted, Before
<1>3. OrderInv'
  BY <1>1, CallAssumption DEF SvcInv, OrderInv, NotAfter, Before
<1>4. QED BY <1>2, <1>3

(* An interceptor publishes and starts handlers of authorised calls only.  *)
LEMMA InterceptorStep ==
  ASSUME SvcInv, NEW c \in Event, Interceptor(c)
  PROVE  (OnlyAuthorised /\ OrderInv)'
<1> USE CallAssumption DEF SvcInv
<1>1. /\ alive /\ pc[c] = "called"
      /\ pc \in [Event -> CallStates]
  BY DEF Interceptor, authUnaryInterceptor, authStreamInterceptor, Intercept,
         OwnTypeOK
<1>2. CASE PublishMessage(c) /\ Verdict(c) \notin {"deny", "panic"}
  <2>1. Granted(c)
    <3>1. Verdict(c) = "allow"
      BY <1>2 DEF Verdict, auth, accessCheck
    <3>2. QED BY <3>1, AllowIsGranted
  <2>2. \A d \in Event \ {c} : pc'[d] = pc[d]
    BY <1>1 DEF Interceptor, authUnaryInterceptor, authStreamInterceptor,
                Intercept, GoOn, Goto
  <2>3. OnlyAuthorised'
    BY <1>2, <2>1, <2>2, OfferedGrows DEF OnlyAuthorised, Granted
  <2>4. OrderInv'
    <3>1. ASSUME NEW d \in Subscriber, alive', pc'[d] = "subscribe"
          PROVE  d \in Offered'
      BY <1>1, <1>2, <2>2, <3>1, OfferedGrows DEF OrderInv
    <3>2. ASSUME NEW d \in Subscriber, from'[d] # Never
          PROVE  d \in Offered' /\ NotAfter(d)'
      <4>1. d \in Offered /\ NotAfter(d) /\ from' = from
        BY <1>2, <3>2, OfferedGrows DEF OrderInv
      <4>2. d \in Offered' /\ d # c
        BY <1>2, <4>1, OfferedGrows
      <4>3. log \in Seq(Event)
        BY DEF IInv, TypeOK
      <4>4. log' = log \/ log' = Append(log, c)
        BY <1>2, OfferedGrows
      <4>5. QED BY <4>1, <4>2, <4>3, <4>4 DEF NotAfter
    <3>3. QED BY <3>1, <3>2 DEF OrderInv
  <2>5. QED BY <2>3, <2>4
<1>3. CASE UNCHANGED <<log, dropped, from>> /\ pc' = [pc EXCEPT ![c] = "rejected"]
  <2>1. \A d \in Event : pc'[d] = pc[d] \/ pc'[d] \in Before
    BY <1>1, <1>3 DEF Before
  <2>2. alive' => alive
    BY <1>1
  <2>3. QED BY <1>3, <2>1, <2>2, QuietServiceStep
<1>4. CASE Panic /\ pc' = [pc EXCEPT ![c] = "called"]
  <2>1. \A d \in Event : pc'[d] = pc[d] \/ pc'[d] \in Before
    BY <1>1, <1>4 DEF Before
  <2>2. UNCHANGED <<log, dropped, from>> /\ (alive' => alive)
    BY <1>4 DEF Panic
  <2>3. QED BY <2>1, <2>2, QuietServiceStep
<1>5. QED
  BY <1>2, <1>3, <1>4 DEF Interceptor, authUnaryInterceptor,
     authStreamInterceptor, Intercept, GoOn, Goto, busVars, Panic

(* A subscriber is added behind everything accepted so far.                *)
LEMMA SubscribeStep ==
  ASSUME SvcInv, NEW c \in Subscriber, Subscribe(c)
  PROVE  (OnlyAuthorised /\ OrderInv)'
<1> USE CallAssumption DEF SvcInv
<1>1. /\ alive /\ pc[c] = "subscribe" /\ AddSubscriber(c)
      /\ \/ pc' = pc
         \/ \E l \in {"receive", "ticker"} : pc' = [pc EXCEPT ![c] = l]
      /\ pc \in [Event -> CallStates]
  BY DEF Subscribe, SubscribeLogging, SubscribeStatistics, GoOn, Goto,
         AddSubscriber, OwnTypeOK
<1>2. /\ UNCHANGED <<log, dropped>>
      /\ from' = from \/ from' = [from EXCEPT ![c] = Len(log)]
      /\ alive' => alive
  BY <1>1 DEF AddSubscriber, Panic
<1>3. \A d \in Event :
        pc'[d] = pc[d] \/ (pc[d] \notin Before /\ pc'[d] # "subscribe")
  BY <1>1 DEF Before
<1>4. CASE from' = from
  BY <1>2, <1>3, <1>4, QuietServiceStep
<1>5. CASE from' = [from EXCEPT ![c] = Len(log)]
  <2>1. Offered' = Offered
    BY <1>2 DEF Offered
  <2>2. OnlyAuthorised'
    BY <1>3, <2>1 DEF OnlyAuthorised, Granted, Before
  <2>3. c \in Offered
    BY <1>1 DEF OrderInv
  <2>4. from \in [Subscriber -> Nat \cup {Never}] /\ Len(log) \in Nat
    BY DEF IInv, TypeOK
  <2>5. ASSUME NEW d \in Subscriber, from'[d] # Never
        PROVE  d \in Offered' /\ NotAfter(d)'
    <3>1. CASE d = c
      BY <1>2, <1>5, <2>1, <2>3, <2>4, <3>1 DEF NotAfter
    <3>2. CASE d # c
      BY <1>2, <1>5, <2>1, <2>4, <2>5, <3>2 DEF OrderInv, NotAfter
    <3>3. QED BY <3>1, <3>2
  <2>6. \A d \in Subscriber : alive' /\ pc'[d] = "subscribe" => d \in Offered'
    BY <1>2, <1>3, <2>1 DEF OrderInv, Before
  <2>7. QED BY <2>2, <2>5, <2>6 DEF OrderInv
<1>6. QED BY <1>2, <1>4, <1>5

(* Every step of the service preserves its inductive invariant.            *)
LEMMA SvcInvPreserved == SvcInv /\ IInv' /\ OwnTypeOK' /\ [Next]_vars => SvcInv'
<1> SUFFICES ASSUME SvcInv, IInv', OwnTypeOK', [Next]_vars
             PROVE  (OnlyAuthorised /\ OrderInv)'
  BY DEF SvcInv
<1> USE CallAssumption
<1> DEFINE Calm ==
             \A c \in Event :
               \/ pc'[c] = pc[c]
               \/ pc'[c] \in Before
               \/ pc[c] \notin Before /\ pc'[c] # "subscribe"
           Unpublished == UNCHANGED <<log, dropped, from>> /\ (alive' => alive)
<1>0. pc \in [Event -> CallStates]
  BY DEF SvcInv, OwnTypeOK
<1>1. CASE MainStep
  <2>1. Calm /\ Unpublished
    BY <1>1 DEF MainStep, LoadData, MakePublisher, Listen, StartServer, busVars,
                NewPublisher
  <2>2. QED BY <2>1, QuietServiceStep
<1>2. CASE Finish \/ StopperStep
  <2>1. Calm /\ Unpublished
    BY <1>2 DEF Finish, StopperStep, StopPublisher, Stop, StopServer, busVars
  <2>2. QED BY <2>1, QuietServiceStep
<1>3. CASE BusStep
  <2>1. Calm /\ Unpublished
    BY <1>3 DEF BusStep, svcVars, PublisherStep, Park, EndNotify, SelectStop,
                CloseAll
  <2>2. QED BY <2>1, QuietServiceStep
<1>4. ASSUME NEW c \in Event, Call(c)
      PROVE  (OnlyAuthorised /\ OrderInv)'
  <2>1. Calm
    BY <1>0, <1>4 DEF Call, Goto, Before
  <2>2. Unpublished
    BY <1>4 DEF Call, busVars
  <2>3. QED BY <2>1, <2>2, QuietServiceStep
<1>5. ASSUME NEW c \in Event, Interceptor(c)
      PROVE  (OnlyAuthorised /\ OrderInv)'
  BY <1>5, InterceptorStep
<1>6. ASSUME NEW c \in Subscriber, Subscribe(c)
      PROVE  (OnlyAuthorised /\ OrderInv)'
  BY <1>6, SubscribeStep
<1>7. ASSUME NEW c \in Subscriber, Deliver(c)
      PROVE  (OnlyAuthorised /\ OrderInv)'
  <2>1. Unpublished
    BY <1>7 DEF Deliver, DeliverLogging, DeliverStatistics, Notify
  <2>2. \/ pc' = pc
        \/ pc[c] = "receive" /\ pc' = [pc EXCEPT ![c] = "send"]
    BY <1>7 DEF Deliver, DeliverLogging, DeliverStatistics, Goto, svcVars
  <2>3. Calm
    BY <1>0, <2>2 DEF Before
  <2>4. QED BY <2>1, <2>3, QuietServiceStep
<1>8. ASSUME NEW c \in Subscriber,
             \/ Disconnect(c) \/ NewTicker(c) \/ Set(c)
             \/ Send(c) \/ Tick(c) \/ Exit(c)
      PROVE  (OnlyAuthorised /\ OrderInv)'
  <2>1. Unpublished
    BY <1>8 DEF Disconnect, NewTicker, Set, Send, SendLogging, SendStatistics,
                Tick, Exit, ExitCollector, ExitStatistics, Panic, busVars
  <2>2. \/ pc' = pc
        \/ /\ pc[c] \in {"send", "ticker", "report", "wait"}
           /\ \E l \in {"receive", "ticker", "wait", "report", "done"} :
                pc' = [pc EXCEPT ![c] = l]
    BY <1>8 DEF Disconnect, NewTicker, Set, Send, SendLogging, SendStatistics,
                Tick, Exit, ExitCollector, ExitStatistics, GoOn, Goto
  <2>3. Calm
    BY <1>0, <2>2 DEF Before
  <2>4. QED BY <2>1, <2>3, QuietServiceStep
<1>9. CASE UNCHANGED vars
  <2>1. Calm /\ Unpublished
    BY <1>9 DEF vars, svcVars, busVars
  <2>2. QED BY <2>1, QuietServiceStep
<1>10. QED
  BY <1>1, <1>2, <1>3, <1>4, <1>5, <1>6, <1>7, <1>8, <1>9 DEF Next

(* The inductive invariant of the service holds for ever.                  *)
LEMMA ServiceInvariance == Spec => []SvcInv
<1>1. Init => IInv /\ OwnTypeOK /\ OnlyAuthorised /\ OrderInv
  <2>1. Init => IInv
    BY InitIInv DEF Init
  <2>2. Init => OwnTypeOK
    BY DEF Init, OwnTypeOK, MainStates, StopperStates, CallStates,
         CollectorStates
  <2>3. Init => OnlyAuthorised /\ OrderInv
    <3> SUFFICES ASSUME Init
                 PROVE  OnlyAuthorised /\ OrderInv
      OBVIOUS
    <3>1. Offered = {}
      <4>1. ToSet(log) = {}
        BY DEF Init, BusInit, ToSet
      <4>2. QED BY <4>1 DEF Init, BusInit, Offered
    <3>2. OnlyAuthorised
      BY <3>1 DEF Init, OnlyAuthorised
    <3>3. OrderInv
      BY CallAssumption DEF Init, BusInit, OrderInv
    <3>4. QED BY <3>2, <3>3
  <2>4. QED BY <2>1, <2>2, <2>3
<1>2. SvcInv /\ [Next]_vars => SvcInv'
  <2>1. SvcInv /\ [Next]_vars => IInv' /\ OwnTypeOK'
    BY StepRefines, Preserved, OwnTypes DEF SvcInv
  <2>2. QED BY <2>1, SvcInvPreserved
<1>3. Init => SvcInv
  BY <1>1 DEF SvcInv
<1>4. QED BY <1>2, <1>3, PTL DEF Spec

(* A call the access list does not grant leaves no trace in the bus and    *)
(* its handler never runs, whatever the list and the header hold.          *)
THEOREM OnlyAuthorisedCorrect == Spec => []OnlyAuthorised
<1>1. SvcInv => OnlyAuthorised
  BY DEF SvcInv
<1>2. QED BY <1>1, ServiceInvariance, PTL

(* No streaming call is ever given the event of its own call.              *)
THEOREM OwnEventInvisibleCorrect == Spec => []OwnEventInvisible
<1>1. SvcInv => OwnEventInvisible
  <2> SUFFICES ASSUME SvcInv, NEW c \in Subscriber,
                      NEW i \in 1..Len(got[c]), got[c][i] = c
               PROVE  FALSE
    BY DEF OwnEventInvisible, ToSet, SvcInv, IInv, TypeOK
  <2>1. Len(got[c]) \in Nat /\ Len(log) \in Nat /\ from[c] \in Nat \cup {Never}
    BY DEF SvcInv, IInv, TypeOK
  <2>2. from[c] # Never
    BY <2>1 DEF SvcInv, IInv, Listed
  <2>3. SegmentOfLog(c) /\ NotAfter(c)
    BY <2>2 DEF SvcInv, IInv, GaplessFeed, OrderInv
  <2>4. from[c] + i \in 1..Len(log) /\ got[c][i] = log[from[c] + i]
    BY <2>1, <2>2, <2>3 DEF SegmentOfLog
  <2>5. QED BY <2>1, <2>2, <2>3, <2>4 DEF NotAfter
<1>2. QED BY <1>1, ServiceInvariance, PTL

-----------------------------------------------------------------------------
(* Panics.                                                                 *)

(* The channels of the bus are closed only behind Stop, and Stop is called *)
(* only once the context is done.                                          *)
ShutdownInv ==
  /\ stop => ctxDone
  /\ pub = "closing" \/ ~open => stop

LEMMA ShutdownInvariance == Spec => []ShutdownInv
<1>1. Init => ShutdownInv
  BY DEF Init, BusInit, ShutdownInv
<1>2. ASSUME ShutdownInv, [Next]_vars
      PROVE  ShutdownInv'
  <2> USE <1>2, CallAssumption DEF ShutdownInv
  <2>1. CASE MainStep
    BY <2>1 DEF MainStep, LoadData, MakePublisher, NewPublisher, Listen,
                StartServer, busVars
  <2>2. CASE Finish
    BY <2>2 DEF Finish, busVars
  <2>3. CASE StopperStep
    BY <2>3 DEF StopperStep, StopPublisher, Stop, StopServer, busVars
  <2>4. CASE BusStep
    BY <2>4 DEF BusStep, svcVars, PublisherStep, Park, EndNotify, SelectStop,
                CloseAll
  <2>5. ASSUME NEW c \in Event, Call(c) \/ Interceptor(c)
        PROVE  ShutdownInv'
    BY <2>5 DEF Call, Interceptor, authUnaryInterceptor, authStreamInterceptor,
                Intercept, Panic, PublishMessage, AcceptEvent, DropEvent, busVars
  <2>6. ASSUME NEW c \in Subscriber, Subscribe(c)
        PROVE  ShutdownInv'
    BY <2>6 DEF Subscribe, SubscribeLogging, SubscribeStatistics,
                AddSubscriber, Selecting, Panic
  <2>7. ASSUME NEW c \in Subscriber, Deliver(c)
        PROVE  ShutdownInv'
    BY <2>7 DEF Deliver, DeliverLogging, DeliverStatistics, Notify, svcVars
  <2>8. ASSUME NEW c \in Subscriber,
               \/ Disconnect(c) \/ NewTicker(c) \/ Set(c)
               \/ Send(c) \/ Tick(c) \/ Exit(c)
        PROVE  ShutdownInv'
    BY <2>8 DEF Disconnect, NewTicker, Set, Send, SendLogging, SendStatistics,
                Tick, Exit, ExitCollector, ExitStatistics, Panic, busVars
  <2>9. CASE UNCHANGED vars
    BY <2>9 DEF vars, svcVars, busVars
  <2> QED
    BY <2>1, <2>2, <2>3, <2>4, <2>5, <2>6, <2>7, <2>8, <2>9 DEF Next
<1> QED
  BY <1>1, <1>2, PTL DEF Spec

(* A step that panics is one of a call that can, and leaves it there.      *)
LEMMA PanicsInPlace ==
  ASSUME SvcInv, ShutdownInv, alive, ~alive', [Next]_vars
  PROVE  \E c \in Event : CanPanic(c)'
<1> USE CallAssumption
<1>1. pc \in [Event -> CallStates]
  BY DEF SvcInv, OwnTypeOK
<1>2. ~UNCHANGED vars
  BY DEF vars, busVars
<1>3. ~(MainStep \/ Finish \/ StopperStep \/ BusStep)
  BY DEF MainStep, LoadData, MakePublisher, NewPublisher, Listen, StartServer,
         Finish, StopperStep, StopPublisher, Stop, StopServer, BusStep,
         PublisherStep, Park, EndNotify, SelectStop, CloseAll, busVars
<1>4. ASSUME NEW c \in Event, Call(c) \/ Interceptor(c)
      PROVE  CanPanic(c)'
  <2>1. ~Call(c)
    BY DEF Call, busVars
  <2>2. /\ pc[c] = "called" /\ ctxDone' = ctxDone
        /\ \/ /\ Verdict(c) = "panic" /\ Panic
              /\ pc' = [pc EXCEPT ![c] = pc[c]]
           \/ /\ Verdict(c) \notin {"deny", "panic"} /\ PublishMessage(c)
              /\ pc' = [pc EXCEPT ![c] = pc[c]]
    BY <1>4, <2>1 DEF Interceptor, authUnaryInterceptor, authStreamInterceptor,
                      Intercept, GoOn, Goto, busVars
  <2>3. pc'[c] = "called"
    BY <1>1, <2>2
  <2>4. CASE Verdict(c) = "panic"
    BY <2>3, <2>4 DEF CanPanic, Verdict
  <2>5. CASE Verdict(c) # "panic"
    <3>1. Verdict(c) = "allow"
      BY <2>2, <2>5 DEF Verdict, auth, accessCheck
    <3>2. ~open /\ open' = open
      BY <2>2, <2>5 DEF PublishMessage, AcceptEvent, DropEvent, Panic
    <3>3. ctxDone'
      BY <2>2, <3>2 DEF ShutdownInv
    <3> QED
      BY <2>3, <3>1, <3>2, <3>3 DEF CanPanic, Verdict
  <2> QED
    BY <2>4, <2>5
<1>5. ASSUME NEW c \in Subscriber, Subscribe(c)
      PROVE  CanPanic(c)'
  <2>1. /\ pc[c] = "subscribe" /\ ctxDone' = ctxDone
        /\ AddSubscriber(c) /\ pc' = [pc EXCEPT ![c] = pc[c]]
    BY <1>5 DEF Subscribe, SubscribeLogging, SubscribeStatistics, GoOn, Goto
  <2>2. ~open /\ open' = open
    BY <2>1 DEF AddSubscriber, Panic
  <2>3. ctxDone' /\ pc'[c] = "subscribe"
    BY <1>1, <2>1, <2>2 DEF ShutdownInv
  <2> QED
    BY <2>2, <2>3 DEF CanPanic
<1>6. ASSUME NEW c \in Subscriber, NewTicker(c)
      PROVE  CanPanic(c)'
  <2>1. /\ pc[c] = "ticker" /\ pc' = [pc EXCEPT ![c] = pc[c]]
        /\ \E i \in Interval : ~(i > 0)
    BY <1>6 DEF NewTicker, GoOn, Goto, busVars
  <2>2. pc'[c] = "ticker" /\ \E i \in Interval : i <= 0
    BY <1>1, <2>1
  <2> QED
    BY <2>2 DEF CanPanic
<1>7. ASSUME NEW c \in Subscriber, Set(c)
      PROVE  CanPanic(c)'
  BY <1>7 DEF Set, CanPanic, busVars
<1>8. ASSUME NEW c \in Subscriber
      PROVE  ~(Disconnect(c) \/ Deliver(c) \/ Send(c) \/ Tick(c) \/ Exit(c))
  BY DEF Disconnect, Deliver, DeliverLogging, DeliverStatistics, Notify, Send,
         SendLogging, SendStatistics, Tick, Exit, ExitCollector,
         ExitStatistics, busVars
<1> QED
  BY <1>2, <1>3, <1>4, <1>5, <1>6, <1>7, <1>8 DEF Next

(* Every action needs a process that runs.                                 *)
LEMMA StepIsAlive == Next => alive
<1> SUFFICES ASSUME Next PROVE alive
  OBVIOUS
<1>1. CASE MainStep \/ Finish \/ StopperStep \/ BusStep
  BY <1>1 DEF MainStep, LoadData, MakePublisher, NewPublisher, Listen,
              StartServer, Finish, StopperStep, StopPublisher, Stop,
              StopServer, BusStep, PublisherStep, Park, EndNotify, SelectStop,
              CloseAll
<1>2. CASE \E c \in Event : Call(c) \/ Interceptor(c)
  BY <1>2 DEF Call, Interceptor, authUnaryInterceptor, authStreamInterceptor,
              Intercept
<1>3. ASSUME NEW c \in Subscriber,
             \/ Disconnect(c) \/ Subscribe(c) \/ NewTicker(c) \/ Deliver(c)
             \/ Set(c) \/ Send(c) \/ Tick(c) \/ Exit(c)
      PROVE  alive
  BY <1>3 DEF Disconnect, Subscribe, SubscribeLogging, SubscribeStatistics,
              AddSubscriber, NewTicker, Deliver, DeliverLogging,
              DeliverStatistics, Notify, Set, Send, SendLogging,
              SendStatistics, Tick, Exit, ExitCollector, ExitStatistics
<1> QED
  BY <1>1, <1>2, <1>3 DEF Next

(* The process dies only in one of the places of CanPanic: before the      *)
(* service is told to stop a malformed entry in the list of a call that is *)
(* checked, a ticker, or the maps of a Statistics call.                    *)
THEOREM CrashHasCauseCorrect == Spec => []CrashHasCause
<1>1. Init => CrashHasCause
  BY DEF Init, BusInit, CrashHasCause
<1>2. SvcInv /\ ShutdownInv /\ CrashHasCause /\ [Next]_vars => CrashHasCause'
  <2> SUFFICES ASSUME SvcInv, ShutdownInv, CrashHasCause, [Next]_vars, ~alive'
               PROVE  \E c \in Event : CanPanic(c)'
    BY DEF CrashHasCause
  <2>1. CASE alive
    BY <2>1, PanicsInPlace
  <2>2. CASE ~alive
    <3>1. UNCHANGED vars
      BY <2>2, StepIsAlive
    <3>2. PICK c \in Event : CanPanic(c)
      BY <2>2 DEF CrashHasCause
    <3>3. CanPanic(c)'
      BY <3>1, <3>2 DEF CanPanic, Verdict, vars, svcVars, busVars
    <3> QED
      BY <3>3
  <2> QED
    BY <2>1, <2>2
<1> QED
  BY <1>1, <1>2, ServiceInvariance, ShutdownInvariance, PTL DEF Spec

-----------------------------------------------------------------------------
(* A publisher that notifies somebody who has gone.                        *)

(* The channels are closed by a publisher that returns.                    *)
OpenInv == ~open => pub = "exited"

LEMMA OpenInvariance == Spec => []OpenInv
<1>1. Init => OpenInv
  BY DEF Init, BusInit, OpenInv
<1>2. OpenInv /\ [BusNext]_busVars => OpenInv'
  BY DEF OpenInv, BusNext, busVars, Panic, NewPublisher, PublisherStep, Park,
         EndNotify, SelectStop, CloseAll, Stop, PublishMessage, AcceptEvent,
         DropEvent, Notify, AddSubscriber, Selecting, RemoveSubscriber
<1> QED
  BY <1>1, <1>2, StepRefines, PTL DEF Spec

(* What a stuck publisher is left with.                                    *)
StaysStuck ==
  /\ Stuck' \/ ~alive'
  /\ log' = log /\ from' = from /\ open'

(* Once the publisher notifies a handler that has returned, it accepts no  *)
(* event and no subscriber any more and never closes its channels.         *)
THEOREM StuckForeverCorrect == Spec => StuckForever
<1>1. ASSUME SvcInv, OpenInv, Stuck, [Next]_vars
      PROVE  StaysStuck
  <2> USE <1>1, CallAssumption DEF Stuck, StaysStuck
  <2> DEFINE s == subscribers[pos]
             Quiet == UNCHANGED <<pub, subscribers, pos, log, from, open>>
  <2>1. /\ pc \in [Event -> CallStates]
        /\ collector \in [Subscriber -> CollectorStates]
    BY DEF SvcInv, OwnTypeOK
  <2>2. s \in Subscriber /\ open
    <3>1. /\ subscribers \in Seq(Subscriber)
          /\ pos \in 1..Len(subscribers)
      BY DEF SvcInv, IInv, TypeOK, Round
    <3> QED
      BY <3>1 DEF OpenInv
  <2>3. ASSUME Quiet,
               pc[s] = "done" => pc'[s] = "done",
               collector[s] = "exited" => collector'[s] = "exited"
        PROVE  StaysStuck
    BY <2>2, <2>3 DEF ReceiverGone
  <2>4. CASE MainStep
    BY <2>3, <2>4 DEF MainStep, LoadData, MakePublisher, NewPublisher, Listen,
                      StartServer, busVars
  <2>5. CASE Finish \/ StopperStep
    BY <2>3, <2>5 DEF Finish, StopperStep, StopPublisher, Stop, StopServer,
                      busVars
  <2>6. ~BusStep
    <3>1. ~(pos > Len(subscribers))
      BY DEF SvcInv, IInv, TypeOK
    <3> QED
      BY <3>1 DEF BusStep, PublisherStep, Park, EndNotify, SelectStop, CloseAll
  <2>7. ASSUME NEW c \in Event, Call(c) \/ Interceptor(c)
        PROVE  StaysStuck
    <3>1. Quiet
      BY <2>2, <2>7 DEF Call, Interceptor, authUnaryInterceptor,
           authStreamInterceptor, Intercept, busVars, Panic, PublishMessage,
           AcceptEvent, DropEvent
    <3>2. /\ collector' = collector
          /\ pc[c] # "done" /\ \A d \in Event \ {c} : pc'[d] = pc[d]
      BY <2>1, <2>7 DEF Call, Interceptor, authUnaryInterceptor,
           authStreamInterceptor, Intercept, GoOn, Goto
    <3> QED
      BY <2>2, <2>3, <3>1, <3>2
  <2>8. ASSUME NEW c \in Subscriber,
               \/ Disconnect(c) \/ NewTicker(c) \/ Set(c)
               \/ Send(c) \/ Tick(c) \/ Exit(c)
        PROVE  StaysStuck
    <3>1. Quiet
      BY <2>8 DEF Disconnect, NewTicker, Set, Send, SendLogging,
                  SendStatistics, Tick, Exit, ExitCollector, ExitStatistics,
                  Panic, busVars
    <3>2. /\ pc[s] = "done" => pc'[s] = "done"
          /\ collector[s] = "exited" => collector'[s] = "exited"
      BY <2>1, <2>2, <2>8 DEF Disconnect, NewTicker, Set, Send, SendLogging,
           SendStatistics, Tick, Exit, ExitCollector, ExitStatistics, GoOn,
           Goto
    <3> QED
      BY <2>3, <3>1, <3>2
  <2>9. ASSUME NEW c \in Subscriber
        PROVE  ~Subscribe(c) /\ ~Deliver(c)
    <3>1. ~AddSubscriber(c)
      BY <2>2 DEF AddSubscriber, Selecting
    <3>2. ~DeliverLogging(c) /\ ~DeliverStatistics(c)
      BY DEF DeliverLogging, DeliverStatistics, StatisticsCall, Notify,
             ReceiverGone
    <3> QED
      BY <3>1, <3>2 DEF Subscribe, SubscribeLogging, SubscribeStatistics,
                        Deliver
  <2>10. CASE UNCHANGED vars
    BY <2>3, <2>10 DEF vars, svcVars, busVars
  <2> QED
    BY <2>4, <2>5, <2>6, <2>7, <2>8, <2>9, <2>10 DEF Next
<1>2. SvcInv /\ OpenInv /\ [Next]_vars => [Stuck => StaysStuck]_vars
  BY <1>1
<1> QED
  BY <1>2, ServiceInvariance, OpenInvariance, PTL
     DEF Spec, StuckForever, StaysStuck

-----------------------------------------------------------------------------
(* Whom a publisher can be waiting for.                                    *)

(* A call that has joined has a handler that receives, or its client has   *)
(* left.                                                                   *)
HandlerInv == \A c \in Subscriber : from[c] # Never => Receiving(c) \/ ~conn[c]

LEMMA HandlerInvariance == Spec => []HandlerInv
<1>1. Init => HandlerInv
  BY DEF Init, BusInit, HandlerInv
<1>2. SvcInv /\ HandlerInv /\ [Next]_vars => HandlerInv'
  <2> SUFFICES ASSUME SvcInv, HandlerInv, [Next]_vars
               PROVE  HandlerInv'
    OBVIOUS
  <2> USE CallAssumption
  <2>1. /\ pc \in [Event -> CallStates]
        /\ conn \in [Event -> BOOLEAN]
        /\ collector \in [Subscriber -> CollectorStates]
        /\ from \in [Subscriber -> Nat \cup {Never}]
    BY DEF SvcInv, OwnTypeOK, IInv, TypeOK
  <2>2. ASSUME from' = from,
               \A c \in Subscriber :
                 ~conn'[c] \/ (conn'[c] = conn[c] /\ (Receiving(c) => Receiving(c)'))
        PROVE  HandlerInv'
    BY <2>2 DEF HandlerInv
  <2>3. CASE MainStep \/ Finish \/ StopperStep
    BY <2>2, <2>3 DEF MainStep, LoadData, MakePublisher, NewPublisher, Listen,
         StartServer, Finish, StopperStep, StopPublisher, Stop, StopServer,
         busVars, Receiving
  <2>4. CASE BusStep
    BY <2>2, <2>4 DEF BusStep, svcVars, PublisherStep, Park, EndNotify,
                      SelectStop, CloseAll, Receiving
  <2>5. ASSUME NEW c \in Event, Call(c) \/ Interceptor(c)
        PROVE  HandlerInv'
    <3>1. from' = from /\ conn' = conn /\ collector' = collector
      BY <2>5 DEF Call, Interceptor, authUnaryInterceptor, authStreamInterceptor,
           Intercept, busVars, Panic, PublishMessage, AcceptEvent, DropEvent
    <3>2. pc[c] \in {"idle", "called"} /\ \A d \in Event \ {c} : pc'[d] = pc[d]
      BY <2>1, <2>5 DEF Call, Interceptor, authUnaryInterceptor,
           authStreamInterceptor, Intercept, GoOn, Goto
    <3> QED
      BY <2>2, <3>1, <3>2 DEF Receiving
  <2>6. ASSUME NEW c \in Subscriber, Subscribe(c)
        PROVE  HandlerInv'
    <3>1. /\ pc[c] = "subscribe" /\ conn' = conn
          /\ \A d \in Subscriber \ {c} :
               from'[d] = from[d] /\ pc'[d] = pc[d] /\ collector'[d] = collector[d]
      BY <2>1, <2>6 DEF Subscribe, SubscribeLogging, SubscribeStatistics,
           AddSubscriber, Panic, GoOn, Goto
    <3>2. CASE SubscribeLogging(c) /\ alive'
      BY <2>1, <3>1, <3>2 DEF SubscribeLogging, GoOn, Goto, HandlerInv, Receiving
    <3>3. CASE SubscribeStatistics(c) /\ alive'
      BY <2>1, <3>1, <3>3 DEF SubscribeStatistics, StatisticsCall, HandlerInv,
           Receiving
    <3>4. CASE ~alive'
      <4>1. from' = from
        BY <2>6, <3>4 DEF Subscribe, SubscribeLogging, SubscribeStatistics,
             AddSubscriber, Panic
      <4>2. pc'[c] = pc[c] /\ collector'[c] = collector[c]
        BY <2>1, <2>6, <3>4 DEF Subscribe, SubscribeLogging,
             SubscribeStatistics, GoOn, Goto
      <4> QED
        BY <2>2, <3>1, <4>1, <4>2 DEF Receiving
    <3> QED
      BY <2>6, <3>2, <3>3, <3>4 DEF Subscribe
  <2>7. ASSUME NEW c \in Subscriber, Deliver(c)
        PROVE  HandlerInv'
    BY <2>1, <2>2, <2>7 DEF Deliver, DeliverLogging, DeliverStatistics,
         StatisticsCall, Notify, Goto, svcVars, Receiving
  <2>8. ASSUME NEW c \in Subscriber,
               \/ Disconnect(c) \/ NewTicker(c) \/ Set(c)
               \/ Send(c) \/ Tick(c) \/ Exit(c)
        PROVE  HandlerInv'
    <3>1. from' = from
      BY <2>8 DEF Disconnect, NewTicker, Set, Send, SendLogging,
           SendStatistics, Tick, Exit, ExitCollector, ExitStatistics, Panic,
           busVars
    <3>2. CASE Disconnect(c)
      BY <2>1, <2>2, <3>1, <3>2 DEF Disconnect, Receiving
    <3>3. CASE Set(c) \/ ExitCollector(c)
      BY <2>1, <2>2, <3>1, <3>3 DEF Set, ExitCollector, StatisticsCall,
           Receiving
    <3>4. CASE SendLogging(c)
      BY <2>1, <2>2, <3>1, <3>4 DEF SendLogging, Goto, HandlerInv, Receiving
    <3>5. CASE NewTicker(c) \/ SendStatistics(c) \/ Tick(c) \/ ExitStatistics(c)
      <4>1. /\ conn' = conn /\ collector' = collector
            /\ pc[c] \in {"ticker", "report", "wait"}
            /\ \A d \in Subscriber \ {c} : pc'[d] = pc[d]
        BY <2>1, <3>5 DEF NewTicker, SendStatistics, Tick, ExitStatistics,
             GoOn, Goto
      <4> QED
        BY <2>2, <3>1, <4>1 DEF Receiving
    <3> QED
      BY <2>8, <3>2, <3>3, <3>4, <3>5 DEF Send, Exit
  <2>9. CASE UNCHANGED vars
    BY <2>2, <2>9 DEF vars, svcVars, busVars, Receiving
  <2> QED
    BY <2>3, <2>4, <2>5, <2>6, <2>7, <2>8, <2>9 DEF Next
<1> QED
  BY <1>1, <1>2, ServiceInvariance, PTL DEF Spec

(* service.go: whatever clients do and whenever the service is stopped,    *)
(* the goroutine of the bus waits for handlers that are there and clients  *)
(* that have left, and for nobody else.                                    *)
THEOREM OnlyTheGoneBlockCorrect == Spec => []OnlyTheGoneBlock
<1>1. SvcInv /\ HandlerInv => OnlyTheGoneBlock
  <2> SUFFICES ASSUME SvcInv, HandlerInv, pub = "notify", pos <= Len(subscribers)
               PROVE  Receiving(subscribers[pos]) \/ ~conn[subscribers[pos]]
    BY DEF OnlyTheGoneBlock
  <2>1. /\ subscribers \in Seq(Subscriber) /\ pos \in 1..Len(subscribers)
        /\ from[subscribers[pos]] # Never
    BY DEF SvcInv, IInv, TypeOK, Round, Listed
  <2> QED
    BY <2>1 DEF HandlerInv
<1> QED
  BY <1>1, ServiceInvariance, HandlerInvariance, PTL
=============================================================================
