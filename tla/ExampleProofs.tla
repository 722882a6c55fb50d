---------------------------- MODULE ExampleProofs ----------------------------
(***************************************************************************)
(* Properties of the programs of MCExamples, each for any number of        *)
(* requests, words, rows and faults: the configuration from consul, the    *)
(* bidirectional stream, the lists of items, the access list of hw7, the   *)
(* database explorer, what is written down of requests; for any number of  *)
(* servers, of the service discovery; for any types and data, of i2s.      *)
(***************************************************************************)
EXTENDS Items, ConsulConfig, Translit, AclCheck, Discovery, Monitoring,
        Explorer, I2S, FiniteSetTheorems, SequenceTheorems, TLAPS

-----------------------------------------------------------------------------
(* ConsulConfig: the number a request prints covers its configuration.     *)
ConfigTypes ==
  /\ {consulIndex, globalCfg, consulLastIndex, answered} \subseteq Nat
  /\ reading \in [Reader -> {"none", "middleware", "handler", "done"}]
  /\ localCfg \in [Reader -> Nat]
  /\ version \in [Reader -> Nat]

(* The three numbers follow one another, and the map is ahead of its       *)
(* number only while the updater holds the lock.                           *)
NumbersFollow ==
  /\ consulLastIndex <= consulIndex
  /\ loading = "got" => consulLastIndex <= answered /\ answered <= consulIndex
  /\ loading = "locked" =>
       /\ globalCfg = answered
       /\ consulLastIndex <= answered /\ answered <= consulIndex
  /\ loading # "locked" => globalCfg = consulLastIndex

(* The number has reached what a request took under the lock.              *)
CoversTaken ==
  \A r \in Reader : reading[r] = "handler" => localCfg[r] <= consulLastIndex

ConfigInv == ConfigTypes /\ NumbersFollow /\ CoversTaken

(* ConfigInv is inductive: the updater's steps move the numbers upwards    *)
(* only, and a request takes the map while it has its number.              *)
THEOREM ConfigInvCorrect == ConfigSpec => []ConfigInv
<1>1. ConfigInit => ConfigInv
  BY DEF ConfigInit, ConfigInv, ConfigTypes, NumbersFollow, CoversTaken
<1>2. ConfigInv /\ [ConfigNext]_configVars => ConfigInv'
  <2> SUFFICES ASSUME ConfigInv, [ConfigNext]_configVars
               PROVE  ConfigInv'
    OBVIOUS
  <2> USE DEF ConfigInv, ConfigTypes, NumbersFollow, CoversTaken, requests,
              config
  <2>1. CASE Write
    BY <2>1 DEF Write
  <2>2. CASE Tick
    BY <2>2 DEF Tick
  <2>3. CASE ConsulAnswers
    BY <2>3 DEF ConsulAnswers
  <2>4. CASE LockConfig
    BY <2>4 DEF LockConfig
  <2>5. CASE UnlockConfig
    BY <2>5 DEF UnlockConfig
  <2>6. ASSUME NEW r \in Reader, Middleware(r)
        PROVE  ConfigInv'
    BY <2>6 DEF Middleware
  <2>7. ASSUME NEW r \in Reader, PostsHandle(r)
        PROVE  ConfigInv'
    BY <2>7 DEF PostsHandle
  <2>8. CASE UNCHANGED configVars
    BY <2>8 DEF configVars
  <2> QED
    BY <2>1, <2>2, <2>3, <2>4, <2>5, <2>6, <2>7, <2>8 DEF ConfigNext
<1> QED
  BY <1>1, <1>2, PTL DEF ConfigSpec

(* configMiddleware and loadPostsHandle: the number a request prints is    *)
(* never older than its configuration, and newer only if that was replaced *)
(* meanwhile.                                                              *)
THEOREM VersionCoversConfigCorrect == ConfigSpec => VersionCoversConfig
<1> DEFINE Covers ==
      \A r \in Reader : reading[r] = "handler" /\ reading'[r] = "done" =>
        /\ version'[r] >= localCfg[r]
        /\ version'[r] # localCfg[r] => globalCfg # localCfg[r]
<1>1. ConfigInv /\ [ConfigNext]_configVars => [Covers]_configVars
  <2> SUFFICES ASSUME ConfigInv, [ConfigNext]_configVars,
                      NEW r \in Reader,
                      reading[r] = "handler", reading'[r] = "done"
               PROVE  /\ version'[r] >= localCfg[r]
                      /\ version'[r] # localCfg[r] => globalCfg # localCfg[r]
    OBVIOUS
  <2>1. reading' # reading
    OBVIOUS
  <2>2. ~(\E s \in Reader : Middleware(s))
    <3> SUFFICES ASSUME NEW s \in Reader, Middleware(s)
                 PROVE  FALSE
      OBVIOUS
    <3> QED
      BY DEF Middleware, ConfigInv, ConfigTypes
  <2>3. PICK s \in Reader : PostsHandle(s)
    BY <2>1, <2>2 DEF ConfigNext, configVars, Write, Tick, ConsulAnswers,
                      LockConfig, UnlockConfig, requests
  <2>4. version'[r] = consulLastIndex
    BY <2>3 DEF PostsHandle, ConfigInv, ConfigTypes
  <2>5. localCfg[r] <= consulLastIndex /\ consulLastIndex <= globalCfg
    BY DEF ConfigInv, ConfigTypes, NumbersFollow, CoversTaken
  <2>6. {consulLastIndex, globalCfg, localCfg[r]} \subseteq Nat
    BY DEF ConfigInv, ConfigTypes
  <2> QED
    BY <2>4, <2>5, <2>6
<1> QED
  BY <1>1, ConfigInvCorrect, PTL DEF ConfigSpec, VersionCoversConfig

-----------------------------------------------------------------------------
(* Translit: the words come back.                                          *)

(* What a stream carries: k words in their order behind the word n, and    *)
(* behind them nothing but its end.                                        *)
StreamEnds == {EOF, Broken}
Message == {Word(n) : n \in Nat} \cup StreamEnds

Carries(stream, n, k) ==
  /\ k <= Len(stream)
  /\ \A i \in 1..k : stream[i] = Word(n + i)
  /\ \A i \in (k + 1)..Len(stream) : stream[i] \in StreamEnds

(* Behind a stream that may be cut, what is missing was lost with it; what *)
(* was closed has the words up to all.                                     *)
Flows(stream, n, all, k) ==
  /\ Carries(stream, n, k)
  /\ n + k <= all /\ (k = Len(stream) => n + k = all)
  /\ (\E i \in 1..Len(stream) : stream[i] = EOF) => n + k = Words

WordsSent == IF sent <= Words THEN sent ELSE Words
WordsHandled == IF handler = "sends" THEN received - 1 ELSE received

TranslitTypes ==
  /\ serving \in BOOLEAN
  /\ sender \in {"none", "sends", "done", "panic"}
  /\ receiver \in {"none", "receives", "done", "error"}
  /\ handler \in {"none", "receives", "sends", "done"}
  /\ sent \in 0..(Words + 1) /\ received \in Nat
  /\ inStream \in Seq(Message) /\ outStream \in Seq(Message)
  /\ printed \in Seq(Nat)

(* Who is done has left the end in his stream.                             *)
PartsFit ==
  /\ sender = "none" => handler = "none" /\ receiver = "none"
  /\ sender \in {"sends", "done"} => receiver # "none" /\ handler # "none"
  /\ sender = "panic" => ~serving /\ receiver = "none" /\ handler = "none"
  /\ sender = "sends" => sent <= Words
  /\ sender = "done" => Ended(inStream)
  /\ handler = "done" => Ended(outStream)
  /\ handler = "none" => sent = 0 /\ inStream = <<>> /\ outStream = <<>>
  /\ handler = "sends" => received >= 1
  /\ receiver = "done" => Len(printed) = Words

InFlows == \E k \in Nat : Flows(inStream, received, WordsSent, k)
OutFlows == \E k \in Nat : Flows(outStream, Len(printed), WordsHandled, k)
PrintedInOrder == \A i \in 1..Len(printed) : printed[i] = i

TranslitInv ==
  /\ TranslitTypes /\ PartsFit /\ InFlows /\ OutFlows /\ PrintedInOrder

LEMMA WordsAreNotEnds ==
  /\ \A n : Word(n) \notin StreamEnds
  /\ \A m, n : Word(m) = Word(n) => m = n
  /\ \A n : Word(n)[2] = n
  /\ EOF \in StreamEnds /\ Broken \in StreamEnds /\ EOF # Broken
  BY DEF Word, StreamEnds, EOF, Broken

(* A stream that has not ended carries words only, and one that has ended  *)
(* not only words.                                                         *)
LEMMA EndedStreams ==
  ASSUME NEW s \in Seq(Message), NEW n \in Nat, NEW k \in Nat, Carries(s, n, k)
  PROVE  Ended(s) <=> k # Len(s)
<1>1. CASE s = <<>>
  BY <1>1 DEF Ended, Carries
<1>2. CASE s # <<>>
  <2>1. Len(s) \in Nat /\ Len(s) >= 1 /\ Last(s) = s[Len(s)]
    BY <1>2 DEF Last
  <2>2. CASE k = Len(s)
    <3>1. Last(s) = Word(n + k)
      BY <2>1, <2>2 DEF Carries
    <3> QED
      BY <2>2, <3>1, WordsAreNotEnds DEF Ended, StreamEnds
  <2>3. CASE k # Len(s)
    <3>1. Len(s) \in (k + 1)..Len(s)
      BY <2>1, <2>3 DEF Carries
    <3> QED
      BY <1>2, <2>1, <2>3, <3>1 DEF Ended, StreamEnds, Carries
  <2> QED
    BY <2>2, <2>3
<1> QED
  BY <1>1, <1>2

LEMMA PutStream ==
  ASSUME NEW s \in Seq(Message), NEW v \in Message
  PROVE  /\ Put(s, v) \in Seq(Message)
         /\ Ended(s) => Put(s, v) = s
         /\ ~Ended(s) =>
              /\ Len(Put(s, v)) = Len(s) + 1 /\ Put(s, v)[Len(s) + 1] = v
              /\ \A i \in 1..Len(s) : Put(s, v)[i] = s[i]
         /\ v \in StreamEnds => Ended(Put(s, v))
<1>1. /\ Put(s, v) \in Seq(Message)
      /\ Ended(s) => Put(s, v) = s
      /\ ~Ended(s) =>
           /\ Len(Put(s, v)) = Len(s) + 1 /\ Put(s, v)[Len(s) + 1] = v
           /\ \A i \in 1..Len(s) : Put(s, v)[i] = s[i]
  BY DEF Put
<1>2. ASSUME v \in StreamEnds PROVE Ended(Put(s, v))
  BY <1>1, <1>2 DEF Ended, Last, StreamEnds
<1> QED
  BY <1>1, <1>2

LEMMA PutWord ==
  ASSUME NEW s \in Seq(Message), NEW n \in Nat, NEW all \in Nat,
         NEW k \in Nat, Flows(s, n, all, k)
  PROVE  \E j \in Nat : Flows(Put(s, Word(all + 1)), n, all + 1, j)
<1> DEFINE v == Word(all + 1)
<1>0. Len(s) \in Nat /\ v \in Message
  BY DEF Message
<1> HIDE DEF v
<1>1. CASE Ended(s)
  <2>1. Put(s, v) = s
    BY <1>0, <1>1, PutStream
  <2>2. k # Len(s)
    BY <1>1, EndedStreams DEF Flows
  <2>3. Flows(s, n, all + 1, k)
    BY <2>2 DEF Flows
  <2> QED
    BY <2>1, <2>3 DEF v
<1>2. CASE ~Ended(s)
  <2>1. k = Len(s)
    BY <1>2, EndedStreams DEF Flows
  <2>2. n + k = all
    BY <2>1 DEF Flows
  <2> DEFINE p == Put(s, v)
  <2>3. /\ Len(p) = k + 1 /\ p[k + 1] = v
        /\ \A i \in 1..k : p[i] = s[i]
    BY <1>0, <1>2, <2>1, PutStream
  <2> HIDE DEF p
  <2>4. \A i \in 1..(k + 1) : p[i] = Word(n + i)
    <3>1. \A i \in 1..k : p[i] = Word(n + i)
      BY <2>3 DEF Flows, Carries
    <3>2. p[k + 1] = Word(n + (k + 1))
      BY <2>2, <2>3 DEF v
    <3>3. \A i \in 1..(k + 1) : i \in 1..k \/ i = k + 1
      OBVIOUS
    <3> QED
      BY <3>1, <3>2, <3>3
  <2>5. \A i \in 1..Len(p) : p[i] # EOF
    BY <2>3, <2>4, WordsAreNotEnds
  <2>6. Flows(p, n, all + 1, k + 1)
    BY <2>2, <2>3, <2>4, <2>5 DEF Flows, Carries
  <2> QED
    BY <2>6 DEF p, v
<1> QED
  BY <1>1, <1>2

LEMMA PutEnd ==
  ASSUME NEW s \in Seq(Message), NEW n \in Nat, NEW all \in Nat,
         NEW e \in StreamEnds, e = EOF => all = Words,
         NEW k \in Nat, Flows(s, n, all, k)
  PROVE  Flows(Put(s, e), n, all, k) /\ Ended(Put(s, e))
<1>0. Len(s) \in Nat /\ e \in Message
  BY DEF Message
<1>1. Ended(Put(s, e))
  BY <1>0, PutStream
<1>2. CASE Ended(s)
  BY <1>0, <1>1, <1>2, PutStream
<1>3. CASE ~Ended(s)
  <2>1. k = Len(s)
    BY <1>3, EndedStreams DEF Flows
  <2> DEFINE p == Put(s, e)
  <2>2. /\ Len(p) = k + 1 /\ p[k + 1] = e
        /\ \A i \in 1..k : p[i] = s[i]
    BY <1>0, <1>3, <2>1, PutStream
  <2> HIDE DEF p
  <2>3. Carries(p, n, k)
    BY <2>2 DEF Flows, Carries
  <2>4. (\E i \in 1..Len(p) : p[i] = EOF) => n + k = Words
    <3> SUFFICES ASSUME NEW i \in 1..Len(p), p[i] = EOF PROVE n + k = Words
      OBVIOUS
    <3>1. i = k + 1
      BY <2>2, <2>3, WordsAreNotEnds DEF Carries
    <3> QED
      BY <2>1, <2>2, <3>1 DEF Flows
  <2>5. Flows(p, n, all, k)
    BY <2>1, <2>2, <2>3, <2>4 DEF Flows
  <2> QED
    BY <1>1, <2>5 DEF p
<1> QED
  BY <1>2, <1>3

(* What the first message of a stream says.                                *)
LEMMA TakeMessage ==
  ASSUME NEW s \in Seq(Message), s # <<>>, NEW n \in Nat, NEW all \in Nat,
         NEW k \in Nat, Flows(s, n, all, k)
  PROVE  /\ Tail(s) \in Seq(Message)
         /\ Head(s) \notin StreamEnds =>
              /\ Head(s)[2] = n + 1 /\ n + 1 <= all
              /\ \E j \in Nat : Flows(Tail(s), n + 1, all, j)
              /\ Ended(s) => Ended(Tail(s))
         /\ Head(s) = EOF => n = Words
         /\ Head(s) \in StreamEnds => k = 0
<1> DEFINE t == Tail(s)
<1>1. /\ Len(s) \in Nat /\ Len(s) >= 1 /\ Head(s) = s[1]
      /\ t \in Seq(Message) /\ Len(t) = Len(s) - 1
      /\ \A i \in 1..Len(t) : t[i] = s[i + 1]
  BY HeadTailProperties
<1> HIDE DEF t
<1>2. ASSUME Head(s) \in StreamEnds PROVE k = 0
  BY <1>1, <1>2, WordsAreNotEnds DEF Flows, Carries
<1>3. ASSUME Head(s) = EOF PROVE n = Words
  <2>1. k = 0 /\ 1 \in 1..Len(s) /\ s[1] = EOF
    BY <1>1, <1>2, <1>3, WordsAreNotEnds
  <2>2. n + k = Words
    BY <2>1 DEF Flows
  <2> QED
    BY <2>1, <2>2
<1>4. ASSUME Head(s) \notin StreamEnds
      PROVE  /\ Head(s)[2] = n + 1 /\ n + 1 <= all
             /\ Flows(t, n + 1, all, k - 1) /\ k - 1 \in Nat
  <2>1. k >= 1
    BY <1>1, <1>4 DEF Flows, Carries
  <2>2. Head(s) = Word(n + 1)
    BY <1>1, <2>1 DEF Flows, Carries
  <2>3. Carries(t, n + 1, k - 1)
    <3>1. \A i \in 1..(k - 1) : t[i] = Word((n + 1) + i)
      <4> SUFFICES ASSUME NEW i \in 1..(k - 1) PROVE t[i] = Word((n + 1) + i)
        OBVIOUS
      <4>1. t[i] = s[i + 1] /\ s[i + 1] = Word(n + (i + 1))
        BY <1>1, <2>1 DEF Flows, Carries
      <4>2. n + (i + 1) = (n + 1) + i
        OBVIOUS
      <4> QED
        BY <4>1, <4>2
    <3>2. \A i \in ((k - 1) + 1)..Len(t) : t[i] \in StreamEnds
      BY <1>1, <2>1 DEF Flows, Carries
    <3> QED
      BY <1>1, <2>1, <3>1, <3>2 DEF Flows, Carries
  <2>4. (\E i \in 1..Len(t) : t[i] = EOF) => (n + 1) + (k - 1) = Words
    BY <1>1 DEF Flows
  <2>5. Flows(t, n + 1, all, k - 1)
    BY <1>1, <2>1, <2>3, <2>4 DEF Flows
  <2> QED
    BY <2>1, <2>2, <2>5, WordsAreNotEnds DEF Flows
<1>5. ASSUME Head(s) \notin StreamEnds, Ended(s) PROVE Ended(t)
  <2>1. k # Len(s) /\ k - 1 # Len(t)
    BY <1>1, <1>5, EndedStreams DEF Flows
  <2> QED
    BY <1>1, <1>4, <1>5, <2>1, EndedStreams DEF Flows
<1> QED
  BY <1>1, <1>2, <1>3, <1>4, <1>5 DEF t

LEMMA CutStream ==
  ASSUME NEW s \in Seq(Message), NEW n \in Nat, NEW all \in Nat,
         NEW k \in Nat, Flows(s, n, all, k), NEW c \in Cut(s)
  PROVE  /\ c \in Seq(Message) /\ Ended(c)
         /\ \E j \in Nat : Flows(c, n, all, j)
<1>1. PICK m \in 0..Len(s) : c = Append(SubSeq(s, 1, m), Broken)
  BY DEF Cut
<1> DEFINE p == SubSeq(s, 1, m)
<1>2. /\ p \in Seq(Message) /\ Len(p) = m /\ m \in Nat /\ m <= Len(s)
      /\ \A i \in 1..m : p[i] = s[i]
  BY SubSeqProperties
<1> HIDE DEF p
<1>3. /\ Broken \in Message /\ c = Append(p, Broken)
  BY <1>1 DEF p, Message, StreamEnds
<1>4. /\ c \in Seq(Message) /\ Len(c) = m + 1 /\ c[m + 1] = Broken
      /\ \A i \in 1..m : c[i] = s[i]
  BY <1>2, <1>3
<1>5. Ended(c)
  BY <1>2, <1>4 DEF Ended, Last
<1> DEFINE j == IF k <= m THEN k ELSE m
<1>6. Carries(c, n, j)
  <2>1. j \in Nat /\ j <= k /\ j <= m
    BY <1>2
  <2>2. \A i \in 1..j : c[i] = Word(n + i)
    BY <1>2, <1>4, <2>1 DEF Flows, Carries
  <2>3. ASSUME NEW i \in (j + 1)..Len(c) PROVE c[i] \in StreamEnds
    <3>1. CASE i = m + 1
      BY <1>4, <3>1, WordsAreNotEnds
    <3>2. CASE i # m + 1
      <4>1. i \in 1..m /\ i \in (k + 1)..Len(s)
        BY <1>2, <1>4, <2>3, <3>2
      <4> QED
        BY <1>4, <4>1 DEF Flows, Carries
    <3> QED
      BY <3>1, <3>2
  <2> QED
    BY <1>2, <1>4, <2>1, <2>2, <2>3 DEF Carries
<1>7. (\E i \in 1..Len(c) : c[i] = EOF) => n + j = Words
  <2> SUFFICES ASSUME NEW i \in 1..Len(c), c[i] = EOF PROVE n + j = Words
    OBVIOUS
  <2>1. i \in 1..m /\ s[i] = EOF
    BY <1>2, <1>4, WordsAreNotEnds
  <2>2. i \in 1..Len(s) /\ i > k
    BY <1>2, <2>1, WordsAreNotEnds DEF Flows, Carries
  <2> QED
    BY <2>1, <2>2 DEF Flows
<1>8. Flows(c, n, all, j)
  BY <1>2, <1>4, <1>6, <1>7 DEF Flows
<1> QED
  BY <1>2, <1>4, <1>5, <1>8

(* An ended stream flows whatever is behind its end.                       *)
LEMMA EndedFlows ==
  ASSUME NEW s \in Seq(Message), NEW n \in Nat, NEW all \in Nat,
         NEW more \in Nat, all <= more,
         NEW k \in Nat, Flows(s, n, all, k), Ended(s)
  PROVE  Flows(s, n, more, k)
<1>1. k # Len(s)
  BY EndedStreams DEF Flows
<1> QED
  BY <1>1 DEF Flows

LEMMA TranslitInvNext ==
  TranslitInv /\ [TranslitNext]_translitVars => TranslitInv'
<1> SUFFICES ASSUME TranslitInv, [TranslitNext]_translitVars PROVE TranslitInv'
  OBVIOUS
<1> USE TranslitAssumption
<1>1. /\ TranslitTypes /\ PartsFit /\ PrintedInOrder
      /\ WordsSent \in Nat /\ WordsHandled \in Nat /\ Len(printed) \in Nat
      /\ received \in Nat
  BY DEF TranslitInv, TranslitTypes, PartsFit, WordsSent, WordsHandled
<1>2. PICK k \in Nat : Flows(inStream, received, WordsSent, k)
  BY DEF TranslitInv, InFlows
<1>3. PICK m \in Nat : Flows(outStream, Len(printed), WordsHandled, m)
  BY DEF TranslitInv, OutFlows
<1>4. inStream \in Seq(Message) /\ outStream \in Seq(Message)
  BY <1>1 DEF TranslitTypes
<1>5. (UNCHANGED <<inStream, received, sent>> => InFlows')
      /\ (UNCHANGED <<outStream, printed, handler, received>> => OutFlows')
      /\ (UNCHANGED printed => PrintedInOrder')
  BY <1>1, <1>2, <1>3 DEF InFlows, OutFlows, WordsSent, WordsHandled,
     PrintedInOrder
<1>6. CASE EnRu
  <2>1. InFlows' /\ PrintedInOrder'
    BY <1>5, <1>6 DEF EnRu
  <2>2. OutFlows'
    <3>1. WordsHandled' = WordsHandled /\ UNCHANGED <<outStream, printed>>
      BY <1>1, <1>6 DEF EnRu, PartsFit, WordsHandled
    <3> QED
      BY <1>3, <3>1 DEF OutFlows
  <2>3. TranslitTypes' /\ PartsFit'
    BY <1>1, <1>6 DEF EnRu, TranslitTypes, PartsFit, Ended
  <2> QED
    BY <2>1, <2>2, <2>3 DEF TranslitInv
<1>7. CASE Sender
  <2>1. OutFlows' /\ PrintedInOrder'
    BY <1>5, <1>7 DEF Sender
  <2>2. sent \in Nat /\ sent <= Words /\ WordsSent = sent /\ sent' = sent + 1
    BY <1>1, <1>7 DEF Sender, TranslitTypes, PartsFit, WordsSent
  <2>3. CASE sent' <= Words
    <3>1. inStream' = Put(inStream, Word(WordsSent + 1))
          /\ WordsSent' = WordsSent + 1 /\ UNCHANGED received
      BY <1>7, <2>2, <2>3 DEF Sender, WordsSent
    <3>2. InFlows'
      BY <1>1, <1>2, <1>4, <3>1, PutWord DEF InFlows
    <3>3. inStream' \in Seq(Message)
      BY <1>1, <1>4, <3>1, PutStream DEF Message
    <3>4. TranslitTypes' /\ PartsFit'
      BY <1>1, <1>7, <2>2, <2>3, <3>3
      DEF Sender, TranslitTypes, PartsFit, Ended
    <3> QED
      BY <2>1, <3>2, <3>4 DEF TranslitInv
  <2>4. CASE ~(sent' <= Words)
    <3>1. inStream' = Put(inStream, EOF) /\ sender' = "done"
          /\ WordsSent' = WordsSent /\ WordsSent = Words /\ UNCHANGED received
      BY <1>7, <2>2, <2>4 DEF Sender, WordsSent
    <3>2. InFlows' /\ Ended(inStream')
      BY <1>1, <1>2, <1>4, <3>1, PutEnd, WordsAreNotEnds DEF InFlows
    <3>3. inStream' \in Seq(Message)
      BY <1>4, <3>1, PutStream, WordsAreNotEnds DEF Message
    <3>4. TranslitTypes' /\ PartsFit'
      BY <1>1, <1>7, <2>2, <2>4, <3>1, <3>2, <3>3
      DEF Sender, TranslitTypes, PartsFit, Ended
    <3> QED
      BY <2>1, <3>2, <3>4 DEF TranslitInv
  <2> QED
    BY <2>3, <2>4
<1>8. CASE HandlerReceives
  <2> DEFINE got == Head(inStream)
  <2>1. /\ handler = "receives" /\ inStream # <<>>
        /\ UNCHANGED <<serving, sender, receiver, sent, printed>>
    BY <1>8 DEF HandlerReceives
  <2>2. PrintedInOrder'
    BY <1>5, <2>1
  <2>3. CASE got \in StreamEnds
    <3>1. /\ handler' = "done" /\ outStream' = Put(outStream, got)
          /\ UNCHANGED <<inStream, received>>
      BY <1>8, <2>3 DEF HandlerReceives, StreamEnds
    <3>2. InFlows'
      BY <1>5, <2>1, <3>1
    <3>3. WordsHandled = received /\ WordsHandled' = WordsHandled
      BY <2>1, <3>1 DEF WordsHandled
    <3>4. got = EOF => WordsHandled = Words
      BY <1>1, <1>2, <1>4, <2>1, <3>3, TakeMessage
    <3> HIDE DEF got
    <3>5. OutFlows' /\ Ended(outStream')
      BY <1>1, <1>3, <1>4, <2>1, <2>3, <3>1, <3>3, <3>4, PutEnd DEF OutFlows
    <3>6. outStream' \in Seq(Message)
      BY <1>4, <2>3, <3>1, PutStream DEF Message
    <3>7. TranslitTypes' /\ PartsFit'
      BY <1>1, <2>1, <3>1, <3>5, <3>6 DEF TranslitTypes, PartsFit, Ended
    <3> QED
      BY <2>2, <3>2, <3>5, <3>7 DEF TranslitInv
  <2>4. CASE got \notin StreamEnds
    <3>1. /\ handler' = "sends" /\ received' = got[2]
          /\ inStream' = Tail(inStream) /\ UNCHANGED outStream
      BY <1>8, <2>4 DEF HandlerReceives, StreamEnds
    <3>2. /\ got[2] = received + 1 /\ received + 1 <= WordsSent
          /\ \E j \in Nat : Flows(Tail(inStream), received + 1, WordsSent, j)
          /\ Ended(inStream) => Ended(Tail(inStream))
          /\ Tail(inStream) \in Seq(Message)
      BY <1>1, <1>2, <1>4, <2>1, <2>4, TakeMessage
    <3> HIDE DEF got
    <3>3. InFlows'
      BY <2>1, <3>1, <3>2 DEF InFlows, WordsSent
    <3>4. OutFlows'
      <4>1. WordsHandled' = WordsHandled
        BY <1>1, <2>1, <3>1, <3>2 DEF WordsHandled
      <4> QED
        BY <1>3, <2>1, <3>1, <4>1 DEF OutFlows
    <3>5. Ended(inStream) => Ended(inStream')
      BY <3>1, <3>2
    <3> HIDE DEF Ended
    <3>6. TranslitTypes' /\ PartsFit'
      BY <1>1, <2>1, <3>1, <3>2, <3>5 DEF TranslitTypes, PartsFit
    <3> QED
      BY <2>2, <3>3, <3>4, <3>6 DEF TranslitInv
  <2> QED
    BY <2>3, <2>4
<1>9. CASE HandlerSends
  <2>1. /\ handler = "sends" /\ handler' = "receives"
        /\ outStream' = Put(outStream, Word(received))
        /\ UNCHANGED <<serving, sender, receiver, sent, received, inStream,
                       printed>>
    BY <1>9 DEF HandlerSends
  <2>2. InFlows' /\ PrintedInOrder'
    BY <1>5, <2>1
  <2>3. WordsHandled' = WordsHandled + 1 /\ received = WordsHandled + 1
    BY <1>1, <2>1 DEF WordsHandled
  <2>4. OutFlows'
    BY <1>1, <1>3, <1>4, <2>1, <2>3, PutWord DEF OutFlows
  <2>5. outStream' \in Seq(Message)
    BY <1>1, <1>4, <2>1, PutStream DEF Message
  <2>6. TranslitTypes' /\ PartsFit'
    BY <1>1, <2>1, <2>5 DEF TranslitTypes, PartsFit, Ended
  <2> QED
    BY <2>2, <2>4, <2>6 DEF TranslitInv
<1>10. CASE Receiver
  <2> DEFINE got == Head(outStream)
  <2>1. /\ receiver = "receives" /\ outStream # <<>>
        /\ UNCHANGED <<serving, sender, handler, sent, received, inStream>>
    BY <1>10 DEF Receiver
  <2>2. InFlows'
    BY <1>5, <2>1
  <2>3. CASE got \in StreamEnds
    <3>1. /\ receiver' = IF got = EOF THEN "done" ELSE "error"
          /\ UNCHANGED <<outStream, printed>>
      BY <1>10, <2>3 DEF Receiver, StreamEnds
    <3>2. OutFlows' /\ PrintedInOrder'
      BY <1>5, <2>1, <3>1
    <3>3. got = EOF => Len(printed) = Words
      BY <1>1, <1>3, <1>4, <2>1, TakeMessage
    <3> HIDE DEF got
    <3>4. TranslitTypes' /\ PartsFit'
      BY <1>1, <2>1, <3>1, <3>3 DEF TranslitTypes, PartsFit, Ended
    <3> QED
      BY <2>2, <3>2, <3>4 DEF TranslitInv
  <2>4. CASE got \notin StreamEnds
    <3>1. /\ printed' = Append(printed, got[2])
          /\ outStream' = Tail(outStream) /\ UNCHANGED receiver
      BY <1>10, <2>4 DEF Receiver, StreamEnds
    <3>2. /\ got[2] = Len(printed) + 1
          /\ \E j \in Nat :
               Flows(Tail(outStream), Len(printed) + 1, WordsHandled, j)
          /\ Ended(outStream) => Ended(Tail(outStream))
          /\ Tail(outStream) \in Seq(Message)
      BY <1>1, <1>3, <1>4, <2>1, <2>4, TakeMessage
    <3> HIDE DEF got
    <3>3. /\ printed' \in Seq(Nat) /\ Len(printed') = Len(printed) + 1
          /\ PrintedInOrder'
      BY <1>1, <3>1, <3>2 DEF TranslitTypes, PrintedInOrder
    <3>4. OutFlows'
      BY <2>1, <3>1, <3>2, <3>3 DEF OutFlows, WordsHandled
    <3>5. Ended(outStream) => Ended(outStream')
      BY <3>1, <3>2
    <3>6. TranslitTypes'
      BY <1>1, <2>1, <3>1, <3>2, <3>3 DEF TranslitTypes
    <3>7. PartsFit'
      BY <1>1, <2>1, <3>1, <3>5 DEF PartsFit, Ended
    <3> QED
      BY <2>2, <3>3, <3>4, <3>6, <3>7 DEF TranslitInv
  <2> QED
    BY <2>3, <2>4
<1>11. CASE ConnectionBreaks
  <2>1. /\ serving /\ handler # "none"
        /\ inStream' \in Cut(inStream) /\ outStream' \in Cut(outStream)
        /\ handler' = handler \/ handler' = "done"
        /\ serving' = serving \/ serving' = FALSE
        /\ UNCHANGED <<sender, receiver, sent, received, printed>>
    BY <1>11 DEF ConnectionBreaks
  <2>2. /\ inStream' \in Seq(Message) /\ Ended(inStream')
        /\ \E j \in Nat : Flows(inStream', received, WordsSent, j)
    BY <1>1, <1>2, <1>4, <2>1, CutStream
  <2>3. /\ outStream' \in Seq(Message) /\ Ended(outStream')
        /\ \E j \in Nat : Flows(outStream', Len(printed), WordsHandled, j)
    BY <1>1, <1>3, <1>4, <2>1, CutStream
  <2>4. InFlows' /\ PrintedInOrder'
    BY <1>5, <2>1, <2>2 DEF InFlows, WordsSent
  <2>5. OutFlows'
    <3>1. WordsHandled' \in Nat /\ WordsHandled <= WordsHandled'
      BY <1>1, <2>1 DEF WordsHandled
    <3> QED
      BY <1>1, <2>1, <2>3, <3>1, EndedFlows DEF OutFlows
  <2>6. TranslitTypes' /\ PartsFit'
    BY <1>1, <2>1, <2>2, <2>3 DEF TranslitTypes, PartsFit, Ended
  <2> QED
    BY <2>4, <2>5, <2>6 DEF TranslitInv
<1>12. CASE UNCHANGED translitVars
  BY <1>1, <1>5, <1>12 DEF TranslitInv, translitVars, TranslitTypes,
                          PartsFit, Ended
<1> QED
  BY <1>6, <1>7, <1>8, <1>9, <1>10, <1>11, <1>12 DEF TranslitNext

LEMMA TranslitInvariant == TranslitSpec => []TranslitInv
<1>1. TranslitInit => TranslitInv
  <2> SUFFICES ASSUME TranslitInit PROVE TranslitInv
    OBVIOUS
  <2>1. Flows(<<>>, 0, 0, 0)
    BY DEF Flows, Carries
  <2>2. InFlows /\ OutFlows
    BY <2>1, TranslitAssumption
    DEF TranslitInit, InFlows, OutFlows, WordsSent, WordsHandled
  <2>3. TranslitTypes /\ PartsFit /\ PrintedInOrder
    BY TranslitAssumption
    DEF TranslitInit, TranslitTypes, PartsFit, PrintedInOrder, Ended
  <2> QED
    BY <2>2, <2>3 DEF TranslitInv
<1> QED
  BY <1>1, TranslitInvNext, PTL DEF TranslitSpec

(* The words of the stream come back in their order, all of them before    *)
(* the client ends well, and nobody waits for ever.                        *)
THEOREM WordsComeBackCorrect == TranslitSpec => []WordsComeBack
<1>1. TranslitInv => WordsComeBack
  <2> SUFFICES ASSUME TranslitInv PROVE WordsComeBack
    OBVIOUS
  <2>1. TranslitTypes /\ PartsFit /\ PrintedInOrder
    BY DEF TranslitInv
  <2>2. printed = [i \in 1..Len(printed) |-> i]
    BY <2>1 DEF TranslitTypes, PrintedInOrder
  <2>3. \/ SomebodyGoesOn
        \/ sender = "done" /\ receiver \in {"done", "error"}
        \/ sender = "panic" /\ ~serving
    BY <2>1 DEF TranslitTypes, PartsFit, SomebodyGoesOn, Ended
  <2> QED
    BY <2>1, <2>2, <2>3 DEF PartsFit, WordsComeBack
<1> QED
  BY <1>1, TranslitInvariant, PTL

-----------------------------------------------------------------------------
(* Items: a step changes the row of its request.                           *)

GormSteps == {"find", "insert", "save", "first", "create"}

(* What a request in its steps is about, and that ids are not given twice; *)
(* but for gorm, whose Save brings ids back.                               *)
ItemsInv ==
  /\ database \in {"mysql", "gorm", "mongodb"}
  /\ lastId \in Nat /\ DOMAIN items \subseteq 1..lastId
  /\ removed \subseteq 1..lastId /\ 1..lastId \subseteq DOMAIN items \cup removed
  /\ database # "gorm" => removed \cap DOMAIN items = {}
  /\ DOMAIN step = Visitor /\ DOMAIN visit = Visitor /\ DOMAIN shown = Visitor
  /\ \A v \in Visitor : step[v] # "none" =>
       /\ step[v] \in {"handle"} \cup GormSteps
       /\ visit[v].op \in {"list", "add", "edit", "delete", "update"}
       /\ visit[v].id \in 0..lastId
       /\ step[v] \in GormSteps => database = "gorm" /\ visit[v].op = "update"
       /\ step[v] = "handle" => ~(database = "gorm" /\ visit[v].op = "update")
       /\ step[v] \in {"save", "first", "create"} => visit[v].id > 0
       /\ step[v] = "insert" => MayMiss(v)
       /\ shown[v] = Nothing

(* What a statement makes of the ids: none is given back but by gorm, and  *)
(* a new one has a row.                                                    *)
KeepsIds(R) ==
  /\ R.last \in Nat /\ R.last >= lastId
  /\ DOMAIN R.items \subseteq 1..R.last
  /\ (lastId + 1)..R.last \subseteq DOMAIN R.items
  /\ database # "gorm" => \A i \in DOMAIN R.items \ DOMAIN items : i > lastId

LEMMA SameKeeps ==
  ASSUME ItemsInv, NEW p
  PROVE  KeepsIds(Same(p))
  BY DEF ItemsInv, KeepsIds, Same, Result

LEMMA WritesKeep ==
  ASSUME ItemsInv, NEW p, NEW f, DOMAIN f = DOMAIN items
  PROVE  KeepsIds(Result(f, lastId, p))
  BY DEF ItemsInv, KeepsIds, Result

LEMMA RemovesKeep ==
  ASSUME ItemsInv, NEW p, NEW ids
  PROVE  KeepsIds(Result(Removed(ids), lastId, p))
  BY DEF ItemsInv, KeepsIds, Result, Removed, Restrict

LEMMA InsertKeeps ==
  ASSUME ItemsInv, NEW row, NEW i \in Nat, i > 0,
         i = lastId + 1 \/ (database = "gorm" /\ i <= lastId)
  PROVE  KeepsIds(Insert(i, row))
  <1>1. Insert(i, row).last = (IF i > lastId THEN i ELSE lastId)
    BY DEF Insert, Result
  <1>2. DOMAIN Insert(i, row).items = {i} \cup DOMAIN items
    BY DEF Insert, Result, With
  <1> QED BY <1>1, <1>2 DEF ItemsInv, KeepsIds

(* The rows that a result has and the table has not, or otherwise.         *)
Differ(R) == {i \in DOMAIN items \cup DOMAIN R.items :
                ~(i \in DOMAIN items \cap DOMAIN R.items
                  /\ items[i] = R.items[i])}

LEMMA SameDiffers ==
  ASSUME NEW p
  PROVE  Differ(Same(p)) = {} /\ Same(p).shown = p
  BY DEF Differ, Same, Result

LEMMA InsertDiffers ==
  ASSUME NEW i, NEW row
  PROVE  /\ Differ(Insert(i, row)) \subseteq {i}
         /\ Insert(i, row).last = (IF i > lastId THEN i ELSE lastId)
         /\ i \in DOMAIN Insert(i, row).items
         /\ Insert(i, row).items[i] = row
         /\ Insert(i, row).shown = Redirect
  BY DEF Differ, Insert, Result, With

LEMMA RemoveDiffers ==
  ASSUME NEW ids, NEW p
  PROVE  /\ Differ(Result(Removed(ids), lastId, p)) \subseteq ids
         /\ Differ(Result(Removed(ids), lastId, p)) \subseteq DOMAIN items
  BY DEF Differ, Result, Removed, Restrict

-----------------------------------------------------------------------------
(* What Handle makes of a request: the ids, and the rows the request is    *)
(* about.                                                                  *)
Own(v, R) ==
  CASE visit[v].op \in {"list", "edit"} -> {}
    [] visit[v].op = "add" -> (lastId + 1)..R.last
    [] visit[v].op = "delete" ->
         IF database = "gorm" /\ visit[v].id = 0 THEN DOMAIN items
         ELSE {visit[v].id}
    [] visit[v].op = "update" ->
         IF step[v] = "insert" THEN (lastId + 1)..R.last ELSE {visit[v].id}

Answered(v, R) ==
  visit[v].op = "update" /\ R.shown = Redirect =>
    \/ /\ visit[v].id \in DOMAIN R.items
       /\ R.items[visit[v].id].text = visit[v].text
    \/ /\ database # "gorm"
       /\ visit[v].id \notin DOMAIN items
    \/ /\ step[v] = "insert"
       /\ \E i \in (lastId + 1)..R.last : R.items[i].text = visit[v].text
    \/ step[v] = "first"

GoodResult(v, R) ==
  KeepsIds(R) /\ Differ(R) \subseteq Own(v, R) /\ Answered(v, R)

LEMMA HandleGood ==
  ASSUME ItemsInv, NEW v \in Visitor, step[v] = "handle"
  PROVE  GoodResult(v, Handle(visit[v]))
  <1> DEFINE r == visit[v]
             op == r.op
             R == Handle(r)
  <1>0. /\ op \in {"list", "add", "edit", "delete", "update"}
        /\ r.id \in 0..lastId
        /\ lastId \in Nat
        /\ database \in {"mysql", "gorm", "mongodb"}
        /\ ~(database = "gorm" /\ op = "update")
    BY DEF ItemsInv, GormSteps
  <1>1. CASE op \in {"list", "edit"}
    <2>1. \E p : R = Same(p)
      BY <1>0, <1>1 DEF Handle, MysqlList, MysqlEdit, GormList, GormEdit,
                        MongoList, MongoEdit
    <2>2. PICK p : R = Same(p)
      BY <2>1
    <2>3. KeepsIds(R)
      BY <2>2, SameKeeps
    <2>4. Differ(R) = {}
      BY <2>2, SameDiffers
    <2>5. Answered(v, R)
      BY <1>1 DEF Answered
    <2> QED BY <2>3, <2>4, <2>5 DEF GoodResult
  <1>2. CASE op = "add"
    <2>1. R = Insert(lastId + 1, Row(r.text, ""))
      <3>1. CASE database = "mysql"
        BY <1>2, <3>1 DEF Handle, MysqlAdd
      <3>2. CASE database = "gorm"
        BY <1>2, <3>2 DEF Handle, GormAdd
      <3>3. CASE database = "mongodb"
        BY <1>2, <3>3 DEF Handle, MongoAdd
      <3> QED BY <1>0, <3>1, <3>2, <3>3
    <2>2. KeepsIds(R)
      <3> DEFINE row == Row(r.text, "")
                 i == lastId + 1
      <3>1. /\ i \in Nat /\ i > 0 /\ i = lastId + 1
        BY <1>0
      <3>2. KeepsIds(Insert(i, row))
        <4> HIDE DEF row, i
        <4> QED BY <3>1, InsertKeeps
      <3> QED BY <2>1, <3>2
    <2>3. Differ(R) \subseteq (lastId + 1)..R.last
      <3> DEFINE row == Row(r.text, "")
      <3>0. R = Insert(lastId + 1, row)
        BY <2>1
      <3> HIDE DEF row, R
      <3>1. Differ(R) \subseteq {lastId + 1}
        BY <3>0, InsertDiffers
      <3>2. R.last = lastId + 1
        BY <1>0, <3>0, InsertDiffers
      <3> QED BY <1>0, <3>1, <3>2
    <2>4. Own(v, R) = (lastId + 1)..R.last
      BY <1>2 DEF Own
    <2>5. Answered(v, R)
      BY <1>2 DEF Answered
    <2> QED BY <2>2, <2>3, <2>4, <2>5 DEF GoodResult
  <1>3. CASE op = "delete"
    <2> DEFINE ids == IF database = "gorm"
                      THEN IF r.id = 0 THEN DOMAIN items
                                       ELSE {r.id} \cap DOMAIN items
                      ELSE {r.id}
    <2>1. \E p : R = Result(Removed(ids), lastId, p)
      BY <1>0, <1>3 DEF Handle, MysqlDelete, GormDelete, MongoDelete
    <2>2. PICK p : R = Result(Removed(ids), lastId, p)
      BY <2>1
    <2>3. ids \subseteq Own(v, R)
      BY <1>3 DEF Own
    <2> HIDE DEF ids, R
    <2>4. KeepsIds(R)
      BY <2>2, RemovesKeep
    <2>5. Differ(R) \subseteq ids
      BY <2>2, RemoveDiffers
    <2>6. Answered(v, R)
      BY <1>3 DEF Answered
    <2>7. GoodResult(v, R)
      BY <2>3, <2>4, <2>5, <2>6 DEF GoodResult
    <2> QED BY <2>7 DEF R
  <1>4. CASE op = "update"
    <2> DEFINE i == r.id
               row == Row(r.text, "rvasily")
    <2>1. R = Result(IF Given(i) THEN [items EXCEPT ![i] = row] ELSE items,
                     lastId, Redirect)
      BY <1>0, <1>4 DEF Handle, MysqlUpdate, MongoUpdate
    <2>2. row.text = r.text
      BY DEF Row
    <2>3. Own(v, R) = {i}
      BY <1>4 DEF Own
    <2>4. database # "gorm"
      BY <1>0, <1>4
    <2>5. ASSUME i \in DOMAIN items => i \in DOMAIN R.items
                                         /\ R.items[i] = row
          PROVE  Answered(v, R)
      BY <2>2, <2>4, <2>5 DEF Answered
    <2> HIDE DEF i, row, R
    <2>6. KeepsIds(R)
      <3> DEFINE f == IF Given(i) THEN [items EXCEPT ![i] = row] ELSE items
      <3>1. DOMAIN f = DOMAIN items
        OBVIOUS
      <3>2. R = Result(f, lastId, Redirect)
        BY <2>1
      <3> HIDE DEF f
      <3> QED BY <3>1, <3>2, WritesKeep
    <2>7. /\ Differ(R) \subseteq {i}
          /\ Given(i) => i \in DOMAIN R.items /\ R.items[i] = row
      <3>1. CASE Given(i)
        BY <2>1, <3>1 DEF Differ, Result, Given
      <3>2. CASE ~Given(i)
        BY <2>1, <3>2 DEF Differ, Result
      <3> QED BY <3>1, <3>2
    <2>8. Answered(v, R)
      BY <2>5, <2>7 DEF Given
    <2>9. GoodResult(v, R)
      BY <2>3, <2>6, <2>7, <2>8 DEF GoodResult
    <2> QED BY <2>9 DEF R
  <1> QED BY <1>0, <1>1, <1>2, <1>3, <1>4

(* What is executed is one of such results, kept or not, and ends the      *)
(* request.                                                                *)
Did(v, R) ==
  /\ items' = R.items /\ lastId' = R.last
  /\ removed' = removed \cup (DOMAIN items \ DOMAIN R.items)
  /\ step' = [step EXCEPT ![v] = "none"]
  /\ database' = database /\ visit' = visit
  /\ cut \subseteq cut'
  /\ DOMAIN shown' = Visitor
  /\ \A w \in Visitor : w # v => shown'[w] = shown[w]

LEMMA DidKeepsInv ==
  ASSUME ItemsInv, NEW v \in Visitor, NEW R, Did(v, R), KeepsIds(R)
  PROVE  ItemsInv' /\ (DOMAIN items' \cap removed # {} => database = "gorm")
  <1>1. /\ lastId' \in Nat /\ lastId' >= lastId
        /\ DOMAIN items' \subseteq 1..lastId'
        /\ database # "gorm" =>
             \A i \in DOMAIN items' \ DOMAIN items : i > lastId
        /\ removed' = removed \cup (DOMAIN items \ DOMAIN items')
    BY DEF Did, KeepsIds
  <1>2. /\ lastId \in Nat /\ DOMAIN items \subseteq 1..lastId
        /\ removed \subseteq 1..lastId
        /\ database # "gorm" => removed \cap DOMAIN items = {}
    BY DEF ItemsInv
  <1>3. removed' \subseteq 1..lastId'
    <2>1. 1..lastId \subseteq 1..lastId'
      BY <1>1, <1>2
    <2> QED BY <1>1, <1>2, <2>1
  <1>4. database # "gorm" => removed \cap DOMAIN items' = {}
    <2> SUFFICES ASSUME database # "gorm", NEW i \in removed,
                        i \in DOMAIN items'
                 PROVE  FALSE
      OBVIOUS
    <2>1. i \notin DOMAIN items /\ i \in 1..lastId
      BY <1>2
    <2> QED BY <1>1, <1>2, <2>1
  <1>5. database # "gorm" => removed' \cap DOMAIN items' = {}
    BY <1>1, <1>4
  <1>6. /\ DOMAIN step' = Visitor /\ DOMAIN visit' = Visitor
        /\ step'[v] = "none"
        /\ \A w \in Visitor : w # v => step'[w] = step[w]
        /\ visit' = visit /\ database' = database
    BY DEF ItemsInv, Did
  <1>7. \A w \in Visitor : visit[w].id \in 0..lastId =>
                            visit[w].id \in 0..lastId'
    BY <1>1, <1>2
  <1>8. /\ DOMAIN shown' = Visitor
        /\ \A w \in Visitor : w # v => shown'[w] = shown[w]
    BY DEF Did
  <1>9. 1..lastId' \subseteq DOMAIN items' \cup removed'
    <2> SUFFICES ASSUME NEW i \in 1..lastId'
                 PROVE  i \in DOMAIN items' \cup removed'
      OBVIOUS
    <2>1. CASE i \in 1..lastId
      BY <1>1, <2>1 DEF ItemsInv
    <2>2. CASE i \notin 1..lastId
      <3>1. i \in (lastId + 1)..lastId'
        BY <1>1, <1>2, <2>2
      <3> QED BY <3>1 DEF Did, KeepsIds
    <2> QED BY <2>1, <2>2
  <1>10. \A w \in Visitor : MayMiss(w) => MayMiss(w)'
    BY <1>1, <1>6 DEF MayMiss, Did
  <1>11. ItemsInv'
    BY <1>1, <1>3, <1>5, <1>6, <1>7, <1>8, <1>9, <1>10 DEF ItemsInv
  <1> QED BY <1>4, <1>11

LEMMA DidIsOwn ==
  ASSUME ItemsInv, NEW v \in Visitor, NEW R, Did(v, R), GoodResult(v, R),
         step[v] # "none",
         shown'[v] = R.shown \/ shown'[v] # Redirect
  PROVE  ItemsInv' /\ ItsOwn(v)
  <1>1. ItemsInv' /\ (DOMAIN items' \cap removed # {} => database = "gorm")
    BY DidKeepsInv DEF GoodResult
  <1>2. Changed = Differ(R)
    BY DEF Changed, Differ, Did
  <1>3. lastId' = R.last /\ items' = R.items
    BY DEF Did
  <1>4. Changed \subseteq Own(v, R)
    BY <1>2 DEF GoodResult
  <1>5. Answered(v, R)
    BY DEF GoodResult
  <1>6. step[v] = "insert" => MayMiss(v)
    BY DEF ItemsInv
  <1>7. MayMiss(v) => visit[v].op = "update"
    BY DEF MayMiss
  <1>8. New = (lastId + 1)..R.last
    BY <1>3 DEF New
  <1> QED BY <1>1, <1>3, <1>4, <1>5, <1>6, <1>7, <1>8 DEF ItsOwn, Own, Answered

(* A page is no redirect.                                                  *)
LEMMA PagesDiffer ==
  /\ Aborted # Redirect /\ Nothing # Redirect /\ Status500 # Redirect
  /\ \A x : Page(x) # Redirect
  BY DEF Aborted, Nothing, Status500, Redirect, Page

LEMMA SameGood ==
  ASSUME ItemsInv, NEW v \in Visitor, NEW p, p # Redirect
  PROVE  GoodResult(v, Same(p))
  BY SameKeeps, SameDiffers DEF GoodResult, Answered

LEMMA InsertGood ==
  ASSUME ItemsInv, NEW v \in Visitor, NEW i \in Nat, NEW row, i > 0,
         i = lastId + 1 \/ (database = "gorm" /\ i <= lastId),
         visit[v].op = "update",
         \/ /\ step[v] = "insert"
            /\ i = lastId + 1 /\ row.text = visit[v].text
         \/ /\ step[v] = "create"
            /\ visit[v].id = i /\ row.text = visit[v].text
  PROVE  GoodResult(v, Insert(i, row))
  <1> DEFINE R == Insert(i, row)
             id == visit[v].id
  <1>0. lastId \in Nat
    BY DEF ItemsInv
  <1>1. KeepsIds(R)
    BY InsertKeeps
  <1>2. /\ Differ(R) \subseteq {i}
        /\ R.last = (IF i > lastId THEN i ELSE lastId)
        /\ i \in DOMAIN R.items /\ R.items[i] = row
    BY InsertDiffers
  <1> HIDE DEF R
  <1>3. Differ(R) \subseteq Own(v, R)
    <2>1. CASE step[v] = "insert"
      BY <1>0, <1>2, <2>1 DEF Own
    <2>2. CASE step[v] = "create"
      BY <1>2, <2>2 DEF Own
    <2> QED BY <2>1, <2>2
  <1>4. Answered(v, R)
    <2>1. CASE step[v] = "insert"
      <3>1. i \in (lastId + 1)..R.last /\ R.items[i].text = visit[v].text
        BY <1>0, <1>2, <2>1
      <3> QED BY <2>1, <3>1 DEF Answered
    <2>2. CASE step[v] = "create"
      BY <1>2, <2>2 DEF Answered
    <2> QED BY <2>1, <2>2
  <1>5. GoodResult(v, R)
    BY <1>1, <1>3, <1>4 DEF GoodResult
  <1> QED BY <1>5 DEF R

(* What any statement makes of its request.                                *)
LEMMA StatementGood ==
  ASSUME ItemsInv, NEW v \in Visitor, step[v] # "none"
  PROVE  GoodResult(v, Statement(v))
  <1> DEFINE r == visit[v]
             i == r.id
             new == Row(r.text, "rvasily")
             R == Result([items EXCEPT ![i] = new], lastId, Redirect)
  <1>0. /\ lastId \in Nat /\ i \in 0..lastId
        /\ step[v] \in {"handle"} \cup GormSteps
        /\ step[v] \in GormSteps => database = "gorm" /\ r.op = "update"
        /\ step[v] \in {"save", "create"} => i > 0
        /\ new.text = r.text
    BY DEF ItemsInv, Row
  <1>1. CASE step[v] = "handle"
    <2>1. Statement(v) = Handle(visit[v])
      BY <1>1 DEF Statement
    <2> QED BY <1>1, <2>1, HandleGood
  <1>2. CASE step[v] = "insert"
    <2>1. Statement(v) = Insert(lastId + 1, new)
      BY <1>2 DEF Statement
    <2>2. lastId + 1 \in Nat /\ lastId + 1 > 0 /\ r.op = "update"
      BY <1>0, <1>2 DEF GormSteps
    <2> HIDE DEF new
    <2>3. GoodResult(v, Insert(lastId + 1, new))
      BY <1>0, <1>2, <2>2, InsertGood
    <2> QED BY <2>1, <2>3
  <1>3. CASE step[v] = "save" /\ Given(i)
    <2> DEFINE f == [items EXCEPT ![i] = new]
    <2>1. Statement(v) = R
      BY <1>3 DEF Statement
    <2>2. KeepsIds(R)
      <3>1. DOMAIN f = DOMAIN items
        OBVIOUS
      <3> HIDE DEF f
      <3> QED BY <3>1, WritesKeep
    <2>3. Differ(R) \subseteq {i}
      BY DEF Differ, Result
    <2>4. i \in DOMAIN R.items /\ R.items[i].text = r.text
      BY <1>0, <1>3 DEF Result, Given
    <2> HIDE DEF R
    <2>5. Differ(R) \subseteq Own(v, R)
      BY <1>0, <1>3, <2>3 DEF Own, GormSteps
    <2>6. Answered(v, R)
      BY <2>4 DEF Answered
    <2> QED BY <2>1, <2>2, <2>5, <2>6 DEF GoodResult
  <1>4. CASE step[v] = "create" /\ ~Given(i)
    <2>1. Statement(v) = Insert(i, new)
      BY <1>4 DEF Statement
    <2>2. r.op = "update" /\ database = "gorm" /\ i \in Nat /\ i > 0 /\ i <= lastId
      BY <1>0, <1>4 DEF GormSteps
    <2> HIDE DEF new
    <2>3. GoodResult(v, Insert(i, new))
      BY <1>0, <1>4, <2>2, InsertGood
    <2> QED BY <2>1, <2>3
  <1>5. CASE /\ step[v] \notin {"handle", "insert"}
             /\ ~(step[v] = "save" /\ Given(i))
             /\ ~(step[v] = "create" /\ ~Given(i))
    <2>1. Statement(v) = Same(Aborted)
      BY <1>5 DEF Statement
    <2> QED BY <2>1, SameGood, PagesDiffer
  <1> QED BY <1>1, <1>2, <1>3, <1>4, <1>5

-----------------------------------------------------------------------------
(* A step of the visitor v keeps the invariant and is its own.             *)
LEMMA DoesIsDid ==
  ASSUME ItemsInv, NEW v \in Visitor, NEW R, Does(v, R)
  PROVE  Did(v, R) /\ shown'[v] = R.shown
  BY DEF ItemsInv, Does, Did, Show, Then

(* A step that executes its statement.                                     *)
LEMMA ExecutesIsOwn ==
  ASSUME ItemsInv, NEW v \in Visitor, step[v] # "none", Does(v, Statement(v))
  PROVE  ItemsInv' /\ ItsOwn(v)
  <1> DEFINE R == Statement(v)
  <1>1. GoodResult(v, R)
    BY StatementGood
  <1> HIDE DEF R
  <1>2. Does(v, R)
    BY DEF R
  <1> QED BY <1>1, <1>2, DoesIsDid, DidIsOwn

(* What only reads, and goes on to the step s.                             *)
LEMMA ReadsKeeps ==
  ASSUME ItemsInv, NEW v \in Visitor, NEW s, Then(v, s),
         UNCHANGED <<database, items, lastId, visit, removed>>,
         cut' = cut \/ cut' = cut \cup {v},
         DOMAIN shown' = Visitor,
         \A w \in Visitor : w # v => shown'[w] = shown[w],
         s = "none" \/ shown'[v] = shown[v],
         step[v] # "none",
         visit[v].op = "update", visit[v].id \in 0..lastId,
         database = "gorm",
         \/ s = "none"
         \/ s = "insert" /\ MayMiss(v)'
         \/ s \in {"save", "first", "create"} /\ visit[v].id > 0,
         shown'[v] = Redirect => step[v] = "first"
  PROVE  ItemsInv' /\ ItsOwn(v)
  <1>1. /\ database' = database /\ items' = items /\ lastId' = lastId
        /\ visit' = visit /\ removed' = removed
    OBVIOUS
  <1>2. /\ DOMAIN step' = Visitor /\ step'[v] = s
        /\ \A w \in Visitor : w # v => step'[w] = step[w]
    BY DEF ItemsInv, Then
  <1>3. ItemsInv'
    <2>1. \A w \in Visitor : step'[w] # "none" => shown'[w] = Nothing
      BY <1>2 DEF ItemsInv, Nothing
    <2>2. \A w \in Visitor : MayMiss(w) => MayMiss(w)'
      BY <1>1 DEF MayMiss
    <2> QED BY <1>1, <1>2, <2>1, <2>2 DEF ItemsInv, GormSteps
  <1>4. Changed = {}
    BY <1>1 DEF Changed
  <1>5. DOMAIN items' \cap removed # {} => database = "gorm"
    OBVIOUS
  <1>6. ItsOwn(v)
    BY <1>4, <1>5 DEF ItsOwn
  <1> QED BY <1>3, <1>6

LEMMA ArriveKeeps ==
  ASSUME ItemsInv, NEW v \in Visitor, Arrive(v)
  PROVE  ItemsInv'
  <1> USE ItemsAssumption
  <1>1. PICK r \in Requests :
          /\ visit' = [visit EXCEPT ![v] = r]
          /\ IF r.id = Bad
             THEN step' = [step EXCEPT ![v] = "none"]
             ELSE step' = [step EXCEPT ![v] =
                    IF database = "gorm" /\ r.op = "update"
                    THEN "find" ELSE "handle"]
          /\ r.id # Bad => shown' = [shown EXCEPT ![v] = Nothing]
          /\ DOMAIN shown' = Visitor
          /\ \A w \in Visitor : w # v => shown'[w] = shown[w]
    BY DEF Arrive, Show, Then, ItemsInv
  <1>2. UNCHANGED <<database, items, lastId, removed>>
    BY DEF Arrive
  <1>3. /\ r.op \in {"list", "add", "edit", "delete", "update"}
        /\ r.id # Bad => r.id \in 0..lastId
    <2>0. lastId \in Nat
      BY DEF ItemsInv
    <2>1. \A i \in Ids : i # Bad => i \in 0..lastId
      BY <2>0 DEF Ids
    <2> HIDE DEF Ids
    <2>2. \/ r = [op |-> "list", id |-> 0, text |-> ""]
          \/ r \in [op : {"add"}, id : {0}, text : Title]
          \/ r \in [op : {"edit", "delete"}, id : Ids, text : {""}]
          \/ r \in [op : {"update"}, id : Ids, text : Title]
      BY DEF Requests
    <2>3. /\ r.op \in {"list", "add", "edit", "delete", "update"}
          /\ r.id = 0 \/ r.id \in Ids
      <3>1. CASE r = [op |-> "list", id |-> 0, text |-> ""]
        <4>1. r.op = "list" /\ r.id = 0
          BY <3>1
        <4> QED BY <4>1
      <3>2. CASE r \in [op : {"add"}, id : {0}, text : Title]
        BY <3>2
      <3>3. CASE r \in [op : {"edit", "delete"}, id : Ids, text : {""}]
        BY <3>3
      <3>4. CASE r \in [op : {"update"}, id : Ids, text : Title]
        BY <3>4
      <3> QED BY <2>2, <3>1, <3>2, <3>3, <3>4
    <2> QED BY <2>0, <2>1, <2>3
  <1>4. /\ DOMAIN visit' = Visitor /\ visit'[v] = r
        /\ \A w \in Visitor : w # v => visit'[w] = visit[w]
    BY <1>1 DEF ItemsInv
  <1>5. /\ DOMAIN step' = Visitor
        /\ \A w \in Visitor : w # v => step'[w] = step[w]
        /\ \/ step'[v] = "none"
           \/ /\ r.id # Bad
              /\ step'[v] = IF database = "gorm" /\ r.op = "update"
                            THEN "find" ELSE "handle"
    <2>1. CASE r.id = Bad
      BY <1>1, <2>1 DEF ItemsInv
    <2>2. CASE r.id # Bad
      BY <1>1, <2>2 DEF ItemsInv
    <2> QED BY <2>1, <2>2
  <1>6. /\ DOMAIN shown' = Visitor
        /\ r.id # Bad => shown'[v] = Nothing
        /\ \A w \in Visitor : w # v => shown'[w] = shown[w]
    BY <1>1 DEF ItemsInv
  <1>7. \A w \in Visitor : w # v /\ MayMiss(w) => MayMiss(w)'
    BY <1>2, <1>4 DEF MayMiss, Arrive
  <1> QED BY <1>2, <1>3, <1>4, <1>5, <1>6, <1>7 DEF ItemsInv, GormSteps

LEMMA StepIsOwn ==
  ASSUME ItemsInv, NEW v \in Visitor,
         \/ Execute(v) \/ GormFind(v) \/ GormFindFails(v) \/ GormInsert(v)
         \/ GormSave(v) \/ GormFirst(v) \/ GormCreate(v) \/ MongoRefused(v)
         \/ ConnectionLost(v)
  PROVE  ItemsInv' /\ ItsOwn(v)
  <1> DEFINE r == visit[v]
  <1>0. /\ lastId \in Nat /\ DOMAIN shown = Visitor
        /\ \A p : DOMAIN [shown EXCEPT ![v] = p] = Visitor
        /\ \A p : [shown EXCEPT ![v] = p][v] = p
    BY DEF ItemsInv
  <1>1. CASE Execute(v) \/ GormInsert(v) \/ GormCreate(v)
    BY <1>1, ExecutesIsOwn DEF Execute, GormInsert, GormCreate
  <1>2. CASE GormFind(v) \/ GormFindFails(v)
    <2>1. /\ step[v] = "find" /\ UNCHANGED <<database, items, lastId, visit, removed, shown>>
          /\ cut' = cut \/ cut' = cut \cup {v}
      BY <1>2 DEF GormFind, GormFindFails, Reads
    <2>2. /\ r.op = "update" /\ database = "gorm" /\ r.id \in 0..lastId
          /\ shown[v] # Redirect
          /\ Given(r.id) => r.id > 0
          /\ ~Given(r.id) => r.id \in {0} \cup removed
      BY <2>1, PagesDiffer DEF ItemsInv, GormSteps, Given
    <2>3. \/ Then(v, "save") /\ Given(r.id)
          \/ Then(v, "insert") /\ MayMiss(v)'
      BY <1>2, <2>1, <2>2 DEF GormFind, GormFindFails, MayMiss
    <2> HIDE DEF r
    <2>4. visit[v].op = "update" /\ visit[v].id \in 0..lastId
      BY <2>2 DEF r
    <2>5. CASE Then(v, "insert") /\ MayMiss(v)'
      BY <1>0, <2>1, <2>2, <2>4, <2>5, ReadsKeeps
    <2>6. CASE Then(v, "save") /\ Given(r.id)
      <3>1. visit[v].id > 0
        BY <2>2, <2>6 DEF r
      <3> QED BY <1>0, <2>1, <2>2, <2>4, <2>6, <3>1, ReadsKeeps
    <2> QED BY <2>3, <2>5, <2>6
  <1>4. CASE GormSave(v)
    <2> DEFINE i == r.id
               new == Row(r.text, "rvasily")
    <2>1. step[v] = "save"
      BY <1>4 DEF GormSave
    <2>2. /\ r.op = "update" /\ database = "gorm" /\ i \in 0..lastId
          /\ shown[v] # Redirect /\ i > 0
      BY <2>1, PagesDiffer DEF ItemsInv, GormSteps
    <2>3. CASE Given(i) /\ items[i] # new
      BY <1>4, <2>1, <2>3, ExecutesIsOwn DEF GormSave
    <2>4. CASE ~(Given(i) /\ items[i] # new)
      <3>1. Then(v, "first") /\ Reads(v) /\ UNCHANGED shown
        BY <1>4, <2>4 DEF GormSave
      <3> QED BY <1>0, <2>1, <2>2, <3>1, ReadsKeeps DEF Reads
    <2> QED BY <2>3, <2>4
  <1>5. CASE GormFirst(v)
    <2>1. step[v] = "first" /\ Reads(v)
      BY <1>5 DEF GormFirst
    <2>2. /\ r.op = "update" /\ database = "gorm" /\ r.id \in 0..lastId
          /\ r.id > 0
      BY <2>1 DEF ItemsInv, GormSteps
    <2>3. CASE Given(r.id)
      <3>1. Then(v, "none") /\ shown' = [shown EXCEPT ![v] = Redirect]
        BY <1>5, <2>3 DEF GormFirst, Show
      <3>2. DOMAIN shown' = Visitor
            /\ \A w \in Visitor : w # v => shown'[w] = shown[w]
        BY <1>0, <3>1
      <3> QED BY <2>1, <2>2, <3>1, <3>2, ReadsKeeps DEF Reads
    <2>4. CASE ~Given(r.id)
      <3>1. Then(v, "create") /\ UNCHANGED shown
        BY <1>5, <2>4 DEF GormFirst
      <3> QED BY <1>0, <2>1, <2>2, <3>1, ReadsKeeps DEF Reads
    <2> QED BY <2>3, <2>4
  <1>7. CASE MongoRefused(v)
    <2> DEFINE p == IF r.op = "edit" THEN Page(Empty) ELSE Aborted
               R == Same(p)
    <2>1. step[v] # "none" /\ Does(v, R)
      BY <1>7 DEF MongoRefused
    <2>2. p # Redirect
      BY PagesDiffer
    <2> HIDE DEF p
    <2>3. GoodResult(v, R)
      BY <2>2, SameGood
    <2> HIDE DEF R
    <2> QED BY <2>1, <2>3, DoesIsDid, DidIsOwn
  <1>8. CASE ConnectionLost(v)
    <2> DEFINE p == IF database = "mongodb" /\ r.op = "edit"
                    THEN Page(Empty) ELSE Aborted
    <2>1. /\ step[v] # "none" /\ Show(v, p) /\ cut' = cut \cup {v}
          /\ UNCHANGED <<database, visit>>
      BY <1>8 DEF ConnectionLost
    <2>2. PICK R \in {Statement(v), Same(Aborted)} :
             /\ items' = R.items /\ lastId' = R.last
             /\ removed' = removed \cup (DOMAIN items \ DOMAIN R.items)
      BY <1>8 DEF ConnectionLost
    <2>3. GoodResult(v, R)
      <3>1. GoodResult(v, Statement(v))
        BY <2>1, StatementGood
      <3>2. GoodResult(v, Same(Aborted))
        BY SameGood, PagesDiffer
      <3> QED BY <2>2, <3>1, <3>2
    <2>4. p # Redirect
      BY PagesDiffer
    <2>5. Did(v, R)
      BY <1>0, <2>1, <2>2 DEF Did, Show, Then
    <2>6. shown'[v] # Redirect
      BY <1>0, <2>1, <2>4 DEF Show
    <2> QED BY <2>1, <2>3, <2>5, <2>6, DidIsOwn
  <1> QED BY <1>1, <1>2, <1>4, <1>5, <1>7, <1>8

(* Only the visitor whose step it is acts.                                 *)
LEMMA OneActs ==
  ASSUME ItemsInv, NEW v \in Visitor, NEW w \in Visitor, w # v,
         \/ Execute(v) \/ GormFind(v) \/ GormFindFails(v) \/ GormInsert(v)
         \/ GormSave(v) \/ GormFirst(v) \/ GormCreate(v) \/ MongoRefused(v)
         \/ ConnectionLost(v) \/ Arrive(v)
  PROVE  ~Acts(w)
  <1>1. \E s : Then(v, s)
    BY DEF Execute, GormFind, GormFindFails, GormInsert, GormSave, GormFirst, GormCreate,
           MongoRefused, ConnectionLost, Arrive, Does, Show
  <1> QED BY <1>1 DEF Then, Acts, ItemsInv

LEMMA ItemsInvariant == ItemsSpec => []ItemsInv
  <1>1. ItemsInit => ItemsInv
    <2> SUFFICES ASSUME ItemsInit PROVE ItemsInv
      OBVIOUS
    <2>1. /\ database \in {"mysql", "gorm", "mongodb"}
          /\ lastId = 2 /\ removed = {} /\ cut = {}
          /\ DOMAIN step = Visitor /\ DOMAIN visit = Visitor
          /\ DOMAIN shown = Visitor
          /\ \A v \in Visitor : step[v] = "none"
      BY ItemsAssumption DEF ItemsInit
    <2>2. DOMAIN items = 1..2
      <3> DEFINE a == Row("a", "")
                 b == Row("b", "rvasily")
      <3>1. items = <<a, b>>
        BY DEF ItemsInit
      <3> HIDE DEF a, b
      <3> QED BY <3>1
    <2> QED BY <2>1, <2>2 DEF ItemsInv
  <1>2. ItemsInv /\ [ItemsNext]_itemsVars => ItemsInv'
    <2> SUFFICES ASSUME ItemsInv, [ItemsNext]_itemsVars PROVE ItemsInv'
      OBVIOUS
    <2>1. CASE ItemsNext
      <3>1. PICK v \in Visitor :
              \/ Arrive(v) \/ Execute(v) \/ GormFind(v) \/ GormFindFails(v)
              \/ GormInsert(v) \/ GormSave(v) \/ GormFirst(v) \/ GormCreate(v)
              \/ MongoRefused(v) \/ ConnectionLost(v)
        BY <2>1 DEF ItemsNext
      <3> QED BY <3>1, ArriveKeeps, StepIsOwn
    <2>2. CASE UNCHANGED itemsVars
      BY <2>2 DEF ItemsInv, MayMiss, itemsVars
    <2> QED BY <2>1, <2>2
  <1> QED BY <1>1, <1>2, PTL DEF ItemsSpec

(* The rows are changed by the request that names them, deleted ones stay  *)
(* away and an Update that is answered is there, but for what gorm does:   *)
(* the handlers of the three programs of src/database.                     *)
THEOREM RowsAreTheirOwnCorrect == ItemsSpec => RowsAreTheirOwn
  <1>1. ItemsInv /\ [ItemsNext]_itemsVars
          => [\A v \in Visitor : Acts(v) => ItsOwn(v)]_itemsVars
    <2> SUFFICES ASSUME ItemsInv, ItemsNext, NEW w \in Visitor, Acts(w)
                 PROVE  ItsOwn(w)
      OBVIOUS
    <2>1. PICK v \in Visitor :
            \/ Arrive(v) \/ Execute(v) \/ GormFind(v) \/ GormFindFails(v)
            \/ GormInsert(v) \/ GormSave(v) \/ GormFirst(v) \/ GormCreate(v)
            \/ MongoRefused(v) \/ ConnectionLost(v)
      BY DEF ItemsNext
    <2>2. w = v
      BY <2>1, OneActs
    <2>3. ~Arrive(v)
      BY <2>2 DEF Arrive, Acts
    <2> QED BY <2>1, <2>2, <2>3, StepIsOwn
  <1> QED BY <1>1, ItemsInvariant, PTL DEF ItemsSpec, RowsAreTheirOwn

-----------------------------------------------------------------------------
(* I2S: data that fits is converted, a misfit is seen where it is noticed. *)
LEMMA AssertsKinds ==
  ASSUME NEW t \in Types, NEW d
  PROVE  /\ Asserts(t, d) <=>
              \/ t[1] = "int" /\ d[1] = "float64"
              \/ t[1] = "bool" /\ d[1] = "bool"
              \/ t[1] = "string" /\ d[1] = "string"
              \/ t[1] = "slice" /\ d[1] = "slice"
              \/ t[1] = "struct" /\ d[1] = "map"
         /\ Basic(t) <=> t[1] \notin {"slice", "struct"}
  <1>1. t[1] \in {"int", "bool", "string", "slice", "struct"}
    BY I2SAssumption DEF IsType
  <1> QED BY <1>1 DEF Asserts, Basic

LEMMA InSequence ==
  ASSUME NEW S, NEW s \in Seq(S), NEW i \in DOMAIN s
  PROVE  s[i] \in S /\ i \in 1..i /\ 1..i \subseteq DOMAIN s
  OBVIOUS

LEMMA OverSequence ==
  ASSUME NEW S, NEW s \in Seq(S), NEW r, DOMAIN r = DOMAIN s
  PROVE  Len(r) = Len(s)
  OBVIOUS

(* The types of the parts of a type.                                       *)
LEMMA PartTypes ==
  ASSUME NEW t \in Types
  PROVE  /\ t[1] = "slice" => t[2] \in Types
         /\ t[1] = "struct" => \A i \in DOMAIN t[2] : Type(t, i) \in Types /\ i \in 1..i /\ 1..i \subseteq DOMAIN t[2]
  <1>1. t[1] = "slice" => t[2] \in Types
    BY I2SAssumption DEF IsType
  <1>2. ASSUME t[1] = "struct", NEW i \in DOMAIN t[2]
        PROVE  Type(t, i) \in Types /\ i \in 1..i /\ 1..i \subseteq DOMAIN t[2]
    <2> DEFINE fs == t[2]
    <2>1. fs \in Seq([name : STRING, type : Types])
      BY <1>2, I2SAssumption DEF IsType
    <2> HIDE DEF fs
    <2>2. fs[i] \in [name : STRING, type : Types] /\ i \in 1..i /\ 1..i \subseteq DOMAIN fs
      <3>1. i \in DOMAIN fs
        BY <1>2 DEF fs
      <3> QED BY <2>1, <3>1, InSequence
    <2>3. fs[i].type \in Types
      BY <2>2
    <2> QED BY <2>2, <2>3 DEF Type, fs
  <1> QED BY <1>1, <1>2

(* The parts of data, which are less deep.                                 *)
LEMMA PartsOfData ==
  ASSUME NEW d \in Data
  PROVE  /\ d[1] = "slice" => \A i \in DOMAIN d[2] : d[2][i] \in Data /\ depth[d[2][i]] < depth[d]
         /\ d[1] = "map" => \A t, i : Datum(t, i, d) \in Data /\ depth[Datum(t, i, d)] < depth[d]
  <1>1. \A e \in Parts(d) : e \in Data /\ depth[e] < depth[d]
    BY I2SAssumption DEF IsDatum
  <1>2. d[1] = "slice" => \A i \in DOMAIN d[2] : d[2][i] \in Parts(d)
    BY DEF Parts
  <1>3. ASSUME d[1] = "map", NEW name
        PROVE  Member(d, name) \in Parts(d)
    BY <1>3 DEF Parts, Member
  <1>4. d[1] = "map" => \A t, i : Datum(t, i, d) \in Parts(d)
    BY <1>3, Zenon DEF Datum
  <1> QED BY <1>1, <1>2, <1>4

(* What the recursive functions are made of.                               *)
WalkBody(f, d) == [t \in Types |-> WalkOnce(f, t, d)]
FitsBody(f, d) == [t \in Types |-> FitsOnce(f, t, d)]
MeansBody(f, d) == [t \in Types |-> MeansOnce(f, t, d)]
OfStructsBody(f, d) == [t \in Types |-> OfStructsOnce(f, t, d)]
SameLengthBody(f, d) == [t \in Types |-> [v \in Outs |-> SameLengthOnce(f, t, d, v)]]

WalkRec == INSTANCE Recursion WITH Dom <- Data, rank <- depth, Body <- WalkBody
FitsRec == INSTANCE Recursion WITH Dom <- Data, rank <- depth, Body <- FitsBody
MeansRec == INSTANCE Recursion WITH Dom <- Data, rank <- depth, Body <- MeansBody
OfStructsRec == INSTANCE Recursion WITH Dom <- Data, rank <- depth, Body <- OfStructsBody
SameLengthRec == INSTANCE Recursion WITH Dom <- Data, rank <- depth, Body <- SameLengthBody

(* Every call asks about parts only.                                       *)
LEMMA AsksBelow ==
  ASSUME NEW d \in Data, NEW t \in Types, NEW f, NEW g,
         \A e \in Data : depth[e] < depth[d] => f[e] = g[e]
  PROVE  /\ WalkOnce(f, t, d) = WalkOnce(g, t, d)
         /\ FitsOnce(f, t, d) = FitsOnce(g, t, d)
         /\ MeansOnce(f, t, d) = MeansOnce(g, t, d)
         /\ OfStructsOnce(f, t, d) = OfStructsOnce(g, t, d)
         /\ \A v : SameLengthOnce(f, t, d, v) = SameLengthOnce(g, t, d, v)
  <1>1. ASSUME Asserts(t, d), t[1] = "slice", NEW i \in DOMAIN d[2]
        PROVE  f[d[2][i]] = g[d[2][i]]
    BY <1>1, AssertsKinds, PartsOfData
  <1>2. ASSUME Asserts(t, d), t[1] = "struct", NEW i
        PROVE  f[Datum(t, i, d)] = g[Datum(t, i, d)]
    BY <1>2, AssertsKinds, PartsOfData
  <1>3. ~Basic(t) /\ t[1] # "slice" => t[1] = "struct"
    BY AssertsKinds
  <1>4. WalkOnce(f, t, d) = WalkOnce(g, t, d)
    BY <1>1, <1>2, <1>3 DEF WalkOnce, Filled
  <1>5. FitsOnce(f, t, d) = FitsOnce(g, t, d)
    BY <1>1, <1>2 DEF FitsOnce
  <1>6. MeansOnce(f, t, d) = MeansOnce(g, t, d)
    BY <1>1, <1>2, <1>3 DEF MeansOnce
  <1>7. OfStructsOnce(f, t, d) = OfStructsOnce(g, t, d)
    BY <1>1, <1>2 DEF OfStructsOnce
  <1>8. ASSUME NEW v
        PROVE  SameLengthOnce(f, t, d, v) = SameLengthOnce(g, t, d, v)
    BY <1>1, <1>2 DEF SameLengthOnce
  <1> QED BY <1>4, <1>5, <1>6, <1>7, <1>8

(* So the functions are what their equations say.                          *)
LEMMA WalkExists ==
  walk = [d \in Data |-> WalkBody(walk, d)]
  <1>1. WalkRec!Ranked
    BY I2SAssumption DEF WalkRec!Ranked
  <1>2. WalkRec!LooksDown
    <2> SUFFICES ASSUME NEW f, NEW g, NEW d \in Data, WalkRec!Agree(f, g, depth[d])
                 PROVE  WalkBody(f, d) = WalkBody(g, d)
      BY DEF WalkRec!LooksDown
    <2>1. \A e \in Data : depth[e] < depth[d] => f[e] = g[e]
      BY DEF WalkRec!Agree
    <2> QED BY <2>1, AsksBelow DEF WalkBody
  <1>3. \E f : f = [d \in Data |-> WalkBody(f, d)]
    BY <1>1, <1>2, WalkRec!Exists
  <1>4. walk = CHOOSE f : f = [d \in Data |-> WalkBody(f, d)]
    BY Zenon DEF walk, WalkBody
  <1> QED BY <1>3, <1>4, Zenon

LEMMA FitsExists ==
  fits = [d \in Data |-> FitsBody(fits, d)]
  <1>1. FitsRec!Ranked
    BY I2SAssumption DEF FitsRec!Ranked
  <1>2. FitsRec!LooksDown
    <2> SUFFICES ASSUME NEW f, NEW g, NEW d \in Data, FitsRec!Agree(f, g, depth[d])
                 PROVE  FitsBody(f, d) = FitsBody(g, d)
      BY DEF FitsRec!LooksDown
    <2>1. \A e \in Data : depth[e] < depth[d] => f[e] = g[e]
      BY DEF FitsRec!Agree
    <2> QED BY <2>1, AsksBelow DEF FitsBody
  <1>3. \E f : f = [d \in Data |-> FitsBody(f, d)]
    BY <1>1, <1>2, FitsRec!Exists
  <1>4. fits = CHOOSE f : f = [d \in Data |-> FitsBody(f, d)]
    BY Zenon DEF fits, FitsBody
  <1> QED BY <1>3, <1>4, Zenon

LEMMA MeansExists ==
  means = [d \in Data |-> MeansBody(means, d)]
  <1>1. MeansRec!Ranked
    BY I2SAssumption DEF MeansRec!Ranked
  <1>2. MeansRec!LooksDown
    <2> SUFFICES ASSUME NEW f, NEW g, NEW d \in Data, MeansRec!Agree(f, g, depth[d])
                 PROVE  MeansBody(f, d) = MeansBody(g, d)
      BY DEF MeansRec!LooksDown
    <2>1. \A e \in Data : depth[e] < depth[d] => f[e] = g[e]
      BY DEF MeansRec!Agree
    <2> QED BY <2>1, AsksBelow DEF MeansBody
  <1>3. \E f : f = [d \in Data |-> MeansBody(f, d)]
    BY <1>1, <1>2, MeansRec!Exists
  <1>4. means = CHOOSE f : f = [d \in Data |-> MeansBody(f, d)]
    BY Zenon DEF means, MeansBody
  <1> QED BY <1>3, <1>4, Zenon

LEMMA OfStructsExists ==
  ofStructs = [d \in Data |-> OfStructsBody(ofStructs, d)]
  <1>1. OfStructsRec!Ranked
    BY I2SAssumption DEF OfStructsRec!Ranked
  <1>2. OfStructsRec!LooksDown
    <2> SUFFICES ASSUME NEW f, NEW g, NEW d \in Data, OfStructsRec!Agree(f, g, depth[d])
                 PROVE  OfStructsBody(f, d) = OfStructsBody(g, d)
      BY DEF OfStructsRec!LooksDown
    <2>1. \A e \in Data : depth[e] < depth[d] => f[e] = g[e]
      BY DEF OfStructsRec!Agree
    <2> QED BY <2>1, AsksBelow DEF OfStructsBody
  <1>3. \E f : f = [d \in Data |-> OfStructsBody(f, d)]
    BY <1>1, <1>2, OfStructsRec!Exists
  <1>4. ofStructs = CHOOSE f : f = [d \in Data |-> OfStructsBody(f, d)]
    BY Zenon DEF ofStructs, OfStructsBody
  <1> QED BY <1>3, <1>4, Zenon

LEMMA SameLengthExists ==
  sameLength = [d \in Data |-> SameLengthBody(sameLength, d)]
  <1>1. SameLengthRec!Ranked
    BY I2SAssumption DEF SameLengthRec!Ranked
  <1>2. SameLengthRec!LooksDown
    <2> SUFFICES ASSUME NEW f, NEW g, NEW d \in Data, SameLengthRec!Agree(f, g, depth[d])
                 PROVE  SameLengthBody(f, d) = SameLengthBody(g, d)
      BY DEF SameLengthRec!LooksDown
    <2>1. \A e \in Data : depth[e] < depth[d] => f[e] = g[e]
      BY DEF SameLengthRec!Agree
    <2> QED BY <2>1, AsksBelow DEF SameLengthBody
  <1>3. \E f : f = [d \in Data |-> SameLengthBody(f, d)]
    BY <1>1, <1>2, SameLengthRec!Exists
  <1>4. sameLength = CHOOSE f : f = [d \in Data |-> SameLengthBody(f, d)]
    BY Zenon DEF sameLength, SameLengthBody
  <1> QED BY <1>3, <1>4, Zenon

LEMMA Unfolded ==
  ASSUME NEW d \in Data, NEW t \in Types
  PROVE  /\ i2s(t, d) = WalkOnce(walk, t, d)
         /\ fits[d][t] = FitsOnce(fits, t, d)
         /\ means[d][t] = MeansOnce(means, t, d)
         /\ ofStructs[d][t] = OfStructsOnce(ofStructs, t, d)
         /\ \A v \in Outs : sameLength[d][t][v] = SameLengthOnce(sameLength, t, d, v)
  <1>1. i2s(t, d) = WalkOnce(walk, t, d)
    <2>1. walk[d] = WalkBody(walk, d)
      <3> DEFINE w == walk
      <3>1. w = [e \in Data |-> WalkBody(w, e)]
        BY WalkExists
      <3> HIDE DEF w
      <3>2. w[d] = WalkBody(w, d)
        BY <3>1
      <3> QED BY <3>2 DEF w
    <2> QED BY <2>1 DEF WalkBody, i2s
  <1>2. fits[d][t] = FitsOnce(fits, t, d)
    <2>1. fits[d] = FitsBody(fits, d)
      <3> DEFINE w == fits
      <3>1. w = [e \in Data |-> FitsBody(w, e)]
        BY FitsExists
      <3> HIDE DEF w
      <3>2. w[d] = FitsBody(w, d)
        BY <3>1
      <3> QED BY <3>2 DEF w
    <2> QED BY <2>1 DEF FitsBody
  <1>3. means[d][t] = MeansOnce(means, t, d)
    <2>1. means[d] = MeansBody(means, d)
      <3> DEFINE w == means
      <3>1. w = [e \in Data |-> MeansBody(w, e)]
        BY MeansExists
      <3> HIDE DEF w
      <3>2. w[d] = MeansBody(w, d)
        BY <3>1
      <3> QED BY <3>2 DEF w
    <2> QED BY <2>1 DEF MeansBody
  <1>4. ofStructs[d][t] = OfStructsOnce(ofStructs, t, d)
    <2>1. ofStructs[d] = OfStructsBody(ofStructs, d)
      <3> DEFINE w == ofStructs
      <3>1. w = [e \in Data |-> OfStructsBody(w, e)]
        BY OfStructsExists
      <3> HIDE DEF w
      <3>2. w[d] = OfStructsBody(w, d)
        BY <3>1
      <3> QED BY <3>2 DEF w
    <2> QED BY <2>1 DEF OfStructsBody
  <1>5. \A v \in Outs : sameLength[d][t][v] = SameLengthOnce(sameLength, t, d, v)
    <2>1. sameLength[d] = SameLengthBody(sameLength, d)
      <3> DEFINE w == sameLength
      <3>1. w = [e \in Data |-> SameLengthBody(w, e)]
        BY SameLengthExists
      <3> HIDE DEF w
      <3>2. w[d] = SameLengthBody(w, d)
        BY <3>1
      <3> QED BY <3>2 DEF w
    <2> QED BY <2>1 DEF SameLengthBody
  <1> QED BY <1>1, <1>2, <1>3, <1>4, <1>5

(* walk without its conditions.                                            *)
LEMMA WalkCases ==
  ASSUME NEW d \in Data, NEW t \in Types, ~Basic(t)
  PROVE  /\ ~Asserts(t, d) => i2s(t, d).er = TRUE
         /\ Asserts(t, d) /\ t[1] = "slice" =>
              /\ i2s(t, d).er = FALSE
              /\ i2s(t, d).out = Appended([i \in DOMAIN d[2] |-> i2s(t[2], d[2][i])])
         /\ Asserts(t, d) /\ t[1] # "slice" =>
              /\ i2s(t, d).er = \E i \in DOMAIN t[2] : Panics(t, i, d)
              /\ i2s(t, d).out = <<"struct", [i \in DOMAIN t[2] |-> Filled(walk, t, i, d)]>>
  <1> DEFINE elements == Appended([i \in DOMAIN d[2] |-> walk[d[2][i]][t[2]]])
             fields == <<"struct", [i \in DOMAIN t[2] |-> Filled(walk, t, i, d)]>>
             panics == \E i \in DOMAIN t[2] : Panics(t, i, d)
  <1>1. \A er, out : Walked(er, out).er = er /\ Walked(er, out).out = out
    BY DEF Walked
  <1>2. i2s(t, d) = IF Basic(t) THEN Walked(FALSE, Zero[t])
                    ELSE IF ~Asserts(t, d) THEN Walked(TRUE, Zero[t])
                    ELSE IF t[1] = "slice" THEN Walked(FALSE, elements)
                    ELSE Walked(panics, fields)
    BY Unfolded, Zenon DEF WalkOnce
  <1>3. elements = Appended([i \in DOMAIN d[2] |-> i2s(t[2], d[2][i])])
    BY Zenon DEF i2s
  <1> HIDE DEF elements, fields, panics
  <1>4. /\ ~Asserts(t, d) => i2s(t, d) = Walked(TRUE, Zero[t])
        /\ Asserts(t, d) /\ t[1] = "slice" => i2s(t, d) = Walked(FALSE, elements)
        /\ Asserts(t, d) /\ t[1] # "slice" => i2s(t, d) = Walked(panics, fields)
    BY <1>2, Zenon
  <1>5. Walked(TRUE, Zero[t]).er = TRUE
    BY <1>1, Zenon
  <1>6. Walked(FALSE, elements).er = FALSE /\ Walked(FALSE, elements).out = elements
    BY <1>1, Zenon
  <1>7. Walked(panics, fields).er = panics /\ Walked(panics, fields).out = fields
    BY <1>1, Zenon
  <1>8. ~Asserts(t, d) => i2s(t, d).er = TRUE
    BY <1>4, <1>5, Zenon
  <1>9. Asserts(t, d) /\ t[1] = "slice" => i2s(t, d).er = FALSE /\ i2s(t, d).out = elements
    BY <1>4, <1>6, Zenon
  <1>10. Asserts(t, d) /\ t[1] # "slice" => i2s(t, d).er = panics /\ i2s(t, d).out = fields
    BY <1>4, <1>7, Zenon
  <1> QED BY <1>3, <1>8, <1>9, <1>10, Zenon DEF fields, panics

(* An error of i2s is an assertion that panicked.                          *)
LEMMA ErrorIsPanic ==
  ASSUME NEW d \in Data, NEW t \in Types, ~Basic(t)
  PROVE  i2s(t, d).er <=>
           ~Asserts(t, d) \/ (t[1] = "struct" /\ \E i \in DOMAIN t[2] : Panics(t, i, d))
  BY WalkCases, AssertsKinds

(* int64 cuts off what the meaning of a number leaves out.                 *)
LEMMA CutOff ==
  ASSUME NEW n \in Int
  PROVE  WholePart(n) = Int64(n)
  <1> DEFINE P(k) == Abs(n - 2 * k) < 2 /\ Abs(2 * k) <= Abs(n)
             k0 == Int64(n)
  <1>1. k0 \in Int /\ k0 \in -Abs(n)..Abs(n) /\ P(k0)
    BY DEF Int64, Abs
  <1>2. ASSUME NEW j \in Int, NEW k \in Int, P(j), P(k)
        PROVE  j = k
    BY <1>2 DEF Abs
  <1>3. WholePart(n) \in -Abs(n)..Abs(n) /\ P(WholePart(n))
    <2> HIDE DEF k0
    <2>1. WholePart(n) = CHOOSE k \in -Abs(n)..Abs(n) : P(k)
      BY DEF WholePart
    <2>2. \E k \in -Abs(n)..Abs(n) : P(k)
      BY <1>1
    <2> HIDE DEF P
    <2>3. QED
      BY <2>1, <2>2
  <1>4. WholePart(n) \in Int
    BY <1>3 DEF Abs
  <1> HIDE DEF P, k0
  <1>5. WholePart(n) = k0
    BY <1>1, <1>2, <1>3, <1>4
  <1> QED BY <1>5 DEF k0

LEMMA MeaningConverts ==
  ASSUME NEW t \in Types, NEW d \in Data, Asserts(t, d), Basic(t)
  PROVE  Meaning(t, d) = Convert(t, d)
  <1>1. CASE t[1] = "int"
    <2>1. d[1] = "float64"
      BY <1>1, AssertsKinds
    <2>2. d[2] \in Int
      BY <2>1, I2SAssumption DEF IsDatum
    <2>3. WholePart(d[2]) = Int64(d[2])
      BY <2>2, CutOff
    <2> QED BY <1>1, <2>3 DEF Meaning, Convert
  <1>2. CASE t[1] # "int"
    BY <1>2 DEF Meaning, Convert
  <1> QED BY <1>1, <1>2

(* What fits makes no assertion panic.                                     *)
LEMMA FittingPanicsNowhere ==
  ASSUME NEW d \in Data, NEW t \in Types, fits[d][t]
  PROVE  /\ Asserts(t, d)
         /\ t[1] = "slice" => \A i \in DOMAIN d[2] : fits[d[2][i]][t[2]]
         /\ t[1] = "struct" => \A i \in DOMAIN t[2] :
              fits[Datum(t, i, d)][Type(t, i)] /\ Asserts(Type(t, i), Datum(t, i, d)) /\ ~Panics(t, i, d)
  <1>1. FitsOnce(fits, t, d)
    BY Unfolded
  <1>2. /\ Asserts(t, d)
        /\ t[1] = "slice" => \A i \in DOMAIN d[2] : fits[d[2][i]][t[2]]
        /\ t[1] = "struct" => \A i \in DOMAIN t[2] : fits[Datum(t, i, d)][Type(t, i)]
    BY <1>1 DEF FitsOnce
  <1>3. ASSUME t[1] = "struct", NEW i \in DOMAIN t[2]
        PROVE  Asserts(Type(t, i), Datum(t, i, d)) /\ ~Panics(t, i, d)
    <2>1. Type(t, i) \in Types /\ Datum(t, i, d) \in Data
      BY <1>2, <1>3, PartTypes, PartsOfData, AssertsKinds
    <2>2. FitsOnce(fits, Type(t, i), Datum(t, i, d))
      BY <1>2, <1>3, <2>1, Unfolded
    <2>3. Asserts(Type(t, i), Datum(t, i, d))
      BY <2>2 DEF FitsOnce
    <2> QED BY <2>3 DEF Panics
  <1> QED BY <1>2, <1>3

(* What does not fit, though nothing nested is at fault, makes one panic.  *)
LEMMA MisfitPanics ==
  ASSUME NEW d \in Data, NEW t \in Types, ~Basic(t), ~fits[d][t], NestedFit(t, d)
  PROVE  i2s(t, d).er
  <1> SUFFICES ASSUME Asserts(t, d)
               PROVE  t[1] = "struct" /\ \E i \in DOMAIN t[2] : Panics(t, i, d)
    BY ErrorIsPanic
  <1>1. ~FitsOnce(fits, t, d)
    BY Unfolded
  <1>2. t[1] = "struct"
    <2>1. t[1] = "slice" => \A i \in DOMAIN d[2] : fits[d[2][i]][t[2]]
      BY DEF NestedFit, ElementsFit
    <2> QED BY <1>1, <2>1, AssertsKinds DEF FitsOnce
  <1>3. PICK i \in DOMAIN t[2] : ~fits[Datum(t, i, d)][Type(t, i)]
    BY <1>1, <1>2 DEF FitsOnce
  <1>4. Type(t, i) \in Types /\ Datum(t, i, d) \in Data
    BY <1>2, PartTypes, PartsOfData, AssertsKinds
  <1>5. /\ ElementsFit(Type(t, i), Datum(t, i, d))
        /\ Type(t, i)[1] # "struct"
    BY <1>2, <1>3 DEF NestedFit
  <1>6. ~FitsOnce(fits, Type(t, i), Datum(t, i, d))
    BY <1>3, <1>4, Unfolded
  <1>7. ~Asserts(Type(t, i), Datum(t, i, d))
    BY <1>5, <1>6 DEF FitsOnce, ElementsFit
  <1> QED BY <1>2, <1>5, <1>7 DEF Panics

MeansIt(t, d) ==
  ~Basic(t) /\ fits[d][t] /\ ofStructs[d][t] => i2s(t, d).out = means[d][t]

(* A walk puts into their places what the walks below it give.             *)
LEMMA MeansStep ==
  ASSUME NEW d \in Data, NEW t \in Types,
         \A e \in Data : depth[e] < depth[d] => \A s \in Types : MeansIt(s, e)
  PROVE  MeansIt(t, d)
  <1> SUFFICES ASSUME ~Basic(t), fits[d][t], ofStructs[d][t]
               PROVE  i2s(t, d).out = means[d][t]
    BY DEF MeansIt
  <1>1. Asserts(t, d)
    BY FittingPanicsNowhere
  <1>2. OfStructsOnce(ofStructs, t, d)
    BY Unfolded
  <1>4. CASE t[1] = "slice"
    <2>1. t[2] \in Types /\ \A i \in DOMAIN d[2] : d[2][i] \in Data /\ depth[d[2][i]] < depth[d]
      BY <1>1, <1>4, PartTypes, PartsOfData, AssertsKinds
    <2>2. ASSUME NEW i \in DOMAIN d[2]
          PROVE  i2s(t[2], d[2][i]).out = means[d[2][i]][t[2]]
      <3>1. fits[d[2][i]][t[2]]
        BY <1>4, FittingPanicsNowhere
      <3>2. ~Basic(t[2]) /\ ofStructs[d[2][i]][t[2]]
        BY <1>1, <1>2, <1>4 DEF OfStructsOnce
      <3> QED BY <2>1, <3>1, <3>2 DEF MeansIt
    <2> DEFINE ws == [i \in DOMAIN d[2] |-> i2s(t[2], d[2][i])]
    <2>3. i2s(t, d).out = Appended(ws)
      BY <1>1, <1>4, WalkCases
    <2>4. [i \in DOMAIN ws |-> ws[i].out] = [i \in DOMAIN d[2] |-> means[d[2][i]][t[2]]]
      BY <2>2
    <2>5. means[d][t] = <<"slice", [i \in DOMAIN d[2] |-> means[d[2][i]][t[2]]]>>
      BY <1>1, <1>4, Unfolded DEF MeansOnce
    <2> QED BY <2>3, <2>4, <2>5, Zenon DEF Appended
  <1>5. CASE t[1] = "struct"
    <2>1. ASSUME NEW i \in DOMAIN t[2]
          PROVE  /\ Type(t, i) \in Types /\ 1..i \subseteq DOMAIN t[2]
                 /\ Datum(t, i, d) \in Data /\ depth[Datum(t, i, d)] < depth[d]
      BY <1>1, <1>5, PartTypes, PartsOfData, AssertsKinds
    <2>2. ASSUME NEW i \in DOMAIN t[2]
          PROVE  ~\E j \in 1..i : Panics(t, j, d)
      BY <1>5, <2>1, FittingPanicsNowhere
    <2> DEFINE Meant(i) == means[Datum(t, i, d)][Type(t, i)]
    <2>3. ASSUME NEW i \in DOMAIN t[2]
          PROVE  Filled(walk, t, i, d) = Meant(i)
      <3>1. fits[Datum(t, i, d)][Type(t, i)] /\ Asserts(Type(t, i), Datum(t, i, d))
        BY <1>5, FittingPanicsNowhere
      <3>2. CASE Basic(Type(t, i))
        <4>1. means[Datum(t, i, d)][Type(t, i)] = Convert(Type(t, i), Datum(t, i, d))
          <5>1. means[Datum(t, i, d)][Type(t, i)] = Meaning(Type(t, i), Datum(t, i, d))
            BY <2>1, <3>1, <3>2, Unfolded DEF MeansOnce
          <5> QED BY <2>1, <3>1, <3>2, <5>1, MeaningConverts
        <4> QED BY <2>2, <3>2, <4>1 DEF Filled
      <3>3. CASE ~Basic(Type(t, i))
        <4>1. ofStructs[Datum(t, i, d)][Type(t, i)]
          BY <1>1, <1>2, <1>5 DEF OfStructsOnce
        <4>2. i2s(Type(t, i), Datum(t, i, d)).out = Meant(i)
          BY <2>1, <3>1, <3>3, <4>1 DEF MeansIt
        <4> QED BY <2>2, <3>3, <4>2 DEF i2s, Filled
      <3> QED BY <3>2, <3>3
    <2>4. i2s(t, d).out = <<"struct", [i \in DOMAIN t[2] |-> Filled(walk, t, i, d)]>>
      BY <1>1, <1>5, WalkCases
    <2>5. means[d][t] = <<"struct", [i \in DOMAIN t[2] |-> Meant(i)]>>
      BY <1>1, <1>5, Unfolded DEF MeansOnce
    <2> HIDE DEF Meant
    <2>6. [i \in DOMAIN t[2] |-> Filled(walk, t, i, d)] = [i \in DOMAIN t[2] |-> Meant(i)]
      BY <2>3
    <2> QED BY <2>4, <2>5, <2>6, Zenon
  <1> QED BY <1>4, <1>5, AssertsKinds

KeepsLength(t, d) == sameLength[d][t][i2s(t, d).out]

LEMMA LengthStep ==
  ASSUME NEW d \in Data, NEW t \in Types,
         \A e \in Data : depth[e] < depth[d] => \A s \in Types : KeepsLength(s, e)
  PROVE  KeepsLength(t, d)
  <1> DEFINE v == i2s(t, d).out
  <1>1. v \in Outs
    BY DEF Outs
  <1> SUFFICES SameLengthOnce(sameLength, t, d, v)
    BY <1>1, Unfolded DEF KeepsLength
  <1> SUFFICES ASSUME ~Basic(t), Asserts(t, d)
               PROVE  /\ t[1] = "slice" =>
                           /\ Len(v[2]) = Len(d[2])
                           /\ ~Basic(t[2]) => \A i \in DOMAIN d[2] : sameLength[d[2][i]][t[2]][v[2][i]]
                      /\ t[1] = "struct" =>
                           \A i \in DOMAIN t[2] :
                             ~Basic(Type(t, i)) /\ (\A j \in 1..i : ~Panics(t, j, d)) =>
                               sameLength[Datum(t, i, d)][Type(t, i)][v[2][i]]
    BY DEF SameLengthOnce
  <1>3. CASE t[1] = "slice"
    <2>1. t[2] \in Types /\ \A i \in DOMAIN d[2] : d[2][i] \in Data /\ depth[d[2][i]] < depth[d]
      BY <1>3, PartTypes, PartsOfData, AssertsKinds
    <2> DEFINE ws == [i \in DOMAIN d[2] |-> i2s(t[2], d[2][i])]
    <2>2. v = Appended(ws)
      BY <1>3, WalkCases
    <2>3. v[2] = [i \in DOMAIN d[2] |-> i2s(t[2], d[2][i]).out]
      BY <2>2 DEF Appended
    <2>4. \A i \in DOMAIN d[2] : KeepsLength(t[2], d[2][i])
      BY <2>1
    <2>5. Len(v[2]) = Len(d[2])
      <3>1. d[2] \in Seq(Parts(d))
        BY <1>3, AssertsKinds, I2SAssumption DEF IsDatum
      <3> QED BY <2>3, <3>1, OverSequence
    <2> QED BY <1>3, <2>3, <2>4, <2>5 DEF KeepsLength
  <1>4. CASE t[1] = "struct"
    <2> SUFFICES ASSUME NEW i \in DOMAIN t[2], ~Basic(Type(t, i)), \A j \in 1..i : ~Panics(t, j, d)
                 PROVE  sameLength[Datum(t, i, d)][Type(t, i)][v[2][i]]
      BY <1>4
    <2>1. Type(t, i) \in Types /\ Datum(t, i, d) \in Data /\ depth[Datum(t, i, d)] < depth[d]
      BY <1>4, PartTypes, PartsOfData, AssertsKinds
    <2>2. v = <<"struct", [k \in DOMAIN t[2] |-> Filled(walk, t, k, d)]>>
      BY <1>4, WalkCases
    <2>3. Filled(walk, t, i, d) = i2s(Type(t, i), Datum(t, i, d)).out
      BY DEF i2s, Filled
    <2>4. v[2][i] = i2s(Type(t, i), Datum(t, i, d)).out
      BY <2>2, <2>3
    <2>5. KeepsLength(Type(t, i), Datum(t, i, d))
      BY <2>1
    <2> QED BY <2>4, <2>5 DEF KeepsLength
  <1> QED BY <1>3, <1>4, AssertsKinds

(* By induction over the depth of the data.                                *)
LEMMA AllMeanIt ==
  \A d \in Data, t \in Types : MeansIt(t, d) /\ KeepsLength(t, d)
  <1> DEFINE Good(d) == \A t \in Types : MeansIt(t, d) /\ KeepsLength(t, d)
             Wrong == {d \in Data : ~Good(d)}
  <1>1. Wrong = {}
    <2> SUFFICES ASSUME Wrong # {} PROVE FALSE
      OBVIOUS
    <2>1. PICK d \in Wrong : \A e \in Data : depth[e] < depth[d] => e \notin Wrong
      <3>1. Wrong \in SUBSET Data
        OBVIOUS
      <3>2. WalkRec!Ranked
        BY I2SAssumption DEF WalkRec!Ranked
      <3> HIDE DEF Wrong
      <3> QED BY <3>1, <3>2, WalkRec!LeastRank
    <2>2. \A e \in Data : depth[e] < depth[d] => Good(e)
      <3> HIDE DEF Good
      <3> QED BY <2>1
    <2>3. d \in Data
      BY <2>1
    <2>4. Good(d)
      BY <2>2, <2>3, MeansStep, LengthStep
    <2> QED BY <2>1, <2>4
  <1> QED BY <1>1

(* i2s sets what the data means if it fits, for all types and data.        *)
THEOREM FilledIfItFitsCorrect == I2SSpec => []FilledIfItFits
<1>1. I2SInit => FilledIfItFits
  <2> SUFFICES ASSUME input \in Inputs PROVE FilledIfItFits
    BY DEF I2SInit
  <2> DEFINE t == input[1]
             d == input[2]
  <2>1. t \in Types /\ ~Basic(t) /\ d \in Data
    BY DEF Inputs
  <2> HIDE DEF t, d
  <2>2. ~fits[d][t] /\ NestedFit(t, d) => i2s(t, d).er
    BY <2>1, MisfitPanics
  <2>3. fits[d][t] => ~i2s(t, d).er /\ (ofStructs[d][t] => i2s(t, d).out = means[d][t])
    BY <2>1, ErrorIsPanic, FittingPanicsNowhere, AllMeanIt DEF MeansIt
  <2>4. sameLength[d][t][i2s(t, d).out]
    BY <2>1, AllMeanIt DEF KeepsLength
  <2> QED BY <2>2, <2>3, <2>4 DEF FilledIfItFits, t, d
<1>2. FilledIfItFits /\ [FALSE]_input => FilledIfItFits'
  <2> SUFFICES ASSUME FilledIfItFits, input' = input PROVE FilledIfItFits'
    OBVIOUS
  <2> QED BY DEF FilledIfItFits
<1> QED BY <1>1, <1>2, PTL DEF I2SSpec

-----------------------------------------------------------------------------
(* AclCheck: auth decides what the list says.                              *)

(* A set of numbers that is not empty has a least one.                     *)
LEMMA LeastNumber ==
  ASSUME NEW S \in SUBSET Nat, S # {}
  PROVE  \E i \in S : \A j \in S : i <= j
  BY WalkRec!LeastNumber

(* The loop over a consumer's methods ends at one entry if it ends early.  *)
LEMMA StopsOnce ==
  ASSUME NEW methods \in Seq(Seq(Segment)), NEW m
  PROVE  /\ \A i, j : StopsAt(i, methods, m) /\ StopsAt(j, methods, m) => i = j
         /\ Decisive(methods, m) # {} => \E i : StopsAt(i, methods, m)
  <1>1. Decisive(methods, m) \subseteq DOMAIN methods
    BY DEF Decisive
  <1>2. Decisive(methods, m) \in SUBSET Nat
    BY <1>1
  <1> QED BY <1>2, LeastNumber DEF StopsAt

(* accessCheck without its CASE.                                           *)
LEMMA CheckMeans ==
  ASSUME NEW data, NEW name \in DOMAIN data, NEW m,
         data[name] \in Seq(Seq(Segment))
  PROVE  LET methods == data[name] IN
         /\ \A i \in DOMAIN methods : StopsAt(i, methods, m) =>
              accessCheck(data, name, m) =
                IF Malformed(methods[i]) THEN "panic" ELSE "allow"
         /\ Decisive(methods, m) = {} => accessCheck(data, name, m) = "deny"
  <1> DEFINE methods == data[name]
             stops == {i \in DOMAIN methods : StopsAt(i, methods, m)}
             A == \E i \in stops : ~Malformed(methods[i])
             B == \E i \in stops : Malformed(methods[i])
  <1>0. accessCheck(data, name, m) =
          CASE A -> "allow" [] B -> "panic" [] OTHER -> "deny"
    BY DEF accessCheck
  <1>1. ASSUME NEW i \in DOMAIN methods, StopsAt(i, methods, m)
        PROVE  accessCheck(data, name, m) =
                 IF Malformed(methods[i]) THEN "panic" ELSE "allow"
    <2>1. stops = {i}
      BY <1>1, StopsOnce
    <2>2. (A <=> ~Malformed(methods[i])) /\ (B <=> Malformed(methods[i]))
      BY <2>1
    <2> HIDE DEF A, B
    <2>3. CASE Malformed(methods[i])
      BY <1>0, <2>2, <2>3
    <2>4. CASE ~Malformed(methods[i])
      BY <1>0, <2>2, <2>4
    <2> QED BY <2>3, <2>4
  <1>2. ASSUME Decisive(methods, m) = {}
        PROVE  accessCheck(data, name, m) = "deny"
    <2>1. stops = {}
      BY <1>2 DEF StopsAt
    <2>2. ~A /\ ~B
      BY <2>1
    <2> HIDE DEF A, B
    <2> QED BY <1>0, <2>2
  <1> QED BY <1>1, <1>2

(* The verdict of a header that is there.                                  *)
LEMMA AuthMeans ==
  ASSUME NEW data, NEW header, NEW m
  PROVE  auth(data, header, m).verdict =
           IF header = <<>> THEN "deny"
           ELSE accessCheck(data, JoinedConsumer(header), m)
  BY DEF auth

(* What a well-formed entry grants: the method or its wildcard.            *)
LEMMA WellFormedGrants ==
  ASSUME NEW e \in Seq(Segment), WellFormed(e), NEW m,
         NEW service, NEW method, m = <<Root, service, method>>
  PROVE  /\ ~Malformed(e)
         /\ Grants(e, m) <=> e \in {m, Wildcard(m)}
  <1>1. Len(e) = 3 /\ e[1] = Root
    BY DEF WellFormed
  <1>2. ~Malformed(e)
    BY <1>1 DEF Malformed
  <1>3. e = <<Root, e[2], e[3]>>
    BY <1>1
  <1>4. m[2] = service /\ m[3] = method
    OBVIOUS
  <1>5. e = m <=> e[2] = service /\ e[3] = method
    <2>1. \A x, y : <<Root, x, y>> = <<Root, service, method>>
                     <=> x = service /\ y = method
      OBVIOUS
    <2> QED BY <1>3, <2>1
  <1>6. e = Wildcard(m) <=> e[2] = service /\ e[3] = "*"
    <2>1. \A x, y : <<Root, x, y>> = <<Root, service, "*">>
                     <=> x = service /\ y = "*"
      OBVIOUS
    <2> QED BY <1>3, <1>4, <2>1 DEF Wildcard
  <1> QED BY <1>2, <1>4, <1>5, <1>6 DEF Grants

LEMMA AllowsIffListedCorrect ==
  ASSUME NEW data, NEW header, NEW m,
         \A name \in DOMAIN data : data[name] \in Seq(Seq(Segment)),
         NEW service, NEW method, m = <<Root, service, method>>
  PROVE  AllowsIffListed(data, header, m)
  <1> DEFINE name == JoinedConsumer(header)
             methods == data[name]
             list == IF name \in DOMAIN data THEN ToSet(methods) ELSE {}
             verdict == accessCheck(data, name, m)
  <1> SUFFICES ASSUME \A e \in list : WellFormed(e)
               PROVE  auth(data, header, m).verdict = "allow"
                        <=> header # <<>> /\ {m, Wildcard(m)} \cap list # {}
    BY DEF AllowsIffListed
  <1>1. CASE header = <<>>
    BY <1>1, AuthMeans
  <1>2. CASE header # <<>> /\ name \notin DOMAIN data
    BY <1>2, AuthMeans DEF accessCheck
  <1>3. CASE header # <<>> /\ name \in DOMAIN data
    <2>1. auth(data, header, m).verdict = verdict
      BY <1>3, AuthMeans
    <2>2. methods \in Seq(Seq(Segment))
      BY <1>3
    <2>3. \A i \in DOMAIN methods : WellFormed(methods[i])
      BY <1>3 DEF ToSet
    <2>4. \A i \in DOMAIN methods :
            /\ ~Malformed(methods[i])
            /\ Grants(methods[i], m) <=> methods[i] \in {m, Wildcard(m)}
      <3> SUFFICES ASSUME NEW i \in DOMAIN methods
                   PROVE  /\ ~Malformed(methods[i])
                          /\ Grants(methods[i], m)
                               <=> methods[i] \in {m, Wildcard(m)}
        OBVIOUS
      <3> DEFINE e == methods[i]
      <3>1. e \in Seq(Segment)
        BY <2>2
      <3>2. WellFormed(e)
        BY <2>3
      <3> HIDE DEF e
      <3>3. ~Malformed(e) /\ (Grants(e, m) <=> e \in {m, Wildcard(m)})
        BY <3>1, <3>2, WellFormedGrants
      <3> QED BY <3>3 DEF e
    <2>6. {m, Wildcard(m)} \cap list # {} <=> Decisive(methods, m) # {}
      BY <1>3, <2>4 DEF Decisive, ToSet
    <2>7. verdict = "allow" <=> Decisive(methods, m) # {}
      <3>1. CASE Decisive(methods, m) = {}
        BY <1>3, <2>2, <3>1, CheckMeans
      <3>2. CASE Decisive(methods, m) # {}
        <4>1. PICK i : StopsAt(i, methods, m)
          BY <2>2, <3>2, StopsOnce
        <4>2. i \in DOMAIN methods
          BY <4>1 DEF StopsAt, Decisive
        <4>3. verdict = "allow"
          BY <1>3, <2>2, <2>4, <4>1, <4>2, CheckMeans
        <4> QED BY <3>2, <4>3
      <3> QED BY <3>1, <3>2
    <2> QED BY <1>3, <2>1, <2>6, <2>7
  <1> QED BY <1>1, <1>2, <1>3

LEMMA MalformedOnlyAfterCorrect ==
  ASSUME NEW data, NEW header, NEW m,
         \A name \in DOMAIN data : data[name] \in Seq(Seq(Segment))
  PROVE  MalformedOnlyAfter(data, header, m)
  <1> DEFINE name == JoinedConsumer(header)
             methods == IF name \in DOMAIN data THEN data[name] ELSE <<>>
             broken == {i \in DOMAIN methods : Malformed(methods[i])}
             early == {j \in DOMAIN methods : \A k \in broken : j < k}
             good == {methods[i] : i \in early}
             verdict == accessCheck(data, name, m)
  <1> SUFFICES ASSUME header # <<>>, broken # {}
               PROVE  verdict =
                        IF \E e \in good : e[2] = m[2] /\ e[3] \in {"*", m[3]}
                        THEN "allow" ELSE "panic"
    BY AuthMeans DEF MalformedOnlyAfter
  <1>1. name \in DOMAIN data /\ methods = data[name]
    OBVIOUS
  <1>2. methods \in Seq(Seq(Segment))
    BY <1>1
  <1>3. DOMAIN methods \subseteq Nat
    BY <1>2
  <1>4. broken \subseteq Decisive(methods, m)
    BY DEF Decisive
  <1>5. PICK i : StopsAt(i, methods, m)
    BY <1>2, <1>4, StopsOnce
  <1>6. i \in Decisive(methods, m) /\ i \in DOMAIN methods
        /\ \A j \in Decisive(methods, m) : i <= j
    BY <1>5 DEF StopsAt, Decisive
  <1>7. verdict = IF Malformed(methods[i]) THEN "panic" ELSE "allow"
    BY <1>1, <1>2, <1>5, <1>6, CheckMeans
  <1>8. (\E e \in good : e[2] = m[2] /\ e[3] \in {"*", m[3]})
          <=> \E j \in early : Grants(methods[j], m)
    BY DEF Grants
  <1>9. (\E j \in early : Grants(methods[j], m)) <=> ~Malformed(methods[i])
    <2>1. ASSUME NEW j \in early, Grants(methods[j], m)
          PROVE  ~Malformed(methods[i])
      <3>1. j \in Decisive(methods, m)
        BY <2>1 DEF Decisive
      <3>2. i <= j
        BY <1>6, <3>1
      <3> QED BY <1>3, <1>6, <3>2
    <2>2. ASSUME ~Malformed(methods[i])
          PROVE  i \in early /\ Grants(methods[i], m)
      <3>1. Grants(methods[i], m)
        BY <1>6, <2>2 DEF Decisive
      <3>2. \A k \in broken : i <= k /\ i # k
        BY <1>4, <1>6, <2>2
      <3> QED BY <1>3, <1>6, <3>1, <3>2
    <2> QED BY <2>1, <2>2
  <1> HIDE DEF good, early, verdict, methods
  <1> QED BY <1>7, <1>8, <1>9

THEOREM AuthDecidesCorrect == AuthSpec => []AuthDecides
  <1> USE AclAssumption
  <1>1. AuthInit => AuthDecides
    <2> SUFFICES ASSUME AuthInit PROVE AuthDecides
      OBVIOUS
    <2>1. call[1] \in Lists /\ call[3] \in Calls
      BY DEF AuthInit
    <2> DEFINE data == call[1]
               header == call[2]
               m == call[3]
    <2>2. \A name \in DOMAIN data : data[name] \in Seq(Seq(Segment))
      BY <2>1
    <2>3. \E service, method : m = <<Root, service, method>>
      BY <2>1
    <2> HIDE DEF data, header, m
    <2>4. /\ AllowsIffListed(data, header, m)
          /\ MalformedOnlyAfter(data, header, m)
      BY <2>2, <2>3, AllowsIffListedCorrect, MalformedOnlyAfterCorrect
    <2> QED BY <2>4 DEF AuthDecides, data, header, m
  <1>2. AuthDecides /\ [FALSE]_call => AuthDecides'
    BY DEF AuthDecides
  <1> QED BY <1>1, <1>2, PTL DEF AuthSpec

-----------------------------------------------------------------------------
(* Discovery: nothing is lost between consul and the balancer.             *)
DiscoveryTypes ==
  /\ consul \subseteq Address /\ curr \subseteq Address
  /\ addrs \subseteq Address
  /\ servers \in Seq(Address) /\ IsInjective(servers)
  /\ todo \in Seq(Updates) /\ batch \in Seq(Updates)
  /\ update \in Seq(Updates) /\ Len(update) <= 1
  /\ side \in Seq(Nat) /\ Len(side) <= 1
  /\ left \in Nat
  /\ inj \in {"idle", "send", "await"}
  /\ next \in {"side", "update", "done", "apply"}
  /\ main \in {"list", "dial", "inject", "loop", "dead"}

(* Before Dial has returned there is only the update of Resolve, and no    *)
(* connection before the goroutine of Resolve has received.                *)
Dialling ==
  /\ main = "list" => /\ update = <<>> /\ batch = <<>>
                      /\ addrs = {} /\ addrCh = <<>> /\ conns = {}
                      /\ next = "side" /\ ~reader
  /\ main \in {"list", "dial"} => inj = "idle"
  /\ main \in {"dial", "inject", "loop"} => servers # <<>>
  /\ reader => /\ main = "dial" /\ next # "apply"
               /\ addrCh = <<>> /\ conns = {}

(* The length that was told, and what Next has yet to receive, is what is  *)
(* still to come; while nobody waits for readDone there is nothing.        *)
Waiting == inj = "await" \/ reader

Counted ==
  /\ inj = "idle" => todo = <<>>
  /\ inj = "send" => todo # <<>>
  /\ next = "side" => batch = <<>>
  /\ ~Waiting => /\ side = <<>> /\ update = <<>>
                 /\ next \in {"side", "apply"}
  /\ Waiting =>
       LET due == Len(update) + Len(todo) IN
       \/ /\ side # <<>> /\ side[1] = due /\ due > 0
          /\ next \in {"side", "apply"}
       \/ /\ side = <<>> /\ next = "update" /\ left = due /\ due > 0
       \/ /\ side = <<>> /\ next = "done" /\ due = 0

Believed == AllApplied(addrs, OnTheWay) = Intended

DiscoveryInv ==
  DiscoveryTypes /\ (Alive => Dialling /\ Counted /\ Believed)

-----------------------------------------------------------------------------
(* Updates, and what a batch makes of a set of addresses.                  *)

LEMMA UpdateFacts ==
  /\ \A u \in Updates : u.addr \in Address /\ u.op \in {"add", "delete"}
  /\ \A a \in Address : Add(a) \in Updates /\ Delete(a) \in Updates
  /\ \A a : Add(a).addr = a /\ Add(a).op = "add"
  /\ \A a : Delete(a).addr = a /\ Delete(a).op = "delete"
  <1>1. /\ \A a : Add(a).addr = a /\ Add(a).op = "add"
        /\ \A a : Delete(a).addr = a /\ Delete(a).op = "delete"
    BY DEF Add, Delete
  <1>2. \A u : u \in Updates <=> \E a \in Address : u = Add(a) \/ u = Delete(a)
    BY DEF Updates
  <1> QED
    BY <1>1, <1>2

LEMMA NothingApplied ==
  ASSUME NEW S \in SUBSET Address
  PROVE  AllApplied(S, <<>>) = S
  BY DEF AllApplied, Names

(* Two batches one after the other are one.                                *)
LEMMA AppliedInTurn ==
  ASSUME NEW S, NEW s \in Seq(Updates), NEW t \in Seq(Updates)
  PROVE  AllApplied(AllApplied(S, s), t) = AllApplied(S, s \o t)
  <1> DEFINE n == Len(s)
             st == s \o t
             T == AllApplied(S, s)
  <1>0. /\ n \in Nat /\ Len(t) \in Nat
        /\ DOMAIN s = 1..n /\ DOMAIN t = 1..Len(t)
        /\ DOMAIN st = 1..(n + Len(t))
        /\ \A i \in 1..n : st[i] = s[i]
        /\ \A i \in 1..Len(t) : st[n + i] = t[i]
    BY ConcatProperties
  <1> HIDE DEF n, st
  <1>1. ASSUME NEW a \in Address
        PROVE  a \in AllApplied(T, t) <=> a \in AllApplied(S, st)
    <2> DEFINE N == Names(st, a)
               Ns == Names(s, a)
               Nt == Names(t, a)
    <2>1. /\ \A i : i \in Ns <=> i \in N /\ i <= n
          /\ \A i \in Nat : i \in Nt <=> n + i \in N /\ i > 0
          /\ Ns \subseteq 1..n /\ Nt \subseteq 1..Len(t)
          /\ N \subseteq 1..(n + Len(t))
      BY <1>0 DEF Names
    <2>2. \A i \in N : i > n => i - n \in Nt /\ i = n + (i - n)
      BY <1>0, <2>1
    <2>3. /\ \A i \in Ns : s[i] = st[i]
          /\ \A i \in Nt : t[i] = st[n + i]
      BY <1>0, <2>1
    <2>4. /\ a \in AllApplied(S, s) <=>
               IF Ns = {} THEN a \in S
               ELSE \E i \in Ns : IsLast(Ns, i) /\ s[i].op = "add"
          /\ a \in AllApplied(S, st) <=>
               IF N = {} THEN a \in S
               ELSE \E i \in N : IsLast(N, i) /\ st[i].op = "add"
          /\ a \in AllApplied(T, t) <=>
               IF Nt = {} THEN a \in T
               ELSE \E i \in Nt : IsLast(Nt, i) /\ t[i].op = "add"
      BY DEF AllApplied
    <2> HIDE DEF N, Ns, Nt
    <2>5. CASE Nt = {}
      <3>0. \A i \in N : i \in Nat /\ i <= n
        <4> SUFFICES ASSUME NEW i \in N PROVE i \in Nat /\ i <= n
          OBVIOUS
        <4>1. i \in Nat
          BY <1>0, <2>1
        <4>2. ~(i > n)
          BY <2>2, <2>5
        <4> QED
          BY <1>0, <4>1, <4>2
      <3>1. \A i : i \in N <=> i \in Ns
        BY <1>0, <2>1, <3>0
      <3>2. N = Ns
        BY <3>1
      <3>3. (\E i \in N : IsLast(N, i) /\ st[i].op = "add")
              <=> (\E i \in Ns : IsLast(Ns, i) /\ s[i].op = "add")
        BY <2>3, <3>2
      <3> QED
        BY <2>4, <2>5, <3>2, <3>3
    <2>6. CASE Nt # {}
      <3>0. PICK k \in Nt : TRUE
        BY <2>6
      <3>1. n + k \in N /\ N # {} /\ k > 0 /\ k \in Nat
        BY <1>0, <2>1, <3>0
      <3>2. ASSUME NEW i \in N, IsLast(N, i), st[i].op = "add"
            PROVE  \E j \in Nt : IsLast(Nt, j) /\ t[j].op = "add"
        <4>1. n + k <= i /\ i \in Nat
          BY <1>0, <2>1, <3>1, <3>2 DEF IsLast
        <4>2. i > n
          BY <1>0, <3>1, <4>1
        <4>3. i - n \in Nt /\ i = n + (i - n)
          BY <2>2, <4>2
        <4>4. t[i - n].op = "add"
          BY <2>3, <3>2, <4>3
        <4>5. \A j \in Nt : j <= i - n
          BY <1>0, <2>1, <3>2, <4>1 DEF IsLast
        <4> QED
          BY <4>3, <4>4, <4>5 DEF IsLast
      <3>3. ASSUME NEW j \in Nt, IsLast(Nt, j), t[j].op = "add"
            PROVE  \E i \in N : IsLast(N, i) /\ st[i].op = "add"
        <4>1. j \in Nat /\ n + j \in N
          BY <1>0, <2>1
        <4>2. \A i \in N : i <= n + j
          <5> SUFFICES ASSUME NEW i \in N PROVE i <= n + j
            OBVIOUS
          <5>1. i \in Nat
            BY <1>0, <2>1
          <5>2. CASE i > n
            BY <1>0, <2>1, <2>2, <3>3, <4>1, <5>1, <5>2 DEF IsLast
          <5>3. CASE ~(i > n)
            BY <1>0, <4>1, <5>1, <5>3
          <5> QED
            BY <5>2, <5>3
        <4>3. st[n + j].op = "add"
          BY <2>3, <3>3
        <4> QED
          BY <4>1, <4>2, <4>3 DEF IsLast
      <3> QED
        BY <2>4, <2>6, <3>1, <3>2, <3>3
    <2> QED
      BY <2>5, <2>6
  <1>2. /\ AllApplied(T, t) \subseteq Address
        /\ AllApplied(S, st) \subseteq Address
    BY DEF AllApplied
  <1>3. AllApplied(T, t) = AllApplied(S, st)
    BY <1>1, <1>2
  <1> QED
    BY <1>3 DEF st

(* A batch that names no address twice, and adds and deletes exactly some. *)
NamesOnce(us) == \A i, j \in DOMAIN us : us[i].addr = us[j].addr => i = j

Says(us, op, S) ==
  \A a : (\E i \in DOMAIN us : us[i].addr = a /\ us[i].op = op) <=> a \in S

LEMMA AppliedOnce ==
  ASSUME NEW S \in SUBSET Address, NEW us \in Seq(Updates), NamesOnce(us)
  PROVE  \A a \in Address :
           a \in AllApplied(S, us) <=>
             \/ \E i \in DOMAIN us : us[i].addr = a /\ us[i].op = "add"
             \/ a \in S /\ \A i \in DOMAIN us : us[i].addr # a
  <1> SUFFICES ASSUME NEW a \in Address
               PROVE  a \in AllApplied(S, us) <=>
                 \/ \E i \in DOMAIN us : us[i].addr = a /\ us[i].op = "add"
                 \/ a \in S /\ \A i \in DOMAIN us : us[i].addr # a
    OBVIOUS
  <1>0. DOMAIN us \subseteq Nat
    OBVIOUS
  <1>1. \A i \in Names(us, a) : IsLast(Names(us, a), i)
    BY <1>0 DEF Names, IsLast, NamesOnce
  <1> QED
    BY <1>1 DEF AllApplied, Names

(* The orders in which the range over a map may visit it.                  *)
LEMMA SeqsOfSet ==
  ASSUME NEW S, IsFiniteSet(S), NEW s \in SetToSeqs(S)
  PROVE  s \in Seq(S) /\ IsInjective(s) /\ ToSet(s) = S
  <1> DEFINE n == Cardinality(S)
             D == 1..n
  <1>1. n \in Nat
    BY FS_CardinalityType
  <1>2. s \in [D -> S] /\ \A i, j \in D : i # j => s[i] # s[j]
    BY DEF SetToSeqs
  <1>3. IsInjective(s)
    BY <1>2 DEF IsInjective
  <1>4. s \in Injection(D, S)
    BY <1>2, <1>3 DEF Injection
  <1>5. Cardinality(D) = n
    <2>1. n \in Int /\ 1 \in Int /\ (1 > n => n = 0)
      BY <1>1
    <2>2. Cardinality(D) = IF 1 > n THEN 0 ELSE n - 1 + 1
      BY <2>1, FS_Interval
    <2> QED
      BY <1>1, <2>1, <2>2
  <1>6. s \in Surjection(D, S)
    BY <1>4, <1>5, FS_Injection
  <1>7. ToSet(s) = S
    BY <1>2, <1>6 DEF Surjection, ToSet
  <1>8. s \in Seq(S)
    BY <1>1, <1>2
  <1> QED
    BY <1>3, <1>7, <1>8

(* The differences of two sets: everything that is in one only is named    *)
(* once.                                                                   *)
LEMMA AddsAre ==
  ASSUME NEW s \in Seq(Address)
  PROVE  /\ Adds(s) \in Seq(Updates) /\ Len(Adds(s)) = Len(s)
         /\ \A i \in 1..Len(s) : Adds(s)[i] = Add(s[i])
         /\ Deletes(s) \in Seq(Updates) /\ Len(Deletes(s)) = Len(s)
         /\ \A i \in 1..Len(s) : Deletes(s)[i] = Delete(s[i])
  <1>1. \A i \in 1..Len(s) : Add(s[i]) \in Updates /\ Delete(s[i]) \in Updates
    BY UpdateFacts
  <1>2. Adds(s) = [i \in 1..Len(s) |-> Add(s[i])]
    BY DEF Adds
  <1>3. Deletes(s) = [i \in 1..Len(s) |-> Delete(s[i])]
    BY DEF Deletes
  <1> QED
    BY <1>1, <1>2, <1>3

LEMMA DifferencesAre ==
  ASSUME NEW old \in SUBSET Address, NEW new \in SUBSET Address,
         NEW s \in SetToSeqs(old \ new), NEW t \in SetToSeqs(new \ old),
         NEW us, us = Deletes(s) \o Adds(t)
  PROVE  /\ us \in Seq(Updates) /\ NamesOnce(us)
         /\ Says(us, "add", new \ old) /\ Says(us, "delete", old \ new)
         /\ old # new => us # <<>>
  <1>2. IsFiniteSet(old \ new) /\ IsFiniteSet(new \ old)
    BY DiscoveryAssumption, FS_Subset
  <1>3. /\ s \in Seq(old \ new) /\ IsInjective(s) /\ ToSet(s) = old \ new
        /\ t \in Seq(new \ old) /\ IsInjective(t) /\ ToSet(t) = new \ old
    BY <1>2, SeqsOfSet
  <1>4. s \in Seq(Address) /\ t \in Seq(Address)
    BY <1>3
  <1> DEFINE n == Len(s)
             m == Len(t)
  <1>5. /\ n \in Nat /\ m \in Nat
        /\ us \in Seq(Updates) /\ Len(us) = n + m /\ DOMAIN us = 1..(n + m)
        /\ \A i \in 1..(n + m) :
             us[i] = IF i <= n THEN Delete(s[i]) ELSE Add(t[i - n])
    <2>1. /\ Deletes(s) \in Seq(Updates) /\ Len(Deletes(s)) = n
          /\ \A i \in 1..n : Deletes(s)[i] = Delete(s[i])
          /\ Adds(t) \in Seq(Updates) /\ Len(Adds(t)) = m
          /\ \A i \in 1..m : Adds(t)[i] = Add(t[i])
      BY <1>4, AddsAre
    <2>2. n \in Nat /\ m \in Nat
      BY <1>4
    <2>3. /\ us \in Seq(Updates) /\ Len(us) = n + m
          /\ \A i \in 1..(n + m) :
               us[i] = IF i <= n THEN Deletes(s)[i] ELSE Adds(t)[i - n]
      <3> DEFINE d == Deletes(s)
                 a == Adds(t)
      <3>1. us = d \o a
        OBVIOUS
      <3> HIDE DEF d, a, n, m
      <3>2. /\ d \in Seq(Updates) /\ Len(d) = n
            /\ a \in Seq(Updates) /\ Len(a) = m
        BY <2>1 DEF d, a
      <3>3. /\ us \in Seq(Updates) /\ Len(us) = n + m
            /\ \A i \in 1..(n + m) :
                 us[i] = IF i <= n THEN d[i] ELSE a[i - n]
        BY <3>1, <3>2, ConcatProperties
      <3> QED
        BY <3>3 DEF d, a
    <2>4. \A i \in 1..(n + m) : IF i <= n THEN i \in 1..n ELSE i - n \in 1..m
      BY <2>2
    <2> HIDE DEF n, m
    <2> QED
      BY <2>1, <2>2, <2>3, <2>4
  <1>6. \A i \in 1..(n + m) :
          IF i <= n
          THEN /\ i \in 1..n /\ us[i].op = "delete" /\ us[i].addr = s[i]
               /\ s[i] \in old \ new
          ELSE /\ i - n \in 1..m /\ us[i].op = "add" /\ us[i].addr = t[i - n]
               /\ t[i - n] \in new \ old
    <2>1. \A i \in 1..n : s[i] \in old \ new
      BY <1>3
    <2>2. \A i \in 1..m : t[i] \in new \ old
      BY <1>3
    <2> HIDE DEF n, m
    <2> QED
      BY <1>5, <2>1, <2>2, UpdateFacts
  <1>7. /\ \A a \in old \ new : \E i \in 1..n : s[i] = a
        /\ \A a \in new \ old : \E i \in 1..m : t[i] = a
    BY <1>3 DEF ToSet
  <1>8. /\ \A i, j \in 1..n : s[i] = s[j] => i = j
        /\ \A i, j \in 1..m : t[i] = t[j] => i = j
    BY <1>3 DEF IsInjective
  <1> HIDE DEF n, m
  <1>9. \A i, j \in DOMAIN us : us[i].addr = us[j].addr => i = j
    <2> SUFFICES ASSUME NEW i \in 1..(n + m), NEW j \in 1..(n + m),
                        us[i].addr = us[j].addr
                 PROVE  i = j
      BY <1>5
    <2>1. CASE i <= n /\ j <= n
      <3>1. i \in 1..n /\ j \in 1..n /\ s[i] = s[j]
        BY <1>6, <2>1
      <3> QED
        BY <1>8, <3>1
    <2>2. CASE ~(i <= n) /\ ~(j <= n)
      <3>0. i - n \in 1..m /\ j - n \in 1..m /\ t[i - n] = t[j - n]
        BY <1>6, <2>2
      <3>1. i - n = j - n
        BY <1>8, <3>0
      <3> QED
        BY <1>5, <3>1
    <2>3. CASE i <= n /\ ~(j <= n)
      BY <1>6, <2>3
    <2>4. CASE ~(i <= n) /\ j <= n
      BY <1>6, <2>4
    <2> QED
      BY <2>1, <2>2, <2>3, <2>4
  <1>10. \A a : (\E i \in DOMAIN us : us[i].addr = a /\ us[i].op = "add")
                 <=> a \in new \ old
    <2>1. ASSUME NEW a \in new \ old
          PROVE  \E i \in 1..(n + m) : us[i].addr = a /\ us[i].op = "add"
      <3>1. PICK i \in 1..m : t[i] = a
        BY <1>7
      <3>2. n + i \in 1..(n + m) /\ ~(n + i <= n) /\ (n + i) - n = i
        BY <1>5
      <3> QED
        BY <1>6, <3>1, <3>2
    <2>2. ASSUME NEW i \in 1..(n + m), us[i].op = "add"
          PROVE  us[i].addr \in new \ old
      BY <1>6, <2>2
    <2>3. DOMAIN us = 1..(n + m)
      BY <1>5
    <2>4. ASSUME NEW a, NEW i \in DOMAIN us, us[i].addr = a,
                 us[i].op = "add"
          PROVE  a \in new \ old
      BY <2>2, <2>3, <2>4
    <2>5. ASSUME NEW a \in new \ old
          PROVE  \E i \in DOMAIN us : us[i].addr = a /\ us[i].op = "add"
      <3>1. \E i \in 1..(n + m) : us[i].addr = a /\ us[i].op = "add"
        BY <2>1
      <3> QED
        BY <2>3, <3>1, Zenon
    <2> QED
      BY <2>4, <2>5, Zenon
  <1>11. \A a : (\E i \in DOMAIN us : us[i].addr = a /\ us[i].op = "delete")
                 <=> a \in old \ new
    <2>1. ASSUME NEW a \in old \ new
          PROVE  \E i \in 1..(n + m) : us[i].addr = a /\ us[i].op = "delete"
      <3>1. PICK i \in 1..n : s[i] = a
        BY <1>7
      <3>2. i \in 1..(n + m) /\ i <= n
        BY <1>5
      <3> QED
        BY <1>6, <3>1, <3>2
    <2>2. ASSUME NEW i \in 1..(n + m), us[i].op = "delete"
          PROVE  us[i].addr \in old \ new
      BY <1>6, <2>2
    <2>3. DOMAIN us = 1..(n + m)
      BY <1>5
    <2>4. ASSUME NEW a, NEW i \in DOMAIN us, us[i].addr = a,
                 us[i].op = "delete"
          PROVE  a \in old \ new
      BY <2>2, <2>3, <2>4
    <2>5. ASSUME NEW a \in old \ new
          PROVE  \E i \in DOMAIN us : us[i].addr = a /\ us[i].op = "delete"
      <3>1. \E i \in 1..(n + m) : us[i].addr = a /\ us[i].op = "delete"
        BY <2>1
      <3> QED
        BY <2>3, <3>1, Zenon
    <2> QED
      BY <2>4, <2>5, Zenon
  <1>12. old # new => us # <<>>
    <2> SUFFICES ASSUME us = <<>> PROVE old = new
      OBVIOUS
    <2>1. DOMAIN us = {}
      OBVIOUS
    <2> QED
      BY <1>10, <1>11, <2>1
  <1> QED
    BY <1>5, <1>9, <1>10, <1>11, <1>12, Zenon DEF NamesOnce, Says

LEMMA AllAppliedType ==
  ASSUME NEW S, NEW us
  PROVE  AllApplied(S, us) \subseteq Address
  BY DEF AllApplied

-----------------------------------------------------------------------------
(* The updates on their way, from channel to channel.                      *)

LEMMA HeadMoves ==
  ASSUME NEW s \in Seq(Updates), s # <<>>
  PROVE  <<Head(s)>> \o Tail(s) = s /\ Head(s) \in Updates
         /\ Tail(s) \in Seq(Updates) /\ Len(Tail(s)) = Len(s) - 1
  <1>1. Head(s) \in Updates /\ Tail(s) \in Seq(Updates)
        /\ Len(Tail(s)) = Len(s) - 1 /\ <<Head(s)>> \in Seq(Updates)
    BY HeadTailProperties
  <1>2. <<Head(s)>> \o Tail(s) = s
    <2> DEFINE h == <<Head(s)>>
               t == Tail(s)
    <2>1. /\ Len(h \o t) = Len(s) /\ h \o t \in Seq(Updates)
          /\ \A i \in 1..Len(s) :
               (h \o t)[i] = IF i <= 1 THEN h[i] ELSE t[i - 1]
      BY <1>1, ConcatProperties
    <2>2. \A i \in 1..Len(t) : t[i] = s[i + 1]
      BY HeadTailProperties
    <2>3. \A i \in 1..Len(s) : (h \o t)[i] = s[i]
      BY <1>1, <2>1, <2>2
    <2> QED
      BY <2>1, <2>3, SeqEqual
  <1> QED
    BY <1>1, <1>2

LEMMA OnlyOne ==
  ASSUME NEW V, NEW s \in Seq(V), Len(s) <= 1, s # <<>>
  PROVE  s = <<s[1]>> /\ s[1] \in V /\ Len(s) = 1
  <1>1. Len(s) = 1 /\ s[1] \in V
    <2>1. Len(s) \in Nat /\ s \in [1..Len(s) -> V]
      BY LenProperties
    <2>2. Len(s) # 0
      BY EmptySeq
    <2>3. Len(s) = 1
      BY <2>1, <2>2
    <2>4. 1 \in 1..Len(s)
      BY <2>3
    <2> QED
      BY <2>1, <2>3, <2>4
  <1>2. <<s[1]>> \in Seq(V) /\ Len(<<s[1]>>) = 1
    BY <1>1
  <1>3. \A i \in 1..Len(s) : s[i] = <<s[1]>>[i]
    BY <1>1
  <1>4. s = <<s[1]>>
    BY <1>1, <1>2, <1>3, SeqEqual
  <1> QED
    BY <1>1, <1>4

(* What the channels carry is applied in turn.                             *)
LEMMA OnTheWayIsSeq ==
  ASSUME DiscoveryTypes
  PROVE  /\ OnTheWay \in Seq(Updates)
         /\ OnTheWay = batch \o (update \o todo)
<1>1. batch \in Seq(Updates) /\ update \in Seq(Updates) /\ todo \in Seq(Updates)
  BY DEF DiscoveryTypes
<1>2. update \o todo \in Seq(Updates)
  BY <1>1, ConcatProperties
<1>3. batch \o (update \o todo) \in Seq(Updates)
  BY <1>1, <1>2, ConcatProperties
<1>4. (batch \o update) \o todo = batch \o (update \o todo)
  BY <1>1, ConcatAssociative
<1> QED
  BY <1>3, <1>4 DEF OnTheWay

(* What a tick finds.                                                      *)
LEMMA PollFinds ==
  ASSUME DiscoveryTypes, Poll
  PROVE  /\ todo' \in Seq(Updates) /\ todo' # <<>> /\ NamesOnce(todo')
         /\ Says(todo', "add", consul \ curr)
         /\ Says(todo', "delete", curr \ consul)
  <1>1. PICK s \in SetToSeqs(curr \ consul), t \in SetToSeqs(consul \ curr) :
          todo' = Deletes(s) \o Adds(t)
    BY DEF Poll
  <1>2. /\ curr # consul
        /\ curr \in SUBSET Address /\ consul \in SUBSET Address
    BY DEF Poll, DiscoveryTypes
  <1> QED
    BY <1>1, <1>2, DifferencesAre, Zenon

-----------------------------------------------------------------------------
LEMMA DiscoveryTypesHold ==
  ASSUME DiscoveryInv, [Next]_vars
  PROVE  DiscoveryTypes'
  <1> USE DiscoveryAssumption
  <1> USE DEF DiscoveryInv, DiscoveryTypes
  <1>1. ASSUME NEW a \in Address, StartServer(a) \/ StopServer(a)
        PROVE  DiscoveryTypes'
    BY <1>1 DEF StartServer, StopServer, client, injector, watcher, balancer
  <1>2. CASE NoServers \/ ConsulFails
    BY <1>2 DEF NoServers, ConsulFails, environment, client, injector,
                watcher, balancer
  <1>3. CASE ListServers
    <2>1. /\ consul # {} /\ servers' \in SetToSeqs(consul) /\ main' = "dial"
          /\ side' = <<1>> /\ update' = <<Add(servers'[1])>>
          /\ UNCHANGED <<consul, curr, todo, batch, left, inj, next, addrs>>
      BY <1>3 DEF ListServers, Resolve, environment, injector, watcher,
                  balancer
    <2>2. IsFiniteSet(consul)
      BY FS_Subset
    <2>3. /\ servers' \in Seq(consul) /\ IsInjective(servers')
          /\ ToSet(servers') = consul
      BY <2>1, <2>2, SeqsOfSet
    <2>4. servers' \in Seq(Address) /\ servers'[1] \in Address
      BY <2>1, <2>3 DEF ToSet
    <2>5. Add(servers'[1]) \in Updates
      BY <2>4, UpdateFacts
    <2> QED
      BY <2>1, <2>3, <2>4, <2>5
  <1>4. CASE Dialled
    <2>1. /\ main' = "inject" /\ inj' \in {"send", "idle"}
          /\ todo' = [i \in 1..(Len(servers) - 1) |-> Add(servers[i + 1])]
          /\ UNCHANGED <<consul, servers, curr, side, update, batch, left,
                         next, addrs>>
      BY <1>4 DEF Dialled, environment, watcher, balancer
    <2>2. main = "dial" /\ Alive
      BY <1>4 DEF Dialled, Alive
    <2>3. Len(servers) - 1 \in Nat
      BY <2>2 DEF Dialling
    <2>4. \A i \in 1..(Len(servers) - 1) : Add(servers[i + 1]) \in Updates
      BY <2>3, UpdateFacts
    <2>5. todo' \in Seq(Updates)
      BY <2>1, <2>3, <2>4
    <2> QED
      BY <2>1, <2>5
  <1>5. CASE StartDiscovery
    <2>1. ToSet(servers) \subseteq Address
      BY DEF ToSet
    <2> QED
      BY <1>5, <2>1 DEF StartDiscovery, environment, injector, watcher,
                        balancer
  <1>6. CASE Poll
    <2>1. /\ curr' = consul /\ inj' = "send"
          /\ UNCHANGED <<consul, servers, main, side, update, batch, left,
                         next, addrs>>
      BY <1>6 DEF Poll, environment, watcher, balancer
    <2>2. todo' \in Seq(Updates)
      BY <1>6, PollFinds
    <2> QED
      BY <2>1, <2>2
  <1>7. CASE Announce
    <2>1. Len(todo) \in Nat
      OBVIOUS
    <2> QED
      BY <1>7, <2>1 DEF Announce, environment, client, watcher, balancer
  <1>8. CASE SendUpdate
    <2>1. Head(todo) \in Updates /\ Tail(todo) \in Seq(Updates)
      BY <1>8, HeadTailProperties DEF SendUpdate
    <2> QED
      BY <1>8, <2>1 DEF SendUpdate, environment, client, watcher, balancer
  <1>9. CASE ReceiveLength
    <2>1. side[1] \in Nat
      BY <1>9 DEF ReceiveLength
    <2> QED
      BY <1>9, <2>1 DEF ReceiveLength, environment, client, injector, balancer
  <1>10. CASE ReceiveUpdate
    <2>1. /\ update # <<>> /\ Alive /\ next = "update"
          /\ batch' = Append(batch, update[1]) /\ update' = <<>>
          /\ left' = left - 1 /\ next' \in {"done", "update"}
          /\ UNCHANGED <<consul, servers, curr, main, todo, side, inj, addrs>>
      BY <1>10 DEF ReceiveUpdate, environment, client, injector, balancer
    <2>2. update[1] \in Updates
      BY <2>1
    <2>3. batch' \in Seq(Updates)
      BY <2>1, <2>2, AppendProperties
    <2>4. left - 1 \in Nat
      BY <2>1 DEF Counted
    <2> QED
      BY <2>1, <2>3, <2>4
  <1>11. CASE ReadDone
    BY <1>11 DEF ReadDone, environment, client, balancer
  <1>12. CASE Apply
    BY <1>12, AllAppliedType DEF Apply, environment, client, injector
  <1>13. CASE Connect
    BY <1>13 DEF Connect, environment, client, injector, watcher
  <1>14. CASE UNCHANGED vars
    BY <1>14 DEF vars, environment, client, injector, watcher, balancer
  <1> QED
    BY <1>1, <1>2, <1>3, <1>4, <1>5, <1>6, <1>7, <1>8, <1>9, <1>10, <1>11,
       <1>12, <1>13, <1>14 DEF Next

(* The channels: one case for each step of the client's goroutines.        *)
LEMMA CountedHolds ==
  ASSUME DiscoveryInv, [Next]_vars, Alive'
  PROVE  Dialling' /\ Counted'
  <1> USE DEF DiscoveryInv, DiscoveryTypes, Dialling, Counted, Waiting, Alive
  <1>1. ASSUME NEW a \in Address, StartServer(a) \/ StopServer(a)
        PROVE  Dialling' /\ Counted'
    BY <1>1 DEF StartServer, StopServer, client, injector, watcher, balancer
  <1>2. CASE NoServers \/ ConsulFails
    BY <1>2 DEF NoServers, ConsulFails
  <1>3. CASE ListServers
    <2>1. /\ main = "list" /\ main' = "dial" /\ servers' \in SetToSeqs(consul)
          /\ side' = <<1>> /\ update' = <<Add(servers'[1])>> /\ reader' = TRUE
          /\ consul # {}
          /\ UNCHANGED <<inj, todo, next, left, batch, addrs, addrCh, conns>>
      BY <1>3 DEF ListServers, Resolve, environment, injector, watcher,
                  balancer
    <2>2. IsFiniteSet(consul)
      BY DiscoveryAssumption, FS_Subset
    <2>3. servers' # <<>>
      BY <2>1, <2>2, SeqsOfSet DEF ToSet
    <2>4. todo = <<>> /\ inj = "idle" /\ next = "side" /\ batch = <<>>
      BY <2>1
    <2>5. /\ Len(update') + Len(todo') = 1 /\ side'[1] = 1 /\ side' # <<>>
      BY <2>1, <2>4
    <2> QED
      BY <2>1, <2>3, <2>4, <2>5
  <1>4. CASE Dialled
    <2>1. /\ main = "dial" /\ main' = "inject" /\ conns # {}
          /\ todo' = [i \in 1..(Len(servers) - 1) |-> Add(servers[i + 1])]
          /\ inj' = IF Len(servers) > 1 THEN "send" ELSE "idle"
          /\ UNCHANGED <<servers, curr, side, update, reader, next, batch,
                         left, addrs, addrCh, conns>>
      BY <1>4 DEF Dialled, environment, watcher, balancer
    <2>2. ~reader /\ inj = "idle" /\ Len(servers) \in Nat /\ Len(servers) > 0
      BY <2>1
    <2>3. IF Len(servers) > 1 THEN todo' # <<>> ELSE todo' = <<>>
      <3>1. Len(todo') = Len(servers) - 1 /\ todo' \in Seq(Updates)
        BY <2>1, <2>2, DiscoveryTypesHold DEF Updates
      <3> QED
        BY <2>2, <3>1
    <2> QED
      BY <2>1, <2>2, <2>3
  <1>5. CASE StartDiscovery
    BY <1>5 DEF StartDiscovery, environment, injector, watcher, balancer
  <1>6. CASE Poll
    <2>1. /\ main = "loop" /\ inj = "idle" /\ inj' = "send"
          /\ UNCHANGED <<main, servers, side, update, reader, next, batch,
                         left, addrs, addrCh, conns>>
      BY <1>6 DEF Poll, environment, watcher, balancer
    <2>6. todo' # <<>>
      BY <1>6, PollFinds
    <2>7. ~reader
      BY <2>1
    <2> QED
      BY <2>1, <2>6, <2>7
  <1>7. CASE Announce
    <2>1. /\ main # "dead" /\ inj = "send" /\ side = <<>>
          /\ side' = <<Len(todo)>> /\ inj' = "await"
          /\ UNCHANGED <<main, servers, todo, update, reader, next, batch,
                         left, addrs, addrCh, conns>>
      BY <1>7 DEF Announce, environment, client, watcher, balancer
    <2>2. ~reader
      BY <2>1
    <2>3. side' # <<>> /\ side'[1] = Len(todo) /\ Len(todo) > 0
      BY <2>1
    <2> QED
      BY <2>1, <2>2, <2>3
  <1>8. CASE SendUpdate
    <2>1. /\ main # "dead" /\ inj = "await" /\ todo # <<>> /\ update = <<>>
          /\ update' = <<Head(todo)>> /\ todo' = Tail(todo)
          /\ UNCHANGED <<main, servers, inj, side, reader, next, batch,
                         left, addrs, addrCh, conns>>
      BY <1>8 DEF SendUpdate, environment, client, watcher, balancer
    <2>2. todo \in Seq(Updates)
      OBVIOUS
    <2>3. Len(update') + Len(todo') = Len(update) + Len(todo)
      <3>1. Len(Tail(todo)) = Len(todo) - 1 /\ Len(todo) \in Nat
        BY <2>1, <2>2, HeadTailProperties
      <3>2. Len(update) = 0 /\ Len(update') = 1
        BY <2>1
      <3>3. Len(todo') = Len(Tail(todo))
        BY <2>1
      <3> QED
        BY <3>1, <3>2, <3>3
    <2>4. ~reader /\ Len(update) + Len(todo) > 0
      <3>1. Len(update) = 0 /\ Len(todo) > 0
        BY <2>1, <2>2
      <3> QED
        BY <2>1, <3>1
    <2> QED
      BY <2>1, <2>3, <2>4
  <1>9. CASE ReceiveLength
    <2>1. /\ main # "dead" /\ next = "side" /\ side # <<>>
          /\ left' = side[1] /\ side' = <<>> /\ next' = "update"
          /\ batch' = <<>>
          /\ UNCHANGED <<main, servers, inj, todo, update, reader,
                         addrs, addrCh, conns>>
      BY <1>9 DEF ReceiveLength, environment, client, injector, balancer
    <2>2. Waiting
      BY <2>1
    <2> QED
      BY <2>1, <2>2
  <1>10. CASE ReceiveUpdate
    <2>1. /\ main # "dead" /\ next = "update" /\ update # <<>>
          /\ update' = <<>> /\ left' = left - 1
          /\ next' = IF left = 1 THEN "done" ELSE "update"
          /\ UNCHANGED <<main, servers, inj, todo, side, reader,
                         addrs, addrCh, conns>>
      BY <1>10 DEF ReceiveUpdate, environment, client, injector, balancer
    <2>2. /\ Waiting /\ side = <<>> /\ left = Len(update) + Len(todo)
          /\ Len(update) = 1 /\ Len(todo) \in Nat
      <3>1. Waiting /\ side = <<>> /\ left = Len(update) + Len(todo)
        BY <2>1
      <3>2. Len(update) = 1 /\ Len(todo) \in Nat
        BY <2>1, OnlyOne
      <3> QED
        BY <3>1, <3>2
    <2>3. Len(update') = 0
      BY <2>1
    <2>4. main # "list"
      BY <2>1
    <2> QED
      BY <2>1, <2>2, <2>3, <2>4
  <1>11. CASE ReadDone
    <2>1. /\ main # "dead" /\ next = "done" /\ next' = "apply"
          /\ \/ reader /\ ~reader' /\ inj' = inj
             \/ inj = "await" /\ inj' = "idle" /\ reader' = reader
          /\ UNCHANGED <<main, servers, todo, side, update, batch,
                         addrs, addrCh, conns>>
      BY <1>11 DEF ReadDone, environment, client, balancer
    <2>2. /\ Waiting /\ side = <<>> /\ Len(update) + Len(todo) = 0
      BY <2>1
    <2>3. update = <<>> /\ todo = <<>>
      BY <2>2
    <2>4. ~(reader /\ inj = "await") /\ ~Waiting' /\ main # "list"
      BY <2>1
    <2>5. inj' = "idle"
      BY <2>1, <2>4
    <2> QED
      BY <2>1, <2>2, <2>3, <2>4, <2>5
  <1>12. CASE Apply
    BY <1>12 DEF Apply, environment, client, injector
  <1>13. CASE Connect
    BY <1>13 DEF Connect, environment, client, injector, watcher
  <1>14. CASE UNCHANGED vars
    BY <1>14 DEF vars, environment, client, injector, watcher, balancer
  <1> QED
    BY <1>1, <1>2, <1>3, <1>4, <1>5, <1>6, <1>7, <1>8, <1>9, <1>10, <1>11,
       <1>12, <1>13, <1>14 DEF Next

(* A step of the client that hands a batch to inject while nothing is in   *)
(* the channels: the batch is applied to what the client believed.         *)
LEMMA BatchHanded ==
  ASSUME DiscoveryTypes, Believed, todo = <<>>, update = <<>>,
         update' = <<>>, batch' = batch, addrs' = addrs,
         todo' \in Seq(Updates)
  PROVE  AllApplied(addrs', OnTheWay') = AllApplied(Intended, todo')
  <1>1. batch \in Seq(Updates)
    BY DEF DiscoveryTypes
  <1>2. OnTheWay = batch
    BY <1>1, ConcatEmptySeq DEF OnTheWay
  <1>3. OnTheWay' = batch \o todo'
    BY <1>1, ConcatEmptySeq DEF OnTheWay
  <1>4. AllApplied(AllApplied(addrs, batch), todo')
          = AllApplied(addrs, batch \o todo')
    BY <1>1, AppliedInTurn
  <1> QED
    BY <1>2, <1>3, <1>4 DEF Believed

LEMMA DialledTells ==
  ASSUME DiscoveryTypes, Dialled, servers # <<>>
  PROVE  /\ todo' \in Seq(Updates) /\ NamesOnce(todo')
         /\ \A a \in Address :
              (\E i \in DOMAIN todo' :
                 todo'[i].addr = a /\ todo'[i].op = "add")
              <=> a \in ToSet(servers) /\ a # servers[1]
         /\ \A i \in DOMAIN todo' : todo'[i].addr # servers[1]
         /\ servers[1] \in ToSet(servers)
  <1> DEFINE n == Len(servers)
             us == todo'
  <1>1. /\ n \in Nat /\ n > 0 /\ servers \in [1..n -> Address]
    BY DEF DiscoveryTypes
  <1>2. us = [i \in 1..(n - 1) |-> Add(servers[i + 1])]
    BY DEF Dialled
  <1> HIDE DEF n, us
  <1>3. \A i \in 1..(n - 1) :
          /\ us[i] = Add(servers[i + 1]) /\ i + 1 \in 1..n
          /\ servers[i + 1] \in Address
    BY <1>1, <1>2
  <1>4. \A i \in 1..(n - 1) :
          us[i] \in Updates /\ us[i].addr = servers[i + 1] /\ us[i].op = "add"
    BY <1>3, UpdateFacts
  <1>5. n - 1 \in Nat /\ DOMAIN us = 1..(n - 1)
    BY <1>1, <1>2
  <1>6. us \in Seq(Updates)
    <2>1. us \in [1..(n - 1) -> Updates]
      BY <1>2, <1>4
    <2> QED
      BY <1>5, <2>1
  <1>7. \A i, j \in 1..n : servers[i] = servers[j] => i = j
    BY <1>1 DEF DiscoveryTypes, IsInjective
  <1>8. NamesOnce(us)
    <2> SUFFICES ASSUME NEW i \in 1..(n - 1), NEW j \in 1..(n - 1),
                        us[i].addr = us[j].addr
                 PROVE  i = j
      BY <1>5 DEF NamesOnce
    <2>1. i + 1 = j + 1
      BY <1>3, <1>4, <1>7
    <2> QED
      BY <1>5, <2>1
  <1>9. \A i \in 1..(n - 1) : us[i].addr # servers[1]
    <2> SUFFICES ASSUME NEW i \in 1..(n - 1), servers[i + 1] = servers[1]
                 PROVE  FALSE
      BY <1>4
    <2>1. i + 1 = 1
      BY <1>1, <1>3, <1>7
    <2> QED
      BY <1>5, <2>1
  <1>10. servers[1] \in ToSet(servers)
    BY <1>1 DEF ToSet
  <1>11. ASSUME NEW a \in Address
         PROVE  (\E i \in 1..(n - 1) : us[i].addr = a /\ us[i].op = "add")
                <=> a \in ToSet(servers) /\ a # servers[1]
    <2>1. ASSUME NEW i \in 1..(n - 1), us[i].addr = a
          PROVE  a \in ToSet(servers) /\ a # servers[1]
      BY <1>1, <1>3, <1>4, <1>9, <2>1 DEF ToSet
    <2>2. ASSUME a \in ToSet(servers), a # servers[1]
          PROVE  \E i \in 1..(n - 1) : us[i].addr = a /\ us[i].op = "add"
      <3>1. PICK j \in 1..n : servers[j] = a
        BY <1>1, <2>2 DEF ToSet
      <3>2. j - 1 \in 1..(n - 1) /\ (j - 1) + 1 = j
        BY <1>1, <2>2, <3>1
      <3> QED
        BY <1>4, <3>1, <3>2
    <2> QED
      BY <2>1, <2>2
  <1>12. \A a \in Address :
           (\E i \in DOMAIN us : us[i].addr = a /\ us[i].op = "add")
           <=> a \in ToSet(servers) /\ a # servers[1]
    BY <1>5, <1>11
  <1> QED
    BY <1>5, <1>6, <1>8, <1>9, <1>10, <1>12 DEF us

LEMMA BelievedHolds ==
  ASSUME DiscoveryInv, [Next]_vars, Alive'
  PROVE  Believed'
  <1>0. Alive /\ DiscoveryTypes /\ Dialling /\ Counted /\ Believed
    BY DEF DiscoveryInv, Next, vars, client, environment, Alive, StartServer,
           StopServer, NoServers, ConsulFails, ListServers, Dialled,
           StartDiscovery, Poll, Announce, SendUpdate, ReceiveLength,
           ReceiveUpdate, ReadDone, Apply, Connect
  <1>1. CASE UNCHANGED <<main, servers, curr, todo, update, batch, addrs>>
    BY <1>0, <1>1 DEF Believed, Intended, OnTheWay
  <1>2. CASE NoServers \/ ConsulFails
    BY <1>2 DEF NoServers, ConsulFails, Alive
  <1>3. CASE ListServers
    <2> DEFINE x == servers'[1]
               us == <<Add(x)>>
    <2>1. /\ main = "list" /\ main' = "dial" /\ consul # {}
          /\ servers' \in SetToSeqs(consul)
          /\ update' = us /\ todo' = todo /\ batch' = batch /\ addrs' = addrs
      BY <1>3 DEF ListServers, Resolve, injector, watcher, balancer
    <2>2. todo = <<>> /\ batch = <<>> /\ addrs = {}
      BY <1>0, <2>1 DEF Dialling, Counted
    <2>3. x \in Address
      <3>1. IsFiniteSet(consul) /\ consul \subseteq Address
        BY <1>0, DiscoveryAssumption, FS_Subset DEF DiscoveryTypes
      <3>2. servers' \in Seq(consul) /\ ToSet(servers') = consul
        BY <2>1, <3>1, SeqsOfSet
      <3> QED
        BY <2>1, <3>1, <3>2 DEF ToSet
    <2>4. /\ us \in Seq(Updates) /\ DOMAIN us = {1}
          /\ us[1].addr = x /\ us[1].op = "add"
      BY <2>3, UpdateFacts
    <2> HIDE DEF us, x
    <2>5. OnTheWay' = us
      BY <2>1, <2>2, <2>4, ConcatEmptySeq DEF OnTheWay
    <2>6. NamesOnce(us)
      BY <2>4 DEF NamesOnce
    <2>7. \A a \in Address : a \in AllApplied({}, us) <=> a = x
      BY <2>4, <2>6, AppliedOnce
    <2>8. AllApplied({}, us) = {x}
      BY <2>3, <2>7, AllAppliedType
    <2>9. Intended' = {x}
      BY <2>1 DEF Intended, x
    <2> QED
      BY <2>1, <2>2, <2>5, <2>8, <2>9 DEF Believed
  <1>4. CASE Dialled
    <2> DEFINE us == todo'
    <2>1. /\ main = "dial" /\ main' = "inject" /\ conns # {}
          /\ servers' = servers /\ update' = update /\ batch' = batch
          /\ addrs' = addrs
      BY <1>4 DEF Dialled, environment, watcher, balancer
    <2>2. /\ todo = <<>> /\ update = <<>> /\ servers # <<>>
      BY <1>0, <2>1 DEF Dialling, Counted, Waiting
    <2>3. /\ us \in Seq(Updates) /\ NamesOnce(us)
          /\ \A a \in Address :
               (\E i \in DOMAIN us : us[i].addr = a /\ us[i].op = "add")
               <=> a \in ToSet(servers) /\ a # servers[1]
          /\ \A i \in DOMAIN us : us[i].addr # servers[1]
          /\ servers[1] \in ToSet(servers)
      BY <1>0, <1>4, <2>2, DialledTells
    <2>4. Intended = {servers[1]} /\ Intended' = ToSet(servers)
      BY <2>1 DEF Intended
    <2>5. AllApplied(addrs', OnTheWay') = AllApplied(Intended, us)
      BY <1>0, <2>1, <2>2, <2>3, BatchHanded
    <2> HIDE DEF us
    <2>6. ToSet(servers) \subseteq Address
      BY <1>0 DEF DiscoveryTypes, ToSet
    <2>7. \A a \in Address :
            a \in AllApplied({servers[1]}, us) <=>
              \/ \E i \in DOMAIN us : us[i].addr = a /\ us[i].op = "add"
              \/ a \in {servers[1]} /\ \A i \in DOMAIN us : us[i].addr # a
      BY <2>3, <2>6, AppliedOnce
    <2>8. \A a \in Address :
            a \in AllApplied({servers[1]}, us) <=> a \in ToSet(servers)
      BY <2>3, <2>7
    <2>9. AllApplied({servers[1]}, us) = ToSet(servers)
      BY <2>6, <2>8, AllAppliedType
    <2> QED
      BY <2>4, <2>5, <2>9 DEF Believed
  <1>5. CASE StartDiscovery
    BY <1>0, <1>5 DEF StartDiscovery, Believed, Intended, OnTheWay, injector,
                      watcher, balancer
  <1>6. CASE Poll
    <2> DEFINE us == todo'
    <2>1. /\ main = "loop" /\ inj = "idle" /\ main' = main
          /\ curr' = consul /\ update' = update /\ batch' = batch
          /\ addrs' = addrs
      BY <1>6 DEF Poll, environment, watcher, balancer
    <2>2. todo = <<>> /\ update = <<>>
      BY <1>0, <2>1 DEF Dialling, Counted, Waiting
    <2>3. /\ us \in Seq(Updates) /\ NamesOnce(us)
          /\ Says(us, "add", consul \ curr)
          /\ Says(us, "delete", curr \ consul)
      BY <1>0, <1>6, PollFinds
    <2>4. Intended = curr /\ Intended' = consul
      BY <2>1 DEF Intended
    <2>5. AllApplied(addrs', OnTheWay') = AllApplied(Intended, us)
      BY <1>0, <2>1, <2>2, <2>3, BatchHanded
    <2> HIDE DEF us
    <2>6. curr \in SUBSET Address /\ consul \in SUBSET Address
      BY <1>0 DEF DiscoveryTypes
    <2>7. \A a \in Address :
            a \in AllApplied(curr, us) <=>
              \/ \E i \in DOMAIN us : us[i].addr = a /\ us[i].op = "add"
              \/ a \in curr /\ \A i \in DOMAIN us : us[i].addr # a
      BY <2>3, <2>6, AppliedOnce
    <2>8. ASSUME NEW a \in Address
          PROVE  a \in AllApplied(curr, us) <=> a \in consul
      <3>1. (\E i \in DOMAIN us : us[i].addr = a /\ us[i].op = "add")
              <=> a \in consul \ curr
        BY <2>3 DEF Says
      <3>2. (\E i \in DOMAIN us : us[i].addr = a /\ us[i].op = "delete")
              <=> a \in curr \ consul
        BY <2>3 DEF Says
      <3>3. \A i \in DOMAIN us : us[i].op \in {"add", "delete"}
        <4>1. \A i \in DOMAIN us : us[i] \in Updates
          BY <2>3
        <4> QED
          BY <4>1, UpdateFacts
      <3> QED
        BY <2>7, <3>1, <3>2, <3>3
    <2>9. AllApplied(curr, us) = consul
      BY <2>6, <2>8, AllAppliedType
    <2> QED
      BY <2>4, <2>5, <2>9 DEF Believed
  <1>7. CASE SendUpdate
    <2>1. /\ todo # <<>> /\ update = <<>> /\ update' = <<Head(todo)>>
          /\ todo' = Tail(todo) /\ batch' = batch /\ addrs' = addrs
          /\ UNCHANGED <<main, servers, curr>>
      BY <1>7 DEF SendUpdate, client, watcher, balancer
    <2>2. /\ todo \in Seq(Updates) /\ batch \in Seq(Updates)
      BY <1>0 DEF DiscoveryTypes
    <2>3. /\ <<Head(todo)>> \o Tail(todo) = todo
          /\ <<Head(todo)>> \in Seq(Updates) /\ Tail(todo) \in Seq(Updates)
      BY <2>1, <2>2, HeadMoves
    <2>4. OnTheWay' = batch \o (update' \o todo')
      BY <2>1, <2>2, <2>3, ConcatAssociative DEF OnTheWay
    <2>5. OnTheWay = batch \o todo
      BY <2>1, <2>2, ConcatEmptySeq DEF OnTheWay
    <2> QED
      BY <1>0, <2>1, <2>3, <2>4, <2>5 DEF Believed, Intended
  <1>8. CASE ReceiveLength
    <2>1. batch = <<>>
      BY <1>0, <1>8 DEF ReceiveLength, Counted
    <2> QED
      BY <1>0, <1>8, <2>1 DEF ReceiveLength, client, injector, balancer,
                              Believed, Intended, OnTheWay
  <1>9. CASE ReceiveUpdate
    <2>1. /\ update # <<>> /\ update' = <<>>
          /\ batch' = Append(batch, update[1])
          /\ UNCHANGED <<main, servers, curr, todo, addrs>>
      BY <1>9 DEF ReceiveUpdate, client, injector, balancer
    <2>2. /\ todo \in Seq(Updates) /\ batch \in Seq(Updates)
          /\ update \in Seq(Updates) /\ Len(update) <= 1
      BY <1>0 DEF DiscoveryTypes
    <2>3. update = <<update[1]>> /\ update[1] \in Updates
      BY <2>1, <2>2, OnlyOne
    <2>4. batch' = batch \o update /\ batch' \in Seq(Updates)
      BY <2>1, <2>2, <2>3, AppendIsConcat, AppendProperties
    <2>5. OnTheWay' = batch' \o todo
      BY <2>1, <2>2, <2>4, ConcatEmptySeq DEF OnTheWay
    <2>6. OnTheWay' = OnTheWay
      BY <2>4, <2>5 DEF OnTheWay
    <2> QED
      BY <1>0, <2>1, <2>6 DEF Believed, Intended
  <1>10. CASE Apply
    <2>1. /\ addrs' = AllApplied(addrs, batch) /\ batch' = <<>>
          /\ UNCHANGED <<main, servers, curr, todo, update>>
      BY <1>10 DEF Apply, client, injector
    <2> DEFINE rest == update \o todo
    <2>2. /\ batch \in Seq(Updates) /\ rest \in Seq(Updates)
          /\ update \in Seq(Updates) /\ todo \in Seq(Updates)
      BY <1>0, ConcatProperties DEF DiscoveryTypes
    <2>3. OnTheWay' = rest
      BY <2>1, <2>2, ConcatEmptySeq DEF OnTheWay
    <2>4. OnTheWay = batch \o rest
      BY <1>0, OnTheWayIsSeq
    <2> HIDE DEF rest
    <2>5. AllApplied(addrs', rest) = AllApplied(addrs, batch \o rest)
      BY <2>1, <2>2, AppliedInTurn
    <2> QED
      BY <1>0, <2>1, <2>3, <2>4, <2>5 DEF Believed, Intended
  <1>11. CASE \/ \E a \in Address : StartServer(a) \/ StopServer(a)
              \/ Announce \/ ReadDone \/ Connect \/ UNCHANGED vars
    <2>1. UNCHANGED <<main, servers, curr, todo, update, batch, addrs>>
      BY <1>11 DEF StartServer, StopServer, Announce, ReadDone, Connect, vars,
                   client, injector, watcher, balancer
    <2> QED
      BY <1>1, <2>1
  <1> QED
    BY <1>2, <1>3, <1>4, <1>5, <1>6, <1>7, <1>8, <1>9, <1>10, <1>11 DEF Next

LEMMA DiscoveryInvariant == Spec => []DiscoveryInv
  <1>1. Init => DiscoveryInv
    <2> SUFFICES ASSUME Init PROVE DiscoveryInv
      OBVIOUS
    <2>1. DiscoveryTypes
      BY DEF Init, DiscoveryTypes, IsInjective
    <2>2. Dialling /\ Counted
      BY DEF Init, Dialling, Counted, Waiting
    <2>3. OnTheWay = <<>> /\ Intended = {} /\ addrs = {}
      BY ConcatEmptySeq DEF Init, OnTheWay, Intended
    <2>4. Believed
      BY <2>3, NothingApplied DEF Believed
    <2> QED
      BY <2>1, <2>2, <2>4 DEF DiscoveryInv
  <1>2. ASSUME DiscoveryInv, [Next]_vars PROVE DiscoveryInv'
    BY <1>2, DiscoveryTypesHold, CountedHolds, BelievedHolds DEF DiscoveryInv
  <1> QED
    BY <1>1, <1>2, PTL DEF Spec

(* client_lb.go with the balancer of gRPC: for any set of addresses and    *)
(* any coming and going of servers, applying what is on its way to the     *)
(* balancer's list yields exactly what the client believes in, and a batch *)
(* is read to its last update before the next one can be sent.             *)
THEOREM NothingLostOnTheWayCorrect == Spec => []NothingLostOnTheWay
  <1>1. DiscoveryInv => NothingLostOnTheWay
    BY DEF DiscoveryInv, Dialling, Counted, Waiting, Believed, Alive,
           NothingLostOnTheWay
  <1> QED
    BY <1>1, DiscoveryInvariant, PTL

(* The steps inject, the watcher and lbWatcher have before them until      *)
(* everything that was told has become connections.                        *)
Owed ==
  2 * Len(todo) + Len(update) + 4 * Len(side) + Len(addrCh)
    + (IF inj = "send" THEN 5 ELSE 0)
    + (CASE next = "side" -> 0 [] next = "apply" -> 2 [] OTHER -> 3)

(* The guards of their steps.                                              *)
CanHandOn ==
  \/ inj = "send" /\ side = <<>>
  \/ inj = "await" /\ todo # <<>> /\ update = <<>>
  \/ next = "side" /\ side # <<>>
  \/ next = "update" /\ update # <<>>
  \/ next = "done" /\ (reader \/ (inj = "await" /\ todo = <<>>))
  \/ next = "apply"
  \/ addrCh # <<>>

(* The three goroutines with their four channels never all wait for each   *)
(* other: while anything is left to do, one of them can do it.             *)
NobodyWaitsForAll == Alive /\ Owed > 0 => CanHandOn

(* And each step they take leaves less to do; only new lists make it more. *)
WorkRunsOut ==
  [][ListServers \/ Dialled \/ Poll
       \/ (Owed' \in Nat /\ Owed' < Owed)
       \/ UNCHANGED <<injector, side, update, reader, watcher, balancer>>]_vars

LEMMA AddrChType == Spec => [](addrCh = <<>> \/ \E s : addrCh = <<s>>)
  <1> DEFINE Short == addrCh = <<>> \/ \E s : addrCh = <<s>>
  <1>1. Init => Short
    BY DEF Init
  <1>2. Short /\ [Next]_vars => Short'
    <2>1. ASSUME addrCh' = addrCh, Short PROVE Short'
      BY <2>1
    <2>2. ASSUME Apply PROVE Short'
      BY <2>2 DEF Apply
    <2>3. ASSUME Connect PROVE Short'
      BY <2>3 DEF Connect
    <2> HIDE DEF Short
    <2>4. [Next]_vars => addrCh' = addrCh \/ Apply \/ Connect
      BY DEF Next, vars, environment, client, injector, watcher, balancer,
             StartServer, StopServer, NoServers, ConsulFails, ListServers,
             Dialled, StartDiscovery, Poll, Announce, SendUpdate,
             ReceiveLength, ReceiveUpdate, ReadDone
    <2> QED BY <2>1, <2>2, <2>3, <2>4
  <1> HIDE DEF Short
  <1>3. Spec => []Short
    BY <1>1, <1>2, PTL DEF Spec
  <1> QED BY <1>3 DEF Short

(* client_lb.go and balancer.go with gRPC's balancer: for any addresses     *)
(* and batches, inject and the watcher do not wait for each other for ever.*)
THEOREM NobodyWaitsForAllCorrect == Spec => []NobodyWaitsForAll
  <1>1. DiscoveryInv => NobodyWaitsForAll
    <2> SUFFICES ASSUME DiscoveryTypes, Counted, Dialling, ~CanHandOn
                 PROVE  ~(Owed > 0)
      BY DEF DiscoveryInv, NobodyWaitsForAll
    <2>1. /\ inj \in {"idle", "send", "await"}
          /\ next \in {"side", "update", "done", "apply"}
          /\ Len(update) \in Nat /\ Len(todo) \in Nat
          /\ Len(update) > 0 => update # <<>>
          /\ Len(todo) > 0 => todo # <<>>
          /\ Len(todo) = 0 <=> todo = <<>>
          /\ Len(update) = 0 <=> update = <<>>
      BY EmptySeq DEF DiscoveryTypes
    <2>2. inj # "send" \/ reader
      BY DEF CanHandOn, Counted, Waiting
    <2>3. inj # "send"
      BY <2>2 DEF Dialling
    <2>4. ~Waiting
      <3> SUFFICES ASSUME Waiting PROVE FALSE
        OBVIOUS
      <3>1. CASE side # <<>> /\ next \in {"side", "apply"}
        BY <3>1 DEF CanHandOn
      <3>2. CASE next = "update" /\ Len(update) + Len(todo) > 0
        <4>1. update = <<>> /\ todo # <<>>
          BY <2>1, <3>2 DEF CanHandOn
        <4>2. inj # "idle"
          BY <4>1 DEF Counted
        <4> QED BY <2>1, <2>3, <4>1, <4>2 DEF CanHandOn
      <3>3. CASE next = "done" /\ Len(update) + Len(todo) = 0
        <4>1. todo = <<>>
          BY <2>1, <3>3
        <4> QED BY <3>3, <4>1 DEF CanHandOn, Waiting
      <3> QED BY <3>1, <3>2, <3>3 DEF Counted
    <2>5. /\ side = <<>> /\ update = <<>> /\ next = "side" /\ addrCh = <<>>
          /\ inj = "idle" /\ todo = <<>>
      BY <2>1, <2>3, <2>4 DEF Counted, CanHandOn, Waiting
    <2> QED
      BY <2>5 DEF Owed
  <1> QED
    BY <1>1, DiscoveryInvariant, PTL

(* The same code: a batch is through after a number of steps that its      *)
(* length bounds, unless the client's view of consul changes again.        *)
THEOREM WorkRunsOutCorrect == Spec => WorkRunsOut
  <1> DEFINE Short == addrCh = <<>> \/ \E s : addrCh = <<s>>
             Goal == \/ ListServers \/ Dialled \/ Poll
                     \/ (Owed' \in Nat /\ Owed' < Owed)
                     \/ UNCHANGED <<injector, side, update, reader, watcher, balancer>>
  <1>1. ASSUME DiscoveryInv, Short, Next PROVE Goal
    <2>0. /\ todo \in Seq(Updates) /\ update \in Seq(Updates) /\ side \in Seq(Nat)
          /\ Len(update) <= 1 /\ Len(side) <= 1
          /\ Len(todo) \in Nat /\ Len(update) \in Nat /\ Len(side) \in Nat
          /\ Len(addrCh) \in {0, 1} /\ (addrCh # <<>> => Len(addrCh) = 1)
          /\ side # <<>> => Len(side) = 1
          /\ update # <<>> => Len(update) = 1
      <3>1. /\ todo \in Seq(Updates) /\ update \in Seq(Updates) /\ side \in Seq(Nat)
            /\ Len(update) <= 1 /\ Len(side) <= 1
        BY <1>1 DEF DiscoveryInv, DiscoveryTypes
      <3>2. \A S, s : s \in Seq(S) => Len(s) \in Nat /\ (s # <<>> => Len(s) # 0)
        BY EmptySeq
      <3>3. Len(addrCh) \in {0, 1} /\ (addrCh # <<>> => Len(addrCh) = 1)
        BY <1>1
      <3>4. /\ Len(todo) \in Nat /\ Len(update) \in Nat /\ Len(side) \in Nat
            /\ side # <<>> => Len(side) # 0
            /\ update # <<>> => Len(update) # 0
        BY <3>1, <3>2, Zenon
      <3>5. \A n \in Nat : n <= 1 /\ n # 0 => n = 1
        OBVIOUS
      <3>6. /\ side # <<>> => Len(side) = 1
            /\ update # <<>> => Len(update) = 1
        BY <3>1, <3>4, <3>5, Zenon
      <3> QED BY <3>1, <3>3, <3>4, <3>6, Zenon
    <2>1. CASE Announce
      <3>1. /\ inj = "send" /\ inj' = "await" /\ Len(side) = 0 /\ Len(side') = 1
            /\ UNCHANGED <<todo, update, next, addrCh>>
        BY <2>1 DEF Announce, watcher, balancer
      <3> QED BY <2>0, <3>1 DEF Owed
    <2>2. CASE SendUpdate
      <3>1. /\ Len(update) = 0 /\ Len(update') = 1
            /\ Len(todo') = Len(todo) - 1 /\ Len(todo) > 0
            /\ UNCHANGED <<inj, side, next, addrCh>>
        BY <2>0, <2>2, HeadTailProperties DEF SendUpdate, watcher, balancer
      <3> QED BY <2>0, <3>1 DEF Owed
    <2>3. CASE ReceiveLength
      <3>1. /\ Len(side) = 1 /\ Len(side') = 0 /\ next = "side" /\ next' = "update"
            /\ UNCHANGED <<inj, todo, update, addrCh>>
        BY <2>0, <2>3 DEF ReceiveLength, injector, balancer
      <3> QED BY <2>0, <3>1 DEF Owed
    <2>4. CASE ReceiveUpdate
      <3>1. /\ Len(update) = 1 /\ Len(update') = 0
            /\ next = "update" /\ next' \in {"update", "done"}
            /\ UNCHANGED <<inj, todo, side, addrCh>>
        BY <2>0, <2>4 DEF ReceiveUpdate, injector, balancer
      <3> QED BY <2>0, <3>1 DEF Owed
    <2>5. CASE ReadDone
      <3>1. /\ next = "done" /\ next' = "apply"
            /\ inj' = inj \/ (inj = "await" /\ inj' = "idle")
            /\ UNCHANGED <<todo, update, side, addrCh>>
        BY <2>5 DEF ReadDone, balancer
      <3> QED BY <2>0, <3>1 DEF Owed
    <2>6. CASE Apply
      <3>1. /\ next = "apply" /\ next' = "side" /\ Len(addrCh') = 1
            /\ UNCHANGED <<inj, todo, update, side>>
        BY <2>6 DEF Apply, injector
      <3> QED BY <2>0, <3>1 DEF Owed
    <2>7. CASE Connect
      <3>1. /\ Len(addrCh) = 1 /\ Len(addrCh') = 0
            /\ UNCHANGED <<inj, todo, update, side, next>>
        BY <2>0, <2>7 DEF Connect, injector, watcher
      <3> QED BY <2>0, <3>1 DEF Owed
    <2>8. CASE \/ \E a \in Address : StartServer(a) \/ StopServer(a)
               \/ NoServers \/ ConsulFails \/ StartDiscovery
      BY <2>8 DEF StartServer, StopServer, NoServers, ConsulFails, StartDiscovery,
                  injector, watcher, balancer
    <2> HIDE DEF Goal
    <2>9. CASE ListServers \/ Dialled \/ Poll
      BY <2>9 DEF Goal
    <2> QED
      BY <1>1, <2>1, <2>2, <2>3, <2>4, <2>5, <2>6, <2>7, <2>8, <2>9 DEF Next
  <1> HIDE DEF Short
  <1>2. Spec => []Short
    BY AddrChType DEF Short
  <1>3. DiscoveryInv /\ Short /\ [Next]_vars => [Goal]_vars
    BY <1>1
  <1> QED
    BY <1>2, <1>3, DiscoveryInvariant, PTL DEF Spec, WorkRunsOut

-----------------------------------------------------------------------------
(* Monitoring: what is written down of each request.                       *)
MonitorTypes ==
  /\ stage \in [Hit -> {"none", "in", "printed", "out", "done"}]
  /\ DOMAIN asked = Hit /\ DOMAIN served = Hit
  /\ lines \subseteq Hit \X [total : Nat, tracked : Nat]
  /\ counter \in Nat /\ hits \in Nat /\ shownHits \in Nat /\ missed \in Nat
  /\ scraped \in [Hit -> Nat]
  /\ overlap \in BOOLEAN

(* A handler has served a request once it is out; only the site's may have *)
(* panicked, and 500 is what its middleware makes of that at the end.      *)
StagesFit ==
  \A h \in Hit :
    /\ stage[h] \in {"none", "in", "printed"} => served[h] = <<>>
    /\ stage[h] = "out" => served[h] # <<"500">>
    /\ stage[h] = "printed" => monitor = "expvars"
    /\ monitor # "site" => served[h] \in {<<>>, <<"done">>}

OnePrints ==
  ~overlap => \A g, h \in Hit : stage[g] = "printed" /\ stage[h] = "printed" => g = h

LinesOf(h) == {l \in lines : l[1] = h}

LinesFit ==
  monitor \in {"site", "timings", "metrics"} =>
    \A h \in Hit :
      /\ stage[h] # "done" \/ served[h] = <<"500">> => LinesOf(h) = {}
      /\ stage[h] = "done" /\ served[h] # <<"500">> => \E l : LinesOf(h) = {l}

AdminsSeeAdmin ==
  monitor = "site" => \A h \in Hit :
    served[h] \in {<<"admin">>, <<"panic">>, <<"500">>} => asked[h].cookie

TimesDiffer(l) ==
  Pause <= (IF monitor = "timings" THEN l[2].total - l[2].tracked
            ELSE l[2].tracked - l[2].total)

TimesFit == monitor \in {"timings", "metrics"} => \A l \in lines : TimesDiffer(l)

CounterFits ==
  monitor = "prometheus" =>
    /\ counter = Cardinality(DoneHits)
    /\ \A h \in Hit : scraped[h] <= Cardinality(DoneHits \ {h})

Served == {h \in Hit : served[h] # <<>>}
Printing == \E s \in Hit : stage[s] = "printed"

HitsFit ==
  monitor = "expvars" /\ ~overlap =>
    shownHits + (IF Printing THEN 0 ELSE hits) + missed = Cardinality(Served)

MonitorInv ==
  /\ MonitorTypes /\ StagesFit /\ OnePrints /\ LinesFit /\ AdminsSeeAdmin
  /\ TimesFit /\ CounterFits /\ HitsFit

-----------------------------------------------------------------------------
(* What the routers of the site make of a request: an answer, not yet 500, *)
(* and the admin's only with a cookie.                                     *)
LEMMA SiteMuxAnswers ==
  ASSUME NEW q
  PROVE  /\ siteMux(q) # <<>> /\ siteMux(q) # <<"500">>
         /\ siteMux(q) \in {<<"admin">>, <<"panic">>} => q.cookie
<1> DEFINE Good(what) ==
             /\ what # <<>> /\ what # <<"500">>
             /\ what \in {<<"admin">>, <<"panic">>} => q.cookie
<1>1. Good(adminAuthMiddleware(q))
  BY DEF adminAuthMiddleware, adminMux
<1>2. Good(loginPage)
  BY DEF loginPage
<1>3. Good(logoutPage(q.cookie))
  BY DEF logoutPage
<1>4. Good(mainPage(q.cookie))
  BY DEF mainPage
<1>5. siteMux(q) \in {adminAuthMiddleware(q), loginPage, logoutPage(q.cookie),
                      mainPage(q.cookie)}
  BY Zenon DEF siteMux
<1>6. Good(siteMux(q))
  <2> HIDE DEF Good
  <2> QED
    BY <1>1, <1>2, <1>3, <1>4, <1>5
<1>7. QED
  BY <1>6

Tracks(new, data, name, elapsed) ==
  /\ DOMAIN new = DOMAIN data \cup {name}
  /\ name \notin DOMAIN data => new[name].duration = elapsed
  /\ name \in DOMAIN data => new[name].duration = data[name].duration + elapsed
  /\ \A w \in DOMAIN data : w # name => new[w] = data[w]

LEMMA Tracked ==
  ASSUME NEW data, NEW name, NEW elapsed
  PROVE  Tracks(trackContextTimings(data, name, elapsed), data, name, elapsed)
BY DEF trackContextTimings, Tracks

(* The times of the works of a request, kept by name, add up to the time   *)
(* it takes without its pause and what is between them.                    *)
LEMMA TimesAddUp ==
  ASSUME NEW s \in [DOMAIN Works -> Sleeps], NEW own \in Sleeps
  PROVE  /\ Sum(loadPostsHandle(s)) \in Nat /\ own \in Nat
         /\ RealTime(s, own) = Sum(loadPostsHandle(s)) + Pause + own
<1> DEFINE work(data, i) == trackContextTimings(data, Works[i], s[i])
           d1 == work(<<>>, 1)
           d2 == work(d1, 2)
           d3 == work(d2, 3)
           d4 == work(d3, 4)
           d5 == work(d4, 5)
           d6 == work(d5, 6)
<1>1. /\ s[1] \in Nat /\ s[2] \in Nat /\ s[3] \in Nat
      /\ s[4] \in Nat /\ s[5] \in Nat /\ s[6] \in Nat
  <2>1. DOMAIN Works = 1..6
    BY DEF Works
  <2>2. \A i \in 1..6 : s[i] \in Sleeps
    BY <2>1
  <2>3. \A i \in 1..6 : s[i] \in Nat
    BY <2>2, SleepsAreTimes
  <2>4. QED
    BY <2>3
<1>2. /\ Tracks(d1, <<>>, "checkCache", s[1])
      /\ Tracks(d2, d1, "loadPosts", s[2])
      /\ Tracks(d3, d2, "loadPosts", s[3])
      /\ Tracks(d4, d3, "loadPosts", s[4])
      /\ Tracks(d5, d4, "loadSidebar", s[5])
      /\ Tracks(d6, d5, "loadComments", s[6])
  <2>1. /\ Works[1] = "checkCache" /\ Works[2] = "loadPosts"
        /\ Works[3] = "loadPosts" /\ Works[4] = "loadPosts"
        /\ Works[5] = "loadSidebar" /\ Works[6] = "loadComments"
    BY DEF Works
  <2>2. QED
    BY <2>1, Tracked
<1>3. loadPostsHandle(s) = d6
  BY DEF loadPostsHandle
<1> HIDE DEF d1, d2, d3, d4, d5, d6
<1>4. /\ DOMAIN d1 = {"checkCache"}
      /\ d1["checkCache"].duration = s[1]
  BY <1>2 DEF Tracks
<1>5. /\ DOMAIN d2 = {"checkCache", "loadPosts"}
      /\ d2["checkCache"].duration = s[1]
      /\ d2["loadPosts"].duration = s[2]
  BY <1>2, <1>4 DEF Tracks
<1>6. /\ DOMAIN d3 = {"checkCache", "loadPosts"}
      /\ d3["checkCache"].duration = s[1]
      /\ d3["loadPosts"].duration = s[2] + s[3]
  BY <1>2, <1>5 DEF Tracks
<1>7. /\ DOMAIN d4 = {"checkCache", "loadPosts"}
      /\ d4["checkCache"].duration = s[1]
      /\ d4["loadPosts"].duration = s[2] + s[3] + s[4]
  BY <1>2, <1>6 DEF Tracks
<1>8. /\ DOMAIN d5 = {"checkCache", "loadPosts", "loadSidebar"}
      /\ d5["checkCache"].duration = s[1]
      /\ d5["loadPosts"].duration = s[2] + s[3] + s[4]
      /\ d5["loadSidebar"].duration = s[5]
  BY <1>2, <1>7 DEF Tracks
<1>9. /\ DOMAIN d6 = {"checkCache", "loadPosts", "loadSidebar", "loadComments"}
      /\ d6["checkCache"].duration = s[1]
      /\ d6["loadPosts"].duration = s[2] + s[3] + s[4]
      /\ d6["loadSidebar"].duration = s[5]
      /\ d6["loadComments"].duration = s[6]
  BY <1>2, <1>8 DEF Tracks
<1>10. Sum(d6) = s[1] + (s[2] + s[3] + s[4]) + s[5] + s[6]
  BY <1>9 DEF Sum
<1>11. own \in Nat
  BY SleepsAreTimes
<1>12. QED
  BY <1>1, <1>3, <1>10, <1>11 DEF RealTime, Pause

(* Each line of a request is new or was there.                             *)
LEMMA LinesAdded ==
  ASSUME NEW h \in Hit, NEW new, lines' = lines \cup ({h} \X new)
  PROVE  /\ LinesOf(h)' = LinesOf(h) \cup ({h} \X new)
         /\ \A g \in Hit \ {h} : LinesOf(g)' = LinesOf(g)
BY DEF LinesOf

(* At most one line is written down, and its times differ by the pause or  *)
(* more.                                                                   *)
LEMMA OneLineWritten ==
  ASSUME NEW h \in Hit, NEW new \in WrittenDown(h)
  PROVE  /\ new \subseteq [total : Nat, tracked : Nat]
         /\ monitor = "site" /\ served[h] = <<"panic">> => new = {}
         /\ \/ monitor = "site" /\ served[h] # <<"panic">>
            \/ monitor \in {"timings", "metrics"}
            => \E t : new = {t}
         /\ monitor \in {"timings", "metrics"} =>
              \A t \in new : TimesDiffer(<<h, t>>)
<1>1. CASE monitor = "site"
  <2>1. WrittenDown(h) = accessLogMiddleware(h)
    BY <1>1, Zenon DEF WrittenDown
  <2>2. CASE served[h] = <<"panic">>
    BY <1>1, <2>1, <2>2 DEF accessLogMiddleware
  <2>3. CASE served[h] # <<"panic">>
    <3>1. new = {NoTimes}
      BY <2>1, <2>3 DEF accessLogMiddleware
    <3>2. NoTimes \in [total : Nat, tracked : Nat]
      BY DEF NoTimes
    <3>3. QED
      BY <1>1, <2>3, <3>1, <3>2
  <2>4. QED
    BY <2>2, <2>3
<1>2. CASE monitor = "timings"
  <2>1. PICK s \in [DOMAIN Works -> Sleeps], own \in Sleeps :
            new = {logContextTimings(s, own)}
    <3>1. WrittenDown(h) = timingMiddleware
      BY <1>2, Zenon DEF WrittenDown
    <3>2. QED
      BY <3>1 DEF timingMiddleware
  <2> DEFINE t == logContextTimings(s, own)
  <2>2. /\ t \in [total : Nat, tracked : Nat] /\ Pause <= t.total - t.tracked
    BY TimesAddUp DEF logContextTimings, Pause
  <2>3. QED
    BY <1>2, <2>1, <2>2 DEF TimesDiffer
<1>3. CASE monitor = "metrics"
  <2>1. PICK s \in [DOMAIN Works -> Sleeps], own \in Sleeps :
            new = {SendTimings(s, own)}
    <3>1. WrittenDown(h) = TrackRequestTimings
      BY <1>3, Zenon DEF WrittenDown
    <3>2. QED
      BY <3>1 DEF TrackRequestTimings
  <2> DEFINE t == SendTimings(s, own)
  <2>2. /\ t \in [total : Nat, tracked : Nat] /\ Pause <= t.tracked - t.total
    BY TimesAddUp DEF SendTimings, Pause
  <2>3. QED
    BY <1>3, <2>1, <2>2 DEF TimesDiffer
<1>4. CASE monitor \notin {"site", "timings", "metrics"}
  <2>1. WrittenDown(h) = {{}}
    BY <1>4, Zenon DEF WrittenDown
  <2>2. QED
    BY <1>4, <2>1
<1>5. QED
  BY <1>1, <1>2, <1>3, <1>4

(* The sets that are counted.                                              *)
LEMMA HitsCounted ==
  /\ IsFiniteSet(DoneHits) /\ Cardinality(DoneHits) \in Nat
  /\ IsFiniteSet(Served) /\ Cardinality(Served) \in Nat
  /\ \A h \in Hit : /\ IsFiniteSet(DoneHits \ {h})
                    /\ Cardinality(DoneHits \ {h}) \in Nat
<1>1. \A T \in SUBSET Hit : IsFiniteSet(T) /\ Cardinality(T) \in Nat
  BY RequestsAreFinite, FS_Subset, FS_CardinalityType
<1>2. DoneHits \in SUBSET Hit /\ Served \in SUBSET Hit
  BY DEF DoneHits, Served
<1>3. QED
  BY <1>1, <1>2

-----------------------------------------------------------------------------
LEMMA MonitorStarts == MonitorInit => MonitorInv
<1> SUFFICES ASSUME MonitorInit
             PROVE  MonitorInv
  OBVIOUS
<1> USE DEF MonitorInit
<1>1. MonitorTypes /\ StagesFit /\ OnePrints
  BY DEF MonitorTypes, StagesFit, OnePrints
<1>2. LinesFit /\ TimesFit /\ AdminsSeeAdmin
  BY DEF LinesFit, LinesOf, TimesFit, AdminsSeeAdmin
<1>3. CounterFits
  <2>1. DoneHits = {} /\ \A h \in Hit : DoneHits \ {h} = {}
    BY DEF DoneHits
  <2>2. QED
    BY <2>1, FS_EmptySet DEF CounterFits
<1>4. HitsFit
  <2>1. Served = {} /\ ~Printing
    BY DEF Served, Printing
  <2>2. QED
    BY <2>1, FS_EmptySet DEF HitsFit
<1>5. QED
  BY <1>1, <1>2, <1>3, <1>4 DEF MonitorInv

LEMMA ComesInKeeps ==
  ASSUME MonitorInv, NEW h \in Hit, ComesIn(h)
  PROVE  MonitorInv'
<1> USE DEF MonitorInv, ComesIn, Go
<1>1. MonitorTypes' /\ StagesFit' /\ OnePrints'
  BY DEF MonitorTypes, StagesFit, OnePrints
<1>2. LinesFit'
  BY DEF LinesFit, LinesOf, MonitorTypes
<1>3. AdminsSeeAdmin'
  <2>1. /\ served' = served /\ served[h] = <<>> /\ monitor' = monitor
        /\ \A g \in Hit : g # h => asked'[g] = asked[g]
    BY DEF MonitorTypes, StagesFit
  <2>2. QED
    BY <2>1 DEF AdminsSeeAdmin
<1>4. TimesFit'
  BY DEF TimesFit, TimesDiffer
<1>5. CounterFits'
  <2>1. DoneHits' = DoneHits
    BY DEF DoneHits, MonitorTypes
  <2>2. QED
    BY <2>1 DEF CounterFits
<1>6. HitsFit'
  <2>1. Served' = Served /\ Printing' = Printing
    BY DEF Served, Printing, MonitorTypes
  <2>2. QED
    BY <2>1 DEF HitsFit
<1>7. QED
  BY <1>1, <1>2, <1>3, <1>4, <1>5, <1>6

LEMMA ServesKeeps ==
  ASSUME MonitorInv, NEW h \in Hit, Serves(h)
  PROVE  MonitorInv'
<1> USE DEF MonitorInv, Serves, Go
<1>1. /\ served'[h] # <<>> /\ served'[h] # <<"500">>
      /\ monitor = "site" =>
           (served'[h] \in {<<"admin">>, <<"panic">>} => asked[h].cookie)
  BY SiteMuxAnswers DEF MonitorTypes
<1>2. MonitorTypes' /\ StagesFit' /\ OnePrints'
  BY <1>1 DEF MonitorTypes, StagesFit, OnePrints
<1>3. LinesFit'
  BY <1>1 DEF LinesFit, LinesOf, MonitorTypes
<1>4. AdminsSeeAdmin'
  BY <1>1 DEF AdminsSeeAdmin, MonitorTypes
<1>5. TimesFit'
  BY DEF TimesFit, TimesDiffer
<1>6. CounterFits'
  <2>1. DoneHits' = DoneHits
    BY DEF DoneHits, MonitorTypes
  <2>2. QED
    BY <2>1 DEF CounterFits
<1>7. HitsFit'
  <2>1. h \notin Served /\ Served' = Served \cup {h}
    BY <1>1 DEF Served, MonitorTypes, StagesFit
  <2>2. Cardinality(Served') = Cardinality(Served) + 1
    BY <2>1, HitsCounted, FS_AddElement
  <2>3. Printing' = Printing
    BY DEF Printing, MonitorTypes
  <2>4. CASE Printing
    BY <2>2, <2>3, <2>4, HitsCounted DEF HitsFit, MonitorTypes, Printing
  <2>5. CASE ~Printing
    BY <2>2, <2>3, <2>5, HitsCounted DEF HitsFit, MonitorTypes, Printing
  <2>6. QED
    BY <2>4, <2>5
<1>8. QED
  BY <1>2, <1>3, <1>4, <1>5, <1>6, <1>7

(* What /metrics shows is the number of requests that have ended, of which *)
(* it is none.                                                             *)
LEMMA ShowsCounterKeeps ==
  ASSUME MonitorInv, NEW h \in Hit, ShowsCounter(h)
  PROVE  MonitorInv'
<1> USE DEF MonitorInv, ShowsCounter, Go
<1>1. MonitorTypes'
  BY DEF MonitorTypes
<1>2. /\ stage'[h] = "out" /\ \A g \in Hit : g # h => stage'[g] = stage[g]
      /\ served' = served /\ monitor' = monitor /\ served[h] = <<>>
  BY DEF MonitorTypes, StagesFit
<1>3. StagesFit'
  BY <1>2 DEF StagesFit
<1>4. OnePrints'
  BY <1>2 DEF OnePrints
<1>5. LinesFit' /\ AdminsSeeAdmin' /\ TimesFit' /\ HitsFit'
  BY DEF LinesFit, AdminsSeeAdmin, TimesFit, HitsFit
<1>6. CounterFits'
  <2>1. DoneHits' = DoneHits /\ DoneHits \ {h} = DoneHits
    BY DEF DoneHits, MonitorTypes
  <2>2. scraped'[h] <= Cardinality(DoneHits' \ {h})
    <3>1. scraped'[h] = counter /\ counter \in Nat
      BY DEF MonitorTypes
    <3>2. counter = Cardinality(DoneHits)
      BY DEF CounterFits
    <3>3. QED
      BY <2>1, <3>1, <3>2
  <2>3. QED
    BY <2>1, <2>2 DEF CounterFits, MonitorTypes
<1>7. QED
  BY <1>1, <1>5, <1>6, <1>3, <1>4

(* Before its second step a scrape has shown all hits, and hits that come  *)
(* now are missed.                                                         *)
LEMMA ShowsHitsKeeps ==
  ASSUME MonitorInv, NEW h \in Hit, ShowsHits(h)
  PROVE  MonitorInv'
<1> USE DEF MonitorInv, ShowsHits, Go
<1>1. MonitorTypes'
  BY DEF MonitorTypes
<1>2. /\ stage'[h] = "printed" /\ \A g \in Hit : g # h => stage'[g] = stage[g]
      /\ served' = served /\ monitor' = monitor /\ served[h] = <<>>
  BY DEF MonitorTypes, StagesFit
<1>3. StagesFit'
  BY <1>2 DEF StagesFit, Scrape
<1>4. OnePrints'
  BY <1>2 DEF OnePrints
<1>5. LinesFit' /\ AdminsSeeAdmin' /\ TimesFit' /\ CounterFits'
  BY DEF LinesFit, AdminsSeeAdmin, TimesFit, CounterFits
<1>6. HitsFit'
  <2>1. Served' = Served /\ Printing'
    BY DEF Served, Printing, MonitorTypes
  <2>2. ~overlap' => ~overlap /\ ~Printing
    BY DEF MonitorTypes, Printing
  <2>3. QED
    BY <2>1, <2>2 DEF HitsFit, MonitorTypes
<1>7. QED
  BY <1>1, <1>5, <1>6, <1>3, <1>4

LEMMA ForgetsHitsKeeps ==
  ASSUME MonitorInv, NEW h \in Hit, ForgetsHits(h)
  PROVE  MonitorInv'
<1> USE DEF MonitorInv, ForgetsHits, Go
<1>1. monitor = "expvars"
  BY DEF StagesFit
<1>2. MonitorTypes'
  BY DEF MonitorTypes
<1>3. /\ stage'[h] = "out" /\ \A g \in Hit : g # h => stage'[g] = stage[g]
      /\ served' = served /\ monitor' = monitor /\ served[h] = <<>>
  BY DEF MonitorTypes, StagesFit
<1>4. StagesFit'
  BY <1>3 DEF StagesFit
<1>5. OnePrints'
  BY <1>3 DEF OnePrints
<1>6. LinesFit' /\ AdminsSeeAdmin' /\ TimesFit' /\ CounterFits'
  BY <1>1 DEF LinesFit, AdminsSeeAdmin, TimesFit, CounterFits
<1>7. HitsFit'
  <2>1. Served' = Served /\ Printing
    BY DEF Served, Printing, MonitorTypes
  <2>2. ~overlap => ~Printing'
    BY DEF Printing, MonitorTypes, OnePrints
  <2>3. QED
    BY <2>1, <2>2 DEF HitsFit, MonitorTypes
<1>8. QED
  BY <1>2, <1>6, <1>7, <1>4, <1>5

(* The end of a request: it is counted and has its line.                   *)
LEMMA EndsKeeps ==
  ASSUME MonitorInv, NEW h \in Hit, Ends(h)
  PROVE  MonitorInv'
<1> USE DEF MonitorInv, Go
<1>1. PICK new \in WrittenDown(h) : lines' = lines \cup ({h} \X new)
  BY DEF Ends
<1>2. /\ new \subseteq [total : Nat, tracked : Nat]
      /\ monitor = "site" /\ served[h] = <<"panic">> => new = {}
      /\ monitor = "site" /\ served[h] # <<"panic">> => \E t : new = {t}
      /\ monitor \in {"timings", "metrics"} => \E t : new = {t}
      /\ monitor \in {"timings", "metrics"} =>
           \A t \in new : TimesDiffer(<<h, t>>)
  BY OneLineWritten
<1>3. /\ stage[h] = "out" /\ stage' = [stage EXCEPT ![h] = "done"]
      /\ served' = [served EXCEPT ![h] = Recovered(@)]
      /\ counter' = timeTrackingMiddleware
      /\ UNCHANGED <<monitor, asked, hits, scraped, shownHits, missed, overlap>>
  BY DEF Ends
<1>4. /\ served[h] = <<"panic">> => served'[h] = <<"500">>
      /\ served[h] # <<"panic">> => served'[h] = served[h]
  BY <1>3 DEF Recovered, MonitorTypes
<1>5. MonitorTypes'
  <2>1. lines' \subseteq Hit \X [total : Nat, tracked : Nat]
    BY <1>1, <1>2 DEF MonitorTypes
  <2>2. QED
    BY <1>3, <2>1 DEF MonitorTypes, timeTrackingMiddleware
<1>6. StagesFit' /\ OnePrints'
  <2>1. \A g \in Hit : g # h => stage'[g] = stage[g] /\ served'[g] = served[g]
    BY <1>3 DEF MonitorTypes
  <2>2. stage'[h] = "done"
    BY <1>3 DEF MonitorTypes
  <2>3. monitor # "site" => served'[h] \in {<<>>, <<"done">>}
    <3>1. monitor # "site" => served[h] \in {<<>>, <<"done">>}
      BY DEF StagesFit
    <3>2. QED
      BY <1>4, <3>1
  <2>4. StagesFit'
    BY <1>3, <2>1, <2>2, <2>3 DEF StagesFit
  <2>5. OnePrints'
    BY <1>3, <2>1, <2>2 DEF OnePrints
  <2>6. QED
    BY <2>4, <2>5
<1>7. LinesFit'
  <2> SUFFICES ASSUME monitor \in {"site", "timings", "metrics"}, NEW g \in Hit
               PROVE  /\ stage'[g] # "done" \/ served'[g] = <<"500">>
                         => LinesOf(g)' = {}
                      /\ stage'[g] = "done" /\ served'[g] # <<"500">>
                         => \E l : LinesOf(g)' = {l}
    BY <1>3 DEF LinesFit
  <2>1. served[h] = <<"panic">> => monitor = "site"
    BY DEF StagesFit
  <2>2. CASE g # h
    <3>1. stage'[g] = stage[g] /\ served'[g] = served[g]
      BY <1>3, <2>2 DEF MonitorTypes
    <3>2. LinesOf(g)' = LinesOf(g)
      BY <1>1, <2>2, LinesAdded
    <3>3. QED
      BY <3>1, <3>2 DEF LinesFit
  <2>3. CASE g = h
    <3>1. LinesOf(h)' = {h} \X new
      <4>1. LinesOf(h) = {}
        BY <1>3 DEF LinesFit
      <4>2. QED
        BY <1>1, <4>1, LinesAdded
    <3>2. stage'[h] = "done" /\ served[h] # <<"500">>
      BY <1>3 DEF MonitorTypes, StagesFit
    <3>3. CASE served[h] = <<"panic">>
      <4>1. new = {}
        BY <1>2, <2>1, <3>3
      <4>2. QED
        BY <1>4, <2>3, <3>1, <3>3, <4>1
    <3>4. CASE served[h] # <<"panic">>
      <4>1. PICK t : new = {t}
        BY <1>2, <3>4
      <4>2. LinesOf(h)' = {<<h, t>>}
        BY <3>1, <4>1
      <4>3. QED
        BY <1>4, <2>3, <3>2, <3>4, <4>2
    <3>5. QED
      BY <3>3, <3>4
  <2>4. QED
    BY <2>2, <2>3
<1>8. AdminsSeeAdmin'
  BY <1>3, <1>4 DEF AdminsSeeAdmin, MonitorTypes
<1>9. TimesFit'
  <2>1. ASSUME monitor \in {"timings", "metrics"}, NEW l \in lines'
        PROVE  TimesDiffer(l)
    BY <1>1, <1>2, <2>1 DEF TimesFit
  <2>2. QED
    BY <1>3, <2>1 DEF TimesFit, TimesDiffer
<1>10. CounterFits'
  <2>1. h \notin DoneHits /\ DoneHits' = DoneHits \cup {h}
    BY <1>3 DEF DoneHits, MonitorTypes
  <2>2. Cardinality(DoneHits') = Cardinality(DoneHits) + 1
    BY <2>1, HitsCounted, FS_AddElement
  <2>3. \A g \in Hit : Cardinality(DoneHits \ {g}) <= Cardinality(DoneHits' \ {g})
    <3> SUFFICES ASSUME NEW g \in Hit
                 PROVE  Cardinality(DoneHits \ {g}) <= Cardinality(DoneHits' \ {g})
      OBVIOUS
    <3>1. IsFiniteSet(DoneHits' \ {g})
      BY <2>1, HitsCounted, FS_AddElement, FS_RemoveElement
    <3>2. DoneHits \ {g} \in SUBSET (DoneHits' \ {g})
      BY <2>1
    <3>3. QED
      BY <3>1, <3>2, FS_Subset
  <2>4. QED
    <3> SUFFICES ASSUME monitor = "prometheus"
                 PROVE  CounterFits'
      BY <1>3 DEF CounterFits
    <3>1. counter' = Cardinality(DoneHits')
      BY <1>3, <2>2 DEF CounterFits, timeTrackingMiddleware
    <3>2. ASSUME NEW g \in Hit
          PROVE  scraped'[g] <= Cardinality(DoneHits' \ {g})
      <4>1. scraped[g] <= Cardinality(DoneHits \ {g})
        BY DEF CounterFits
      <4>2. IsFiniteSet(DoneHits' \ {g})
        BY <2>1, HitsCounted, FS_AddElement, FS_RemoveElement
      <4>3. Cardinality(DoneHits' \ {g}) \in Nat
        BY <4>2, FS_CardinalityType
      <4>4. /\ scraped'[g] = scraped[g] /\ scraped[g] \in Nat
            /\ Cardinality(DoneHits \ {g}) \in Nat
            /\ Cardinality(DoneHits \ {g}) <= Cardinality(DoneHits' \ {g})
        BY <1>3, <2>3, HitsCounted DEF MonitorTypes
      <4>5. QED
        BY <4>1, <4>3, <4>4
    <3>3. QED
      BY <3>1, <3>2 DEF CounterFits
<1>11. HitsFit'
  <2>1. CASE monitor = "expvars"
    <3>1. Served' = Served /\ Printing' = Printing
      BY <1>3, <1>4 DEF Served, Printing, MonitorTypes
    <3>2. QED
      BY <1>3, <3>1 DEF HitsFit
  <2>2. CASE monitor # "expvars"
    BY <1>3, <2>2 DEF HitsFit
  <2>3. QED
    BY <2>1, <2>2
<1>12. QED
  BY <1>5, <1>6, <1>7, <1>8, <1>9, <1>10, <1>11

(* MonitorInv is inductive.                                                *)
LEMMA MonitorInvariant == MonitorSpec => []MonitorInv
<1>1. MonitorInv /\ [MonitorNext]_monitorVars => MonitorInv'
  <2> SUFFICES ASSUME MonitorInv, [MonitorNext]_monitorVars
               PROVE  MonitorInv'
    OBVIOUS
  <2>1. ASSUME NEW h \in Hit,
               \/ ComesIn(h) \/ Serves(h) \/ ShowsCounter(h)
               \/ ShowsHits(h) \/ ForgetsHits(h) \/ Ends(h)
        PROVE  MonitorInv'
    BY <2>1, ComesInKeeps, ServesKeeps, ShowsCounterKeeps, ShowsHitsKeeps,
       ForgetsHitsKeeps, EndsKeeps
  <2>2. CASE UNCHANGED monitorVars
    BY <2>2 DEF monitorVars, MonitorInv, MonitorTypes, StagesFit, OnePrints,
                LinesFit, LinesOf, AdminsSeeAdmin, TimesFit, TimesDiffer,
                CounterFits, DoneHits, HitsFit, Served, Printing
  <2>3. QED
    BY <2>1, <2>2 DEF MonitorNext
<1>2. QED
  BY MonitorStarts, <1>1, PTL DEF MonitorSpec

(* A request that has ended is written down once and with its times, but   *)
(* for what the access log, statsd and expvars do, for any number of       *)
(* requests and any times their works take.                                *)
THEOREM RequestsAreCountedCorrect == MonitorSpec => []RequestsAreCounted
<1>1. MonitorInv => RequestsAreCounted
  <2> SUFFICES ASSUME MonitorInv
               PROVE  RequestsAreCounted
    OBVIOUS
  <2> USE DEF MonitorInv
  <2>1. ASSUME monitor \in {"site", "timings", "metrics"}, NEW h \in DoneHits
        PROVE  Cardinality({l \in lines : l[1] = h})
                 = (IF served[h] = <<"500">> THEN 0 ELSE 1)
    <3>1. stage[h] = "done" /\ h \in Hit
      BY DEF DoneHits
    <3>2. CASE served[h] = <<"500">>
      BY <2>1, <3>1, <3>2, FS_EmptySet DEF LinesFit, LinesOf
    <3>3. CASE served[h] # <<"500">>
      BY <2>1, <3>1, <3>3, FS_Singleton DEF LinesFit, LinesOf
    <3>4. QED
      BY <3>2, <3>3
  <2>2. monitor = "site" => \A h \in DoneHits :
          served[h] \in {<<"admin">>, <<"500">>} => asked[h].cookie
    BY DEF AdminsSeeAdmin, DoneHits
  <2>3. QED
    BY <2>1, <2>2 DEF RequestsAreCounted, TimesFit, TimesDiffer, CounterFits,
                      HitsFit, Served, Printing
<1>2. QED
  BY MonitorInvariant, <1>1, PTL

-----------------------------------------------------------------------------
(* DbExplorer: what is written stays in its row and is read back.          *)
(* The table's rows have numbers that MySQL has given out before, and what *)
(* is called a number, in a row or in a body, is one.                      *)
IsTyped(v) == v.type = "float64" => v.val \in Int

Numbered ==
  /\ nextId \in Nat
  /\ table = [k \in DOMAIN table |-> table[k]]
  /\ \A k \in DOMAIN table : k \in Nat /\ k < nextId
  /\ req.body \in Bodies \cup {<<>>}
  /\ \A k \in DOMAIN table, f \in Db!Fields : IsTyped(table[k][f])

(* Values of different types differ.                                       *)
LEMMA TypesOfValues ==
  /\ Db!Nil.type = "nil" /\ Db!Bool.type = "bool" /\ Db!Broken.type = "broken"
  /\ \A s : Db!Text(s).type = "string" /\ Db!Text(s).val = s
  /\ \A n : Db!Number(n).type = "float64" /\ Db!Number(n).val = 2 * n
  /\ \A n : Db!Halves(n).type = "float64" /\ Db!Halves(n).val = n
  /\ \A g : Db!Column(g).type = "column" /\ Db!Column(g).val = g
BY DEF Db!Nil, Db!Bool, Db!Broken, Db!Text, Db!Number, Db!Halves, Db!Column

LEMMA RoundedIsNear ==
  ASSUME NEW n \in Int
  PROVE  /\ Db!Rounded(n) \in Int
         /\ Db!Rounded(n) % 2 = 0
         /\ Db!Rounded(n) - n \in -1..1
<1>1. n % 2 = 0 \/ n % 2 = 1
  OBVIOUS
<1>2. CASE n % 2 = 0
  BY <1>2 DEF Db!Rounded
<1>3. CASE n % 2 = 1
  <2>1. Db!Rounded(n) = n + 1 \/ Db!Rounded(n) = n - 1
    BY <1>3 DEF Db!Rounded
  <2>2. (n + 1) % 2 = 0 /\ (n - 1) % 2 = 0
    BY <1>3
  <2>3. QED
    BY <2>1, <2>2
<1>4. QED
  BY <1>1, <1>2, <1>3

(* What a column takes of a number is the nearest it can hold, and of a    *)
(* text the number the text says.                                          *)
LEMMA TakenHolds ==
  ASSUME NEW f, NEW w, IsTyped(w),
         ~Db!IsText(f), Db!Taken(f, w) # Db!Broken
  PROVE  /\ Db!HoldsValue(Db!Taken(f, w), f, w)
         /\ Db!Taken(f, w).type \in {"nil", "float64"}
         /\ IsTyped(Db!Taken(f, w))
<1> DEFINE c == Db!Taken(f, w)
<1>1. ASSUME NEW n \in Int, c = Db!Held(f, n)
      PROVE  Db!Holds(c, f, n) /\ c.type = "float64" /\ IsTyped(c)
  <2>1. /\ c.type = "float64"
        /\ c.val = IF columns[f].type = "float" THEN n ELSE Db!Rounded(n)
    BY <1>1, TypesOfValues DEF Db!Held
  <2> HIDE DEF c
  <2>2. QED
    BY <2>1, RoundedIsNear DEF Db!Holds, IsTyped
<1>2. CASE w = Db!Nil
  <2>1. c = Db!Nil
    BY <1>2 DEF Db!Taken
  <2>2. QED
    BY <1>2, <2>1, TypesOfValues DEF Db!HoldsValue, IsTyped
<1>3. CASE w # Db!Nil /\ w.type = "float64"
  <2>1. w.val \in Int
    BY <1>3 DEF IsTyped
  <2>2. c = Db!Held(f, w.val)
    BY <1>3 DEF Db!Taken
  <2>3. QED
    BY <1>1, <1>3, <2>1, <2>2 DEF Db!HoldsValue
<1>4. CASE w # Db!Nil /\ w.type = "string" /\ w.val \in DOMAIN Numerals
  <2>1. Numerals[w.val] \in Int
    BY <1>4, ExplorerAssumption DEF Db!OneValueEach
  <2>2. c = Db!Held(f, Numerals[w.val])
    BY <1>4 DEF Db!Taken
  <2>3. QED
    BY <1>1, <1>4, <2>1, <2>2 DEF Db!HoldsValue
<1>5. CASE /\ w # Db!Nil /\ w.type # "float64"
           /\ ~(w.type = "string" /\ w.val \in DOMAIN Numerals)
  BY <1>5 DEF Db!Taken
<1>6. QED
  BY <1>2, <1>3, <1>4, <1>5

(* Texts are taken by columns of texts as they are.                        *)
LEMMA TextIsTaken ==
  ASSUME NEW f, NEW w, Db!IsText(f)
  PROVE  Db!Taken(f, w) = w \/ (w = Db!Nil /\ Db!Taken(f, w) = Db!Broken)
BY DEF Db!Taken

(* What a clause gives a row of numbers and other values.                  *)
LEMMA GivenIsTyped ==
  ASSUME NEW set, NEW f, NEW row,
         IsTyped(set[f]), set[f].type = "column" => IsTyped(row[set[f].val]),
         Db!Gives(set, f, row) # Db!Broken
  PROVE  IsTyped(Db!Gives(set, f, row))
<1> DEFINE w == IF set[f].type = "column" THEN row[set[f].val] ELSE set[f]
<1>1. IsTyped(w) /\ Db!Gives(set, f, row) = Db!Taken(f, w)
  BY DEF Db!Gives
<1> HIDE DEF w
<1>2. CASE Db!IsText(f)
  BY <1>1, <1>2, TextIsTaken
<1>3. CASE ~Db!IsText(f)
  BY <1>1, <1>3, TakenHolds
<1>4. QED
  BY <1>2, <1>3

(* What is written without quotes is a number, a name or null, or breaks   *)
(* the statement.                                                          *)
LEMMA UnquotedSays ==
  ASSUME NEW v, IsTyped(v), Db!Unquoted(v) # Db!Broken
  PROVE  LET c == Db!Unquoted(v) IN
         /\ IsTyped(c)
         /\ \/ c = Db!Nil /\ v \in {Db!Text("NULL"), Db!Text("null")}
            \/ c = Db!Number(1) /\ v = Db!Bool
            \/ c = v /\ v.type = "float64"
            \/ /\ v.type = "string" /\ v.val \in DOMAIN Numerals
               /\ c = Db!Halves(Numerals[v.val])
            \/ /\ v.type = "string" /\ v.val \in Db!Fields
               /\ c = Db!Column(v.val)
<1> DEFINE c == Db!Unquoted(v)
<1>1. \/ c = Db!Nil /\ v \in {Db!Text("NULL"), Db!Text("null")}
      \/ c = Db!Number(1) /\ v = Db!Bool
      \/ c = v /\ v.type = "float64"
      \/ /\ v.type = "string" /\ v.val \in DOMAIN Numerals
         /\ c = Db!Halves(Numerals[v.val])
      \/ /\ v.type = "string" /\ v.val \in Db!Fields
         /\ c = Db!Column(v.val)
  BY DEF Db!Unquoted
<1>2. \A s \in DOMAIN Numerals : Numerals[s] \in Int
  BY ExplorerAssumption DEF Db!OneValueEach
<1>3. IsTyped(c)
  <2> HIDE DEF c
  <2>1. QED
    BY <1>1, <1>2, TypesOfValues DEF IsTyped
<1>4. QED
  BY <1>1, <1>3

(* It names a column of the table only.                                    *)
IsClause(c) == IsTyped(c) /\ (c.type = "column" => c.val \in Db!Fields)

LEMMA UnquotedIsClause ==
  ASSUME NEW v, IsTyped(v), Db!Unquoted(v) # Db!Broken
  PROVE  IsClause(Db!Unquoted(v))
BY UnquotedSays, TypesOfValues DEF IsClause

(* The values of a body are typed.                                         *)
LEMMA BodyIsTyped ==
  ASSUME req.body \in Bodies \cup {<<>>}, NEW f \in DOMAIN req.body
  PROVE  IsTyped(req.body[f])
BY ExplorerAssumption DEF Db!OneValueEach, IsTyped

(* So do the clauses that Update and Insert make of a body, and what they  *)
(* give to rows is typed as well.                                          *)
LEMMA UpdateIsTyped ==
  ASSUME req.body \in Bodies \cup {<<>>}, ~Db!Refused(req.body),
         NEW f \in Db!Given(req.body), Db!Update(req.body)[f] # Db!Broken
  PROVE  IsClause(Db!Update(req.body)[f])
<1> DEFINE v == req.body[f]
           c == Db!Update(req.body)[f]
<1>1. IsTyped(v)
  BY BodyIsTyped DEF Db!Given
<1>2. CASE v \in {Db!Nil, Db!Text("NULL")}
  <2>1. c = Db!Nil
    BY <1>2 DEF Db!Update, Db!Quote, Db!Text, Db!Nil
  <2>2. QED
    BY <2>1, TypesOfValues DEF IsClause, IsTyped
<1>3. CASE v \notin {Db!Nil, Db!Text("NULL")} /\ Db!IsText(f)
  <2>1. c = v
    BY <1>3 DEF Db!Update
  <2>2. v.type = "string"
    <3>1. Db!GetType(f) = "string"
      BY <1>3 DEF Db!GetType, Db!IsText
    <3>2. Db!HasType(v, f)
      BY <1>3 DEF Db!Refused
    <3>3. QED
      BY <3>1, <3>2 DEF Db!HasType
  <2>3. QED
    BY <1>1, <2>1, <2>2 DEF IsClause
<1>4. CASE v \notin {Db!Nil, Db!Text("NULL")} /\ ~Db!IsText(f)
  <2>1. c = Db!Unquoted(v)
    BY <1>4 DEF Db!Update
  <2>2. QED
    BY <1>1, <2>1, UnquotedIsClause
<1>5. QED
  BY <1>2, <1>3, <1>4

LEMMA InsertIsTyped ==
  ASSUME req.body \in Bodies \cup {<<>>}, ~Db!Panics(req.body),
         NEW f \in DOMAIN Db!Insert(req.body),
         Db!Insert(req.body)[f] # Db!Broken
  PROVE  IsClause(Db!Insert(req.body)[f])
<1> DEFINE v == req.body[f]
           c == Db!Insert(req.body)[f]
<1>1. f \in Db!Fields /\ ~columns[f].pri
  BY DEF Db!Insert
<1>2. CASE c \in {Db!Nil, Db!Text("null"), Db!Text("")}
  BY <1>2, TypesOfValues DEF IsClause, IsTyped
<1>3. CASE c \notin {Db!Nil, Db!Text("null"), Db!Text("")}
  <2>1. /\ f \in Db!Given(req.body) /\ v # Db!Nil /\ ~columns[f].null
        /\ c = IF Db!IsText(f) THEN v ELSE Db!Unquoted(v)
    BY <1>3 DEF Db!Insert
  <2>2. IsTyped(v)
    BY <2>1, BodyIsTyped DEF Db!Given
  <2>3. CASE Db!IsText(f)
    <3>1. v.type \in {"string", "nil"}
      BY <1>1, <2>1, <2>3 DEF Db!Panics
    <3>2. QED
      BY <2>1, <2>2, <2>3, <3>1 DEF IsClause
  <2>4. CASE ~Db!IsText(f)
    BY <2>1, <2>2, <2>4, UnquotedIsClause
  <2>5. QED
    BY <2>3, <2>4
<1>4. QED
  BY <1>2, <1>3

LEMMA GivesIsTyped ==
  ASSUME NEW set, NEW f \in DOMAIN set, NEW row, NEW rows, row \in rows,
         ~Db!Fails(set, rows), IsClause(set[f]),
         \A g \in Db!Fields : IsTyped(row[g])
  PROVE  IsTyped(Db!Gives(set, f, row)) /\ Db!Gives(set, f, row) # Db!Broken
<1>1. Db!Gives(set, f, row) # Db!Broken
  BY DEF Db!Fails
<1>2. QED
  BY <1>1, GivenIsTyped DEF IsClause

LEMMA PostIsTyped ==
  ASSUME Numbered, Db!Post,
         NEW k \in DOMAIN table', NEW f \in Db!Fields
  PROVE  IsTyped(table'[k][f])
<1> DEFINE set == Db!Update(req.body)
<1>1. CASE Db!PostStatus # 200
  BY <1>1 DEF Db!Post, Numbered
<1>2. CASE Db!PostStatus = 200
  <2>1. ~Db!Refused(req.body) /\ ~Db!Fails(set, Db!SelectedRows)
    BY <1>2 DEF Db!PostStatus
  <2>2. table' = Db!Changed(set)
    BY <1>2 DEF Db!Post
  <2>3. k \in DOMAIN table
    BY <2>2 DEF Db!Changed
  <2>4. CASE k \in Db!Selected /\ f \in DOMAIN set
    <3>1. table'[k][f] = Db!Gives(set, f, table[k])
      BY <2>2, <2>3, <2>4 DEF Db!Changed
    <3>2. table[k] \in Db!SelectedRows
      BY <2>4 DEF Db!SelectedRows
    <3>3. f \in Db!Given(req.body)
      BY <2>4 DEF Db!Update
    <3>4. set[f] # Db!Broken
      BY <2>1, <2>4 DEF Db!Fails
    <3>5. IsClause(set[f])
      BY <2>1, <3>3, <3>4, UpdateIsTyped DEF Numbered
    <3> HIDE DEF set
    <3>6. QED
      BY <2>1, <2>3, <2>4, <3>1, <3>2, <3>5, GivesIsTyped DEF Numbered
  <2>5. CASE ~(k \in Db!Selected /\ f \in DOMAIN set)
    <3>1. table'[k][f] = table[k][f]
      BY <2>2, <2>3, <2>5 DEF Db!Changed
    <3>2. QED
      BY <2>3, <3>1 DEF Numbered
  <2>6. QED
    BY <2>4, <2>5
<1>3. QED
  BY <1>1, <1>2

LEMMA BlankIsTyped ==
  ASSUME NEW f \in Db!Fields PROVE IsTyped(Db!Blank[f])
<1>1. Db!Blank[f] \in {Db!Number(0), Db!Text(""), Db!Nil}
  BY DEF Db!Blank
<1>2. IsTyped(Db!Number(0))
  BY DEF IsTyped, Db!Number, Db!Halves
<1>3. IsTyped(Db!Text("")) /\ IsTyped(Db!Nil)
  BY TypesOfValues DEF IsTyped
<1>4. QED
  BY <1>1, <1>2, <1>3

LEMMA PutIsTyped ==
  ASSUME Numbered, Db!Put,
         NEW k \in DOMAIN table', NEW f \in Db!Fields
  PROVE  IsTyped(table'[k][f])
<1> DEFINE set == Db!Insert(req.body)
<1>1. CASE k \in DOMAIN table
  <2>1. table'[k] = table[k]
    BY <1>1 DEF Db!Put
  <2>2. QED
    BY <1>1, <2>1 DEF Numbered
<1>2. CASE k \notin DOMAIN table
  <2>1. Db!Inserts /\ table'[k] = Db!NewRow(set)
    BY <1>2 DEF Db!Put
  <2>2. ~Db!Panics(req.body) /\ ~Db!Fails(set, {Db!Blank})
    BY <2>1 DEF Db!Inserts
  <2>3. CASE f \in DOMAIN set
    <3>1. ~columns[f].pri
      BY <2>3 DEF Db!Insert
    <3>2. table'[k][f] = Db!Gives(set, f, Db!Blank)
      BY <2>1, <2>3, <3>1 DEF Db!NewRow
    <3>3. set[f] # Db!Broken
      BY <2>2, <2>3 DEF Db!Fails
    <3>4. IsClause(set[f])
      BY <2>2, <2>3, <3>3, InsertIsTyped DEF Numbered
    <3> HIDE DEF set
    <3>5. QED
      BY <2>2, <2>3, <3>2, <3>4, GivesIsTyped, BlankIsTyped
  <2>4. CASE f \notin DOMAIN set
    <3>1. table'[k][f] = Db!Number(nextId) \/ table'[k][f] = Db!Nil
      BY <2>1, <2>4 DEF Db!NewRow
    <3>2. QED
      BY <3>1, TypesOfValues DEF IsTyped, Numbered
  <2>5. QED
    BY <2>3, <2>4
<1>3. QED
  BY <1>1, <1>2

LEMMA NumberedInvariant == Db!Spec => []Numbered
<1>1. Db!Init => Numbered
  BY DEF Db!Init, Numbered, Db!NoRequest
<1>2. Numbered /\ [Db!Next]_(Db!vars) => Numbered'
  <2> SUFFICES ASSUME Numbered, [Db!Next]_(Db!vars) PROVE Numbered'
    OBVIOUS
  <2>1. CASE UNCHANGED Db!vars
    BY <2>1 DEF Db!vars, Numbered, Db!Fields
  <2>2. CASE Db!Receive
    <3>1. req'.body \in Bodies \cup {<<>>}
      BY <2>2 DEF Db!Receive, Db!Requests
    <3>2. QED
      BY <2>2, <3>1 DEF Db!Receive, Numbered, Db!Fields
  <2>3. CASE Db!Serve
    <3>1. req'.body \in Bodies \cup {<<>>} /\ Db!Fields' = Db!Fields
      BY <2>3 DEF Db!Serve, Db!NoRequest, Db!Fields
    <3>2. CASE Db!Post
      <4>1. DOMAIN table' = DOMAIN table /\ table' = [k \in DOMAIN table' |-> table'[k]]
        BY <3>2 DEF Db!Post, Db!Changed, Numbered
      <4>2. \A k \in DOMAIN table', f \in Db!Fields : IsTyped(table'[k][f])
        BY <3>2, PostIsTyped DEF Numbered
      <4>3. QED
        BY <3>1, <3>2, <4>1, <4>2 DEF Db!Post, Numbered
    <3>3. CASE Db!Put
      <4>1. \A k \in DOMAIN table', f \in Db!Fields : IsTyped(table'[k][f])
        BY <3>3, PutIsTyped DEF Numbered
      <4>2. QED
        BY <3>1, <3>3, <4>1 DEF Db!Put, Numbered
    <3>4. CASE Db!Delete
      <4>1. nextId' = nextId
        BY <3>4 DEF Db!Delete
      <4>2. \/ table' = table
            \/ table' = [k \in DOMAIN table \ Db!Selected |-> table[k]]
        BY <3>4 DEF Db!Delete
      <4>3. DOMAIN table' \subseteq DOMAIN table
        BY <4>2
      <4>4. table' = [k \in DOMAIN table' |-> table'[k]]
        BY <4>2 DEF Numbered
      <4>5. \A k \in DOMAIN table' : table'[k] = table[k]
        BY <4>2
      <4>6. QED
        BY <3>1, <4>1, <4>3, <4>4, <4>5 DEF Numbered
    <3>5. CASE Db!Get
      BY <3>1, <3>5 DEF Db!Get, Numbered
    <3>6. QED
      BY <2>3, <3>2, <3>3, <3>4, <3>5 DEF Db!Serve
  <2>4. QED
    BY <2>1, <2>2, <2>3 DEF Db!Next
<1>3. QED
  BY <1>1, <1>2, PTL DEF Db!Spec

(* The key column is one that is marked as such.                           *)
LEMMA KeyIsMarked ==
  ASSUME Db!getPRI # Db!NoKey
  PROVE  Db!getPRI \in Db!Fields /\ columns[Db!getPRI].pri
<1>1. \E f \in Db!Fields : columns[f].pri
  BY DEF Db!getPRI, Db!NoKey
<1>2. Db!getPRI = CHOOSE f \in Db!Fields : columns[f].pri
  BY <1>1 DEF Db!getPRI
<1>3. QED
  BY <1>1, <1>2

(* An id that is a number selects the row of that number.                  *)
LEMMA NumberSelects ==
  ASSUME NEW row, NEW id, id.type = "float64", Db!getPRI # Db!NoKey
  PROVE  Db!WhereByPRIKey(row, id) <=> row[Db!getPRI] = id
<1>1. id # Db!NoId
  BY TypesOfValues DEF Db!NoId
<1>2. QED
  BY <1>1 DEF Db!WhereByPRIKey

(* A request that is served changes the rows it is about only.             *)
ServesItsRow ==
  /\ req.method = "PUT" =>
       table = [k \in DOMAIN table' \ {nextId} |-> table'[k]]
  /\ /\ req.method \in {"POST", "DELETE"}
     /\ Db!getPRI # Db!NoKey /\ Db!Id(req.path).type = "float64"
     => Db!Others(table', Db!Id(req.path)) = Db!Others(table, Db!Id(req.path))
  /\ req # Db!NoRequest /\ Db!Status # 200
     => table' = table \/ (req.method = "PUT" /\ Db!getPRI = Db!NoKey)

LEMMA PutServesItsRow ==
  ASSUME Numbered, Db!Put PROVE ServesItsRow
<1> USE DEF Db!Put
<1>0. nextId \notin DOMAIN table /\ table = [k \in DOMAIN table |-> table[k]]
  BY DEF Numbered
<1>1. table = [k \in DOMAIN table' \ {nextId} |-> table'[k]]
  <2>1. CASE Db!Inserts
    <3>1. DOMAIN table' \ {nextId} = DOMAIN table
      BY <1>0, <2>1
    <3>2. \A k \in DOMAIN table : table'[k] = table[k]
      BY <2>1
    <3>3. QED
      BY <1>0, <3>1, <3>2
  <2>2. CASE ~Db!Inserts
    BY <1>0, <2>2
  <2>3. QED
    BY <2>1, <2>2
<1>2. ASSUME Db!Status # 200
      PROVE  table' = table \/ Db!getPRI = Db!NoKey
  <2>1. Db!PutStatus # 200
    BY <1>2 DEF Db!Status
  <2>2. ~Db!Inserts \/ Db!getPRI = Db!NoKey
    BY <2>1 DEF Db!PutStatus, Db!Inserts
  <2>3. QED
    BY <2>2
<1>3. QED
  BY <1>1, <1>2 DEF ServesItsRow

LEMMA PostServesItsRow ==
  ASSUME Numbered, Db!Post PROVE ServesItsRow
<1> DEFINE set == Db!Update(req.body)
<1>1. ASSUME Db!getPRI # Db!NoKey, Db!Id(req.path).type = "float64"
      PROVE  Db!Others(table', Db!Id(req.path)) = Db!Others(table, Db!Id(req.path))
  <2>1. CASE Db!PostStatus # 200
    BY <2>1 DEF Db!Post
  <2>2. CASE Db!PostStatus = 200
    <3>1. ~Db!Refused(req.body)
      BY <2>2 DEF Db!PostStatus
    <3>2. Db!getPRI \notin Db!Given(req.body)
      BY <3>1, <1>1, KeyIsMarked DEF Db!Refused
    <3>3. table' = Db!Changed(set)
      BY <2>2 DEF Db!Post
    <3>4. DOMAIN table' = DOMAIN table
      BY <3>3 DEF Db!Changed
    <3>5. \A k \in DOMAIN table : table'[k][Db!getPRI] = table[k][Db!getPRI]
      BY <3>2, <3>3, <1>1, KeyIsMarked DEF Db!Changed, Db!Update
    <3>6. \A k \in DOMAIN table :
            table[k][Db!getPRI] # Db!Id(req.path) => table'[k] = table[k]
      BY <3>3, <1>1, NumberSelects DEF Db!Changed, Db!Selected
    <3>7. QED
      BY <3>4, <3>5, <3>6 DEF Db!Others
  <2>3. QED
    BY <2>1, <2>2
<1>2. Db!Status # 200 => table' = table
  BY DEF Db!Post, Db!Status
<1>3. QED
  BY <1>1, <1>2 DEF Db!Post, ServesItsRow

LEMMA DeleteServesItsRow ==
  ASSUME Numbered, Db!Delete PROVE ServesItsRow
<1>1. ASSUME Db!getPRI # Db!NoKey, Db!Id(req.path).type = "float64"
      PROVE  Db!Others(table', Db!Id(req.path)) = Db!Others(table, Db!Id(req.path))
  <2>1. table' = [k \in DOMAIN table \ Db!Selected |-> table[k]]
    <3>1. Db!Id(req.path) # Db!NoId /\ ~Db!BadId
      BY <1>1, TypesOfValues DEF Db!NoId, Db!BadId
    <3>2. QED
      BY <1>1, <3>1 DEF Db!Delete, Db!DeleteStatus
  <2>2. \A k \in DOMAIN table : k \in Db!Selected
          <=> table[k][Db!getPRI] = Db!Id(req.path)
    BY <1>1, NumberSelects DEF Db!Selected
  <2>3. QED
    BY <2>1, <2>2 DEF Db!Others
<1>2. Db!Status # 200 => table' = table
  BY DEF Db!Delete, Db!Status
<1>3. QED
  BY <1>1, <1>2 DEF Db!Delete, ServesItsRow

(* hw6: a request changes its own row only, and an error means that the    *)
(* statement was not executed, except for a PUT into a table without key.  *)
THEOREM WritesStayInRowCorrect == Db!Spec => WritesStayInRow
<1>1. ASSUME Numbered, Db!Next PROVE ServesItsRow
  <2>1. CASE Db!Receive
    BY <2>1 DEF Db!Receive, Db!NoRequest, ServesItsRow
  <2>2. CASE Db!Get
    BY <2>2 DEF Db!Get, ServesItsRow
  <2>3. QED
    BY <1>1, <2>1, <2>2, PutServesItsRow, PostServesItsRow, DeleteServesItsRow
    DEF Db!Next, Db!Serve
<1>2. Numbered /\ [Db!Next]_(Db!vars) => [ServesItsRow]_(Db!vars)
  BY <1>1
<1>3. [][ServesItsRow]_(Db!vars) => WritesStayInRow
  BY PTL DEF ServesItsRow, WritesStayInRow, Db!WritesStayInRow
<1>4. QED
  BY <1>2, <1>3, NumberedInvariant, PTL DEF Db!Spec

-----------------------------------------------------------------------------
(* A row is read as it is, but for empty texts in nullable columns.        *)
LEMMA RowIsRead ==
  ASSUME NEW row, NEW f \in Db!Fields
  PROVE  \/ Db!ReadRow(row)[f] = row[f]
         \/ /\ Db!ReadRow(row)[f] = Db!Nil
            /\ row[f] = Db!Text("") /\ columns[f].null
BY DEF Db!ReadRow

(* NULL and texts are taken as they are.                                   *)
LEMMA TakenAsItIs ==
  ASSUME NEW f, NEW set, NEW row, Db!Gives(set, f, row) # Db!Broken,
         \/ set[f] = Db!Nil
         \/ Db!IsText(f) /\ \E s : set[f] = Db!Text(s)
  PROVE  Db!Gives(set, f, row) = set[f]
<1>1. set[f].type # "column"
  BY TypesOfValues
<1>2. Db!Gives(set, f, row) = Db!Taken(f, set[f])
  BY <1>1 DEF Db!Gives
<1>3. CASE set[f] = Db!Nil
  BY <1>2, <1>3 DEF Db!Taken
<1>4. CASE Db!IsText(f) /\ set[f] # Db!Nil
  BY <1>2, <1>4 DEF Db!Taken
<1>5. QED
  BY <1>3, <1>4, TypesOfValues

(* A value that a column of numbers takes for what a body says unquoted.   *)
LEMMA UnquotedIsReadBack ==
  ASSUME NEW v, IsTyped(v), NEW f \in Db!Fields, ~Db!IsText(f), NEW row,
         \A g \in Db!Fields : IsTyped(row[g]), NEW set,
         set[f] = Db!Unquoted(v), set[f] # Db!Broken,
         Db!Gives(set, f, row) # Db!Broken, NEW new, new[f] = Db!Gives(set, f, row)
  PROVE  Db!ReadsBackAs(Db!ReadRow(new)[f], f, v, row)
<1> DEFINE c == set[f]
           w == IF c.type = "column" THEN row[c.val] ELSE c
           cell == Db!Gives(set, f, row)
<1>1. cell = Db!Taken(f, w) /\ cell # Db!Broken
  BY DEF Db!Gives
<1>2. IsClause(c)
  BY UnquotedIsClause
<1>3. IsTyped(w)
  BY <1>2 DEF IsClause
<1>4. Db!HoldsValue(cell, f, w) /\ cell.type \in {"nil", "float64"}
  <2> HIDE DEF w, cell
  <2>1. QED
    BY <1>1, <1>3, TakenHolds
<1>5. Db!ReadRow(new)[f] = cell
  <2>1. cell.type # "string" /\ new[f] = cell
    BY <1>4
  <2>2. cell # Db!Text("")
    <3> HIDE DEF cell
    <3>1. QED
      BY <2>1, TypesOfValues
  <2> HIDE DEF cell
  <2>3. QED
    BY <2>1, <2>2, RowIsRead
<1>6. \/ c = Db!Nil /\ v \in {Db!Text("NULL"), Db!Text("null")}
      \/ c = Db!Number(1) /\ v = Db!Bool
      \/ c = v /\ v.type = "float64"
      \/ /\ v.type = "string" /\ v.val \in DOMAIN Numerals
         /\ c = Db!Halves(Numerals[v.val])
      \/ /\ v.type = "string" /\ v.val \in Db!Fields
         /\ c = Db!Column(v.val)
  BY UnquotedSays
<1>7. CASE c = Db!Nil /\ v \in {Db!Text("NULL"), Db!Text("null")}
  <2>1. w = Db!Nil
    BY <1>7, TypesOfValues
  <2>2. cell = Db!Nil
    BY <1>4, <2>1, TypesOfValues DEF Db!HoldsValue
  <2>3. QED
    BY <1>5, <1>7, <2>2 DEF Db!ReadsBackAs
<1>8. CASE c = Db!Number(1) /\ v = Db!Bool
  <2>1. w = Db!Number(1) /\ w # Db!Nil /\ w.type = "float64"
    BY <1>8, TypesOfValues
  <2>2. w.val = 2
    BY <2>1 DEF Db!Number, Db!Halves
  <2>3. Db!Holds(cell, f, 2)
    BY <1>4, <2>1, <2>2 DEF Db!HoldsValue
  <2>4. QED
    BY <1>5, <1>8, <2>3 DEF Db!ReadsBackAs
<1>9. CASE c = v /\ v.type = "float64"
  <2>1. w = v
    BY <1>9
  <2>2. QED
    BY <1>4, <1>5, <2>1 DEF Db!ReadsBackAs
<1>10. CASE /\ v.type = "string" /\ v.val \in DOMAIN Numerals
            /\ c = Db!Halves(Numerals[v.val])
  <2>1. w = c /\ w # Db!Nil /\ w.type = "float64" /\ w.val = Numerals[v.val]
    BY <1>10, TypesOfValues
  <2>2. Db!Holds(cell, f, Numerals[v.val])
    BY <1>4, <2>1 DEF Db!HoldsValue
  <2>3. v # Db!Nil
    BY <1>10, TypesOfValues
  <2>4. Db!HoldsValue(cell, f, v)
    BY <1>10, <2>2, <2>3 DEF Db!HoldsValue
  <2>5. QED
    BY <1>5, <2>4 DEF Db!ReadsBackAs
<1>11. CASE /\ v.type = "string" /\ v.val \in Db!Fields
            /\ c = Db!Column(v.val)
  <2>1. w = row[v.val]
    BY <1>11, TypesOfValues
  <2>2. QED
    BY <1>4, <1>5, <1>11, <2>1 DEF Db!ReadsBackAs
<1>12. QED
  BY <1>6, <1>7, <1>8, <1>9, <1>10, <1>11

(* A column of texts, which holds the text of the body or NULL.            *)
LEMMA TextIsReadBack ==
  ASSUME NEW v, NEW f \in Db!Fields, Db!IsText(f), NEW row, NEW new,
         \/ new[f] = v
         \/ new[f] = Db!Nil /\ v \in {Db!Nil, Db!Text("NULL")}
  PROVE  Db!ReadsBackAs(Db!ReadRow(new)[f], f, v, row)
<1> DEFINE cell == Db!ReadRow(new)[f]
<1>1. CASE new[f] = v
  <2>1. cell = v \/ (cell = Db!Nil /\ v = Db!Text("") /\ columns[f].null)
    BY <1>1, RowIsRead
  <2>2. QED
    BY <2>1 DEF Db!ReadsBackAs
<1>2. CASE new[f] = Db!Nil /\ v \in {Db!Nil, Db!Text("NULL")}
  <2>1. cell = Db!Nil
    BY <1>2, RowIsRead
  <2>2. QED
    BY <1>2, <2>1 DEF Db!ReadsBackAs
<1>3. QED
  BY <1>1, <1>2

LEMMA PostIsReadBack ==
  ASSUME Numbered, Db!Post, Db!Status = 200,
         NEW k \in DOMAIN table, NEW f \in Db!Fields
  PROVE  Db!PostReadsBack(k, f)
<1> DEFINE set == Db!Update(req.body)
           v == req.body[f]
           c == set[f]
<1>1. Db!PostStatus = 200
  BY DEF Db!Post, Db!Status
<1>2. ~Db!Refused(req.body) /\ ~Db!Fails(set, Db!SelectedRows)
  BY <1>1 DEF Db!PostStatus
<1>3. table' = Db!Changed(set) /\ DOMAIN set = Db!Given(req.body)
  BY <1>1 DEF Db!Post, Db!Update
<1>4. CASE k \in Db!Selected /\ f \in Db!Given(req.body)
  <2>1. table'[k][f] = Db!Gives(set, f, table[k])
    BY <1>3, <1>4 DEF Db!Changed
  <2>2. c # Db!Broken /\ Db!Gives(set, f, table[k]) # Db!Broken
    BY <1>2, <1>3, <1>4 DEF Db!Fails, Db!SelectedRows
  <2>3. IsTyped(v) /\ \A g \in Db!Fields : IsTyped(table[k][g])
    BY <1>4, BodyIsTyped DEF Numbered, Db!Given
  <2>4. Db!ReadsBackAs(Db!ReadRow(table'[k])[f], f, v, table[k])
    <3>1. CASE v \in {Db!Nil, Db!Text("NULL")}
      <4>1. c = Db!Nil
        BY <1>4, <3>1 DEF Db!Update, Db!Quote, Db!Text, Db!Nil
      <4>2. table'[k][f] = Db!Nil
        BY <2>1, <2>2, <4>1, TypesOfValues DEF Db!Gives, Db!Taken
      <4>3. CASE Db!IsText(f)
        BY <3>1, <4>2, <4>3, TextIsReadBack
      <4>4. CASE ~Db!IsText(f)
        <5>1. Db!ReadRow(table'[k])[f] = Db!Nil
          BY <4>2, RowIsRead
        <5>2. QED
          BY <3>1, <4>4, <5>1, TypesOfValues DEF Db!ReadsBackAs, Db!HoldsValue
      <4>5. QED
        BY <4>3, <4>4
    <3>2. CASE v \notin {Db!Nil, Db!Text("NULL")} /\ Db!IsText(f)
      <4>1. c = v
        BY <1>4, <2>2, <3>2 DEF Db!Update
      <4>2. v.type = "string"
        <5>1. Db!GetType(f) = "string"
          BY <3>2 DEF Db!GetType, Db!IsText
        <5>2. Db!HasType(v, f)
          BY <1>2, <1>4, <3>2 DEF Db!Refused
        <5>3. QED
          BY <5>1, <5>2 DEF Db!HasType
      <4>3. table'[k][f] = v
        BY <2>1, <2>2, <3>2, <4>1, <4>2 DEF Db!Gives, Db!Taken
      <4>4. QED
        BY <3>2, <4>3, TextIsReadBack
    <3>3. CASE v \notin {Db!Nil, Db!Text("NULL")} /\ ~Db!IsText(f)
      <4>1. c = Db!Unquoted(v)
        BY <1>4, <3>3 DEF Db!Update
      <4> HIDE DEF set, v
      <4>2. QED
        BY <2>1, <2>2, <2>3, <3>3, <4>1, UnquotedIsReadBack
    <3>4. QED
      BY <3>1, <3>2, <3>3
  <2>5. QED
    BY <1>4, <2>4 DEF Db!PostReadsBack
<1>5. CASE ~(k \in Db!Selected /\ f \in Db!Given(req.body))
  <2>1. table'[k][f] = table[k][f]
    BY <1>3, <1>5 DEF Db!Changed
  <2>2. Db!ReadRow(table'[k])[f] = Db!ReadRow(table[k])[f]
    BY <2>1 DEF Db!ReadRow
  <2>3. QED
    BY <1>5, <2>2 DEF Db!PostReadsBack
<1>6. QED
  BY <1>4, <1>5

LEMMA PutIsReadBack ==
  ASSUME Numbered, Db!Put, Db!Status = 200,
         NEW f \in Db!Given(req.body), ~columns[f].pri
  PROVE  Db!PutReadsBack(f)
<1> DEFINE set == Db!Insert(req.body)
           v == req.body[f]
           c == set[f]
           new == table'[nextId]
<1>1. Db!PutStatus = 200
  BY DEF Db!Put, Db!Status
<1>2. Db!Inserts /\ ~Db!Panics(req.body) /\ ~Db!Fails(set, {Db!Blank})
  BY <1>1 DEF Db!PutStatus, Db!Inserts
<1>3. new = Db!NewRow(set)
  BY <1>2 DEF Db!Put, Numbered
<1>4. f \in Db!Fields /\ f \in DOMAIN set
  BY DEF Db!Given, Db!Insert
<1>5. new[f] = Db!Gives(set, f, Db!Blank)
  BY <1>3, <1>4 DEF Db!NewRow
<1>6. c # Db!Broken /\ new[f] # Db!Broken
  BY <1>2, <1>4, <1>5 DEF Db!Fails
<1>7. CASE columns[f].null
  <2>1. c \in {Db!Nil, Db!Text("null")} /\ (c = Db!Nil \/ Db!IsText(f))
    BY <1>4, <1>7 DEF Db!Insert
  <2>2. new[f] = c
    BY <1>5, <1>6, <2>1, TakenAsItIs
  <2>3. Db!ReadRow(new)[f] \in {Db!Nil, Db!Text("null")}
    BY <1>4, <2>1, <2>2, RowIsRead
  <2>4. QED
    BY <1>7, <2>3 DEF Db!PutReadsBack
<1>8. CASE ~columns[f].null /\ v = Db!Nil
  <2>1. c = Db!Text("") /\ Db!IsText(f)
    BY <1>4, <1>6, <1>8 DEF Db!Insert
  <2>2. new[f] = Db!Text("")
    BY <1>5, <1>6, <2>1, TakenAsItIs
  <2>3. Db!ReadRow(new)[f] = Db!Text("")
    BY <1>4, <1>8, <2>2, RowIsRead
  <2>4. QED
    BY <1>8, <2>3 DEF Db!PutReadsBack
<1>9. CASE ~columns[f].null /\ v # Db!Nil
  <2>1. c = IF Db!IsText(f) THEN v ELSE Db!Unquoted(v)
    BY <1>4, <1>9 DEF Db!Insert
  <2>2. IsTyped(v) /\ \A g \in Db!Fields : IsTyped(Db!Blank[g])
    BY BodyIsTyped, BlankIsTyped DEF Numbered, Db!Given
  <2>3. Db!ReadsBackAs(Db!ReadRow(new)[f], f, v, Db!Blank)
    <3>1. CASE Db!IsText(f)
      <4>1. v.type \in {"string", "nil"}
        BY <1>2, <1>9, <3>1 DEF Db!Panics
      <4>2. new[f] = v
        BY <1>5, <1>9, <2>1, <3>1, <4>1 DEF Db!Gives, Db!Taken
      <4>3. QED
        BY <1>4, <3>1, <4>2, TextIsReadBack
    <3>2. CASE ~Db!IsText(f)
      <4>1. c = Db!Unquoted(v)
        BY <2>1, <3>2
      <4> HIDE DEF set, v, new
      <4>2. QED
        BY <1>4, <1>5, <1>6, <2>2, <3>2, <4>1, UnquotedIsReadBack
    <3>3. QED
      BY <3>1, <3>2
  <2>4. QED
    BY <1>9, <2>3 DEF Db!PutReadsBack
<1>10. QED
  BY <1>7, <1>8, <1>9

(* What a served request wrote is read back.                               *)
IsReadBack ==
  /\ req.method = "POST" /\ Db!Status = 200 =>
       \A k \in DOMAIN table, f \in Db!Fields : Db!PostReadsBack(k, f)
  /\ req.method = "PUT" /\ Db!Status = 200 =>
       \A f \in Db!Given(req.body) : ~columns[f].pri => Db!PutReadsBack(f)

(* hw6: what a body says is read back from the rows it was written to, but *)
(* for the values the property names, for any table and any body.          *)
THEOREM ReadsBackCorrect == Db!Spec => ReadsBack
<1>1. ASSUME Numbered, Db!Next PROVE IsReadBack
  <2>1. CASE Db!Receive
    BY <2>1 DEF Db!Receive, Db!NoRequest, IsReadBack
  <2>2. CASE Db!Post
    BY <1>1, <2>2, PostIsReadBack DEF Db!Post, IsReadBack
  <2>3. CASE Db!Put
    BY <1>1, <2>3, PutIsReadBack DEF Db!Put, IsReadBack
  <2>4. CASE Db!Delete
    BY <2>4 DEF Db!Delete, IsReadBack
  <2>5. CASE Db!Get
    BY <2>5 DEF Db!Get, IsReadBack
  <2>6. QED
    BY <1>1, <2>1, <2>2, <2>3, <2>4, <2>5 DEF Db!Next, Db!Serve
<1>2. Numbered /\ [Db!Next]_(Db!vars) => [IsReadBack]_(Db!vars)
  BY <1>1
<1>3. [][IsReadBack]_(Db!vars) => ReadsBack
  BY PTL DEF IsReadBack, ReadsBack, Db!ReadsBack
<1>4. QED
  BY <1>2, <1>3, NumberedInvariant, PTL DEF Db!Spec
=============================================================================
