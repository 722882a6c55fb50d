---------------------------- MODULE TCacheProofs ----------------------------
(***************************************************************************)
(* Theorems about TCache: any number of callers, tags, calls and faults,   *)
(* and any limit on the polls of the lock.                                 *)
(***************************************************************************)
EXTENDS TCache, TLAPS

(* The part of the types the invariants below depend on.                   *)
CacheTypes ==
  /\ item \in Records \cup {None}
  /\ tag \in Versions
  /\ lock \in Caller \cup {None}
  /\ {now, source, published} \subseteq Nat
  /\ pc \in [Caller -> PcStates]
  /\ value \in [Caller -> Records \cup {None}]
  /\ seen \in [Caller -> Versions]
  /\ stamp \in [Caller -> Nat]
  /\ incs \in [Tag -> Nat]
  /\ readAt \in [Caller -> [Tag -> Nat]]

(* A call that writes the tags of a record has that record, and when it    *)
(* stores the record every tag is there.                                   *)
HasRecord ==
  \A c \in Caller :
    /\ pc[c] \in {"getTags", "setTags", "set"} => value[c] \in Records
    /\ pc[c] = "set" => \A t \in Tag : value[c].tags[t] # None

CacheInv == CacheTypes /\ HasRecord /\ StoredIsComplete

(* Every step keeps the types, and hands on complete records only.         *)
LEMMA CacheInvInvariant == Spec => []CacheInv
<1>1. Init => CacheInv
  BY TCacheAssumption
  DEF Init, CacheInv, CacheTypes, HasRecord, StoredIsComplete, Versions,
      NoTags, NoIncs, PcStates
<1>2. CacheInv /\ [Next]_vars => CacheInv'
  <2> SUFFICES ASSUME CacheInv, [Next]_vars
               PROVE  CacheInv'
    OBVIOUS
  <2> USE TCacheAssumption
      DEF CacheInv, CacheTypes, HasRecord, StoredIsComplete, PcStates, Goto,
          Fault, server, world, work, marks
  <2>1. ASSUME NEW c \in Caller, Begin(c)
        PROVE  CacheInv'
    BY <2>1 DEF Begin
  <2>2. ASSUME NEW c \in Caller, CheckLock(c)
        PROVE  CacheInv'
    <3>1. /\ pc' \in [Caller -> PcStates] /\ pc[c] = "checkLock"
          /\ \A d \in Caller : pc'[d] = pc[d]
                              \/ pc'[d] \notin {"getTags", "setTags", "set"}
      BY <2>2 DEF CheckLock
    <3>2. UNCHANGED <<server, world, work, marks>>
      BY <2>2 DEF CheckLock
    <3> QED
      BY <3>1, <3>2
  <2>3. ASSUME NEW c \in Caller, Get(c)
        PROVE  CacheInv'
    <3>1. value' \in [Caller -> Records \cup {None}]
      <4>1. value' = [value EXCEPT ![c] = item] \/ value' = value
        BY <2>3 DEF Get
      <4> QED
        BY <4>1
    <3>2. pc' \in [Caller -> PcStates]
      BY <2>3 DEF Get
    <3>3. \A d \in Caller : pc'[d] \in {"getTags", "setTags", "set"} =>
            d # c /\ pc'[d] = pc[d] /\ value'[d] = value[d]
      BY <2>3 DEF Get
    <3> QED
      BY <2>3, <3>1, <3>3, <3>2 DEF Get
  <2>4. ASSUME NEW c \in Caller, Validate(c)
        PROVE  CacheInv'
    <3>1. /\ value' \in [Caller -> Records \cup {None}]
          /\ pc' \in [Caller -> PcStates]
      BY <2>4 DEF Validate
    <3>2. \A d \in Caller : pc'[d] \in {"getTags", "setTags", "set"} =>
            d # c /\ pc'[d] = pc[d] /\ value'[d] = value[d]
      BY <2>4 DEF Validate
    <3> QED
      BY <2>4, <3>1, <3>2 DEF Validate
  <2>5. ASSUME NEW c \in Caller, LockRebuild(c)
        PROVE  CacheInv'
    BY <2>5 DEF LockRebuild
  <2>6. ASSUME NEW c \in Caller, Callback(c)
        PROVE  CacheInv'
    <3>1. [data |-> source, tags |-> NoTags] \in Records
      BY DEF Records, Versions, NoTags
    <3>2. CASE Fetched(c)
      <4>1. value' \in [Caller -> Records \cup {None}]
        BY <3>1, <3>2 DEF Fetched
      <4>2. readAt' \in [Caller -> [Tag -> Nat]] /\ pc' \in [Caller -> PcStates]
        BY <3>2 DEF Fetched
      <4>3. HasRecord'
        BY <3>1, <3>2 DEF Fetched
      <4> QED
        BY <2>6, <4>1, <4>2, <4>3 DEF Callback
    <3>3. CASE ~Fetched(c)
      BY <2>6, <3>3 DEF Callback
    <3> QED
      BY <3>2, <3>3
  <2>7. ASSUME NEW c \in Caller, GetTags(c)
        PROVE  CacheInv'
    <3>1. /\ seen' = [seen EXCEPT ![c] = tag] \/ seen' = seen
          /\ stamp' = [stamp EXCEPT ![c] = now] \/ stamp' = stamp
      BY <2>7 DEF GetTags, TagsRead
    <3>2. now \in Nat
      OBVIOUS
    <3>3. seen' \in [Caller -> Versions]
      BY <3>1
    <3>4. stamp' \in [Caller -> Nat]
      BY <3>1, <3>2
    <3>5. pc' \in [Caller -> PcStates]
      BY <2>7 DEF GetTags, TagsRead
    <3>6. \A d \in Caller :
            /\ pc'[d] \in {"getTags", "setTags", "set"} =>
                 pc[d] \in {"getTags", "setTags", "set"}
            /\ pc'[d] = "set" => pc[d] = "set"
      BY <2>7 DEF GetTags, TagsRead
    <3> QED
      BY <2>7, <3>6, <3>4, <3>5, <3>3 DEF GetTags
  <2>8. ASSUME NEW c \in Caller, TagsRecorded(c)
        PROVE  CacheInv'
    BY <2>8 DEF TagsRecorded, Versions, Records, NoTags, NoIncs
  <2>9. ASSUME NEW c \in Caller, SetItem(c)
        PROVE  CacheInv'
    BY <2>9 DEF SetItem, Versions, Records, NoTags, NoIncs
  <2>10. ASSUME NEW c \in Caller, Unlock(c)
        PROVE  CacheInv'
    BY <2>10 DEF Unlock, Versions, Records, NoTags, NoIncs
  <2>11. ASSUME NEW c \in Caller, Crash(c)
        PROVE  CacheInv'
    BY <2>11 DEF Crash, Versions, Records, NoTags, NoIncs
  <2>12. ASSUME NEW c \in Caller, NEW t \in Tag, SetTag(c, t)
        PROVE  CacheInv'
    <3>1. tag' \in Versions
      <4>1. tag' = [tag EXCEPT ![t] = stamp[c]] \/ tag' = tag
        BY <2>12 DEF SetTag
      <4>2. stamp[c] \in Nat
        OBVIOUS
      <4> QED
        BY <4>1, <4>2 DEF Versions
    <3>2. seen' \in [Caller -> Versions]
      <4>1. \/ seen' = [seen EXCEPT ![c] = [seen[c] EXCEPT ![t] = stamp[c]]]
            \/ seen' = seen
        BY <2>12 DEF SetTag
      <4>2. stamp[c] \in Nat
        OBVIOUS
      <4>3. [seen[c] EXCEPT ![t] = stamp[c]] \in Versions
        BY <4>2 DEF Versions
      <4> QED
        BY <4>1, <4>3
    <3>3. \A d \in Caller :
            /\ pc'[d] \in {"getTags", "setTags", "set"} => pc'[d] = pc[d]
            /\ pc'[d] = "set" => pc[d] = "set"
      BY <2>12 DEF SetTag
    <3>4. pc' \in [Caller -> PcStates]
      BY <2>12 DEF SetTag
    <3> QED
      BY <2>12, <3>1, <3>2, <3>3, <3>4 DEF SetTag
  <2>13. ASSUME NEW t \in Tag, Increment(t)
        PROVE  CacheInv'
    BY <2>13 DEF Increment, Versions
  <2>14. ASSUME NEW t \in Tag, EvictTag(t)
        PROVE  CacheInv'
    BY <2>14 DEF EvictTag, Versions
  <2>15. CASE ChangeSource
    BY <2>15 DEF ChangeSource
  <2>16. CASE Second
    BY <2>16 DEF Second
  <2>17. CASE ExpireLock
    BY <2>17 DEF ExpireLock
  <2>18. CASE EvictItem
    BY <2>18 DEF EvictItem
  <2>19. CASE UNCHANGED vars
    BY <2>19 DEF vars
  <2> QED
    BY <2>1, <2>2, <2>3, <2>4, <2>5, <2>6, <2>7, <2>8, <2>9, <2>10, <2>11,
       <2>12, <2>13, <2>14, <2>15, <2>16, <2>17, <2>18, <2>19 DEF Next, CallStep
<1> QED
  BY <1>1, <1>2, PTL DEF Spec

(* tcache: a rebuild that failed half way stores nothing; what is in the   *)
(* cache has a version for every tag.                                      *)
THEOREM StoredIsCompleteCorrect == Spec => []StoredIsComplete
BY CacheInvInvariant, PTL DEF CacheInv

-----------------------------------------------------------------------------
(* lockRebuild and unlockRebuild: lock_mkey does not outlive its call      *)
(* unless that crashed or could not delete it, and excludes other rebuilds *)
(* until a call goes on without it or it times out.                        *)
THEOREM LockIsHeldCorrect == Spec => []LockIsHeld
<1>1. Init => LockIsHeld
  BY DEF Init, LockIsHeld, Rebuilding
<1>2. CacheInv /\ LockIsHeld /\ [Next]_vars => LockIsHeld'
  <2> SUFFICES ASSUME CacheInv, LockIsHeld, [Next]_vars
               PROVE  LockIsHeld'
    OBVIOUS
  <2>0. /\ None \notin Caller
        /\ lock \in Caller \cup {None}
        /\ pc \in [Caller -> PcStates]
    BY TCacheAssumption DEF CacheInv, CacheTypes
  <2> USE <2>0 DEF LockIsHeld, Rebuilding, Goto, Fault, server, world, work,
                   marks
  <2>1. ASSUME NEW c \in Caller, Begin(c)
        PROVE  LockIsHeld'
    BY <2>1 DEF Begin
  <2>2. ASSUME NEW c \in Caller, CheckLock(c)
        PROVE  LockIsHeld'
    BY <2>2 DEF CheckLock
  <2>3. ASSUME NEW c \in Caller, Get(c)
        PROVE  LockIsHeld'
    BY <2>3 DEF Get
  <2>4. ASSUME NEW c \in Caller, Validate(c)
        PROVE  LockIsHeld'
    BY <2>4 DEF Validate
  <2>5. ASSUME NEW c \in Caller, LockRebuild(c)
        PROVE  LockIsHeld'
    BY <2>5 DEF LockRebuild
  <2>6. ASSUME NEW c \in Caller, Callback(c)
        PROVE  LockIsHeld'
    BY <2>6 DEF Callback, Fetched
  <2>7. ASSUME NEW c \in Caller, GetTags(c)
        PROVE  LockIsHeld'
    BY <2>7 DEF GetTags, TagsRead
  <2>8. ASSUME NEW c \in Caller, TagsRecorded(c)
        PROVE  LockIsHeld'
    BY <2>8 DEF TagsRecorded
  <2>9. ASSUME NEW c \in Caller, SetItem(c)
        PROVE  LockIsHeld'
    BY <2>9 DEF SetItem
  <2>10. ASSUME NEW c \in Caller, Unlock(c)
        PROVE  LockIsHeld'
    BY <2>10 DEF Unlock
  <2>11. ASSUME NEW c \in Caller, Crash(c)
        PROVE  LockIsHeld'
    BY <2>11 DEF Crash
  <2>12. ASSUME NEW c \in Caller, NEW t \in Tag, SetTag(c, t)
        PROVE  LockIsHeld'
    BY <2>12 DEF SetTag
  <2>13. ASSUME NEW t \in Tag, Increment(t)
        PROVE  LockIsHeld'
    BY <2>13 DEF Increment
  <2>14. ASSUME NEW t \in Tag, EvictTag(t)
        PROVE  LockIsHeld'
    BY <2>14 DEF EvictTag
  <2>15. CASE ChangeSource
    BY <2>15 DEF ChangeSource
  <2>16. CASE Second
    BY <2>16 DEF Second
  <2>17. CASE ExpireLock
    BY <2>17 DEF ExpireLock
  <2>18. CASE EvictItem
    BY <2>18 DEF EvictItem
  <2>19. CASE UNCHANGED vars
    BY <2>19 DEF vars
  <2> QED
    BY <2>1, <2>2, <2>3, <2>4, <2>5, <2>6, <2>7, <2>8, <2>9, <2>10, <2>11,
       <2>12, <2>13, <2>14, <2>15, <2>16, <2>17, <2>18, <2>19 DEF Next, CallStep
<1> QED
  BY <1>1, <1>2, CacheInvInvariant, PTL DEF Spec

-----------------------------------------------------------------------------
(* A record's versions are not ahead of those memcached holds; if they are *)
(* the same, the record is as new as the last increment.                   *)
Sound(r) ==
  /\ r \in Records
  /\ \A t \in Tag : r.tags[t] # None /\ tag[t] # None /\ r.tags[t] <= tag[t]
  /\ r.tags = tag => r.data >= published

(* What a call has fetched is as new as the last increment if there was    *)
(* none since.                                                             *)
FetchedIsFresh ==
  \A c \in Caller : pc[c] \in {"getTags", "setTags"} =>
    /\ \A t \in Tag : readAt[c][t] <= incs[t]
    /\ (\A t \in Tag : readAt[c][t] = incs[t]) => value[c].data >= published

(* A tag a call has recorded and nobody has incremented since had not been *)
(* incremented between rebuildCb and that either.                          *)
SeenInTime ==
  \A c \in Caller, t \in Tag : pc[c] = "setTags" /\ seen[c][t] # None =>
    /\ tag[t] # None
    /\ seen[c][t] <= tag[t]
    /\ seen[c][t] = tag[t] => readAt[c][t] = incs[t]

RecordsAreSound ==
  /\ item # None => Sound(item)
  /\ \A c \in Caller : pc[c] \in {"validate", "set"} => Sound(value[c])

FreshInv ==
  /\ published <= source
  /\ FetchedIsFresh
  /\ ~clobbered /\ ~overtaken => SeenInTime /\ RecordsAreSound

(* FreshInv is inductive.                                                  *)
LEMMA FreshInvInvariant == Spec => []FreshInv
<1>1. Init => FreshInv
  BY DEF Init, FreshInv, FetchedIsFresh, SeenInTime, RecordsAreSound
<1>2. CacheInv /\ FreshInv /\ [Next]_vars => FreshInv'
  <2> SUFFICES ASSUME CacheInv, FreshInv, [Next]_vars
               PROVE  FreshInv'
    OBVIOUS
  <2>0. /\ None \notin Nat
        /\ item \in Records \cup {None}
        /\ tag \in [Tag -> Nat \cup {None}]
        /\ source \in Nat /\ published \in Nat /\ now \in Nat
        /\ pc \in [Caller -> PcStates]
        /\ value \in [Caller -> Records \cup {None}]
        /\ seen \in [Caller -> [Tag -> Nat \cup {None}]]
        /\ stamp \in [Caller -> Nat]
        /\ incs \in [Tag -> Nat]
        /\ readAt \in [Caller -> [Tag -> Nat]]
        /\ HasRecord
    BY TCacheAssumption DEF CacheInv, CacheTypes, Versions
  <2> USE <2>0 DEF FreshInv, FetchedIsFresh, SeenInTime, RecordsAreSound,
                   Sound, Goto, Fault, server, world, work, marks
  <2>1. ASSUME NEW c \in Caller, Begin(c)
        PROVE  FreshInv'
    BY <2>1 DEF Begin
  <2>2. ASSUME NEW c \in Caller, CheckLock(c)
        PROVE  FreshInv'
    BY <2>2 DEF CheckLock
  <2>3. ASSUME NEW c \in Caller, Get(c)
        PROVE  FreshInv'
    <3>1. \A d \in Caller :
            /\ d # c => pc'[d] = pc[d] /\ value'[d] = value[d]
            /\ d = c => pc'[d] \notin {"getTags", "setTags", "set"}
            /\ d = c /\ pc'[d] = "validate" => item # None /\ value'[d] = item
      BY <2>3 DEF Get
    <3>2. UNCHANGED <<server, source, seen, readAt, marks>>
      BY <2>3 DEF Get
    <3> QED
      BY <3>1, <3>2
  <2>4. ASSUME NEW c \in Caller, Validate(c)
        PROVE  FreshInv'
    BY <2>4 DEF Validate
  <2>5. ASSUME NEW c \in Caller, LockRebuild(c)
        PROVE  FreshInv'
    <3>1. \A d \in Caller :
            pc'[d] = pc[d] \/ (pc'[d] = "callback" /\ d = c)
      BY <2>5 DEF LockRebuild
    <3>2. UNCHANGED <<item, tag, world, work, incs, published, clobbered,
                      overtaken>>
      BY <2>5 DEF LockRebuild
    <3> QED
      BY <3>1, <3>2
  <2>6. ASSUME NEW c \in Caller, Callback(c)
        PROVE  FreshInv'
    <3>1. \A d \in Caller : d # c => /\ pc'[d] = pc[d]
                                     /\ value'[d] = value[d]
                                     /\ readAt'[d] = readAt[d]
      BY <2>6 DEF Callback, Fetched
    <3>2. \/ pc'[c] = "unlockFailed"
          \/ /\ pc'[c] = "getTags"
             /\ value'[c].data = source
             /\ readAt'[c] = incs
      BY <2>6 DEF Callback, Fetched
    <3>3. UNCHANGED <<server, source, seen, marks>>
      BY <2>6 DEF Callback
    <3>4. FetchedIsFresh'
      <4>1. ASSUME NEW d \in Caller, d # c, pc'[d] \in {"getTags", "setTags"}
            PROVE  /\ \A u \in Tag : readAt'[d][u] <= incs'[u]
                   /\ (\A u \in Tag : readAt'[d][u] = incs'[u])
                        => value'[d].data >= published'
        BY <3>1, <3>3, <4>1
      <4>2. ASSUME pc'[c] \in {"getTags", "setTags"}
            PROVE  /\ \A u \in Tag : readAt'[c][u] <= incs'[u]
                   /\ value'[c].data >= published'
        BY <3>2, <3>3, <4>2
      <4> QED
        BY <4>1, <4>2
    <3>5. \A d \in Caller : pc'[d] \in {"setTags", "validate", "set"} =>
            d # c /\ pc'[d] = pc[d] /\ value'[d] = value[d]
                  /\ readAt'[d] = readAt[d]
      BY <3>1, <3>2
    <3>6. ~clobbered /\ ~overtaken => SeenInTime' /\ RecordsAreSound'
      BY <3>3, <3>5
    <3> QED
      BY <3>3, <3>4, <3>6
  <2>7. ASSUME NEW c \in Caller, GetTags(c)
        PROVE  FreshInv'
    <3>1. UNCHANGED <<server, source, value, readAt, incs, published,
                      clobbered>>
      BY <2>7 DEF GetTags
    <3>2. \A d \in Caller : d # c => pc'[d] = pc[d] /\ seen'[d] = seen[d]
      BY <2>7 DEF GetTags, TagsRead
    <3>3. \/ pc'[c] = "unlockFailed" /\ overtaken' = overtaken
          \/ /\ pc[c] = "getTags" /\ pc'[c] = "setTags" /\ seen'[c] = tag
             /\ ~overtaken' => /\ ~overtaken
                               /\ \A t \in Tag : tag[t] # None =>
                                    readAt[c][t] = incs[t]
      BY <2>7 DEF GetTags, TagsRead, Late
    <3>4. FetchedIsFresh'
      BY <3>1, <3>2, <3>3
    <3>5. ~clobbered' /\ ~overtaken' => RecordsAreSound'
      BY <3>1, <3>2, <3>3
    <3>6. ~clobbered' /\ ~overtaken' => SeenInTime'
      <4> SUFFICES ASSUME ~clobbered', ~overtaken',
                          NEW d \in Caller, NEW t \in Tag,
                          pc'[d] = "setTags", seen'[d][t] # None
                   PROVE  /\ tag[t] # None
                          /\ seen'[d][t] <= tag[t]
                          /\ seen'[d][t] = tag[t] => readAt[d][t] = incs[t]
        BY <3>1
      <4>1. CASE d = c
        BY <4>1, <3>3
      <4>2. CASE d # c
        BY <4>2, <3>1, <3>2, <3>3
      <4> QED
        BY <4>1, <4>2
    <3> QED
      BY <3>1, <3>4, <3>5, <3>6
  <2>8. ASSUME NEW c \in Caller, TagsRecorded(c)
        PROVE  FreshInv'
    BY <2>8 DEF TagsRecorded, HasRecord, Records, Versions
  <2>9. ASSUME NEW c \in Caller, SetItem(c)
        PROVE  FreshInv'
    BY <2>9 DEF SetItem
  <2>10. ASSUME NEW c \in Caller, Unlock(c)
        PROVE  FreshInv'
    BY <2>10 DEF Unlock
  <2>11. ASSUME NEW c \in Caller, Crash(c)
        PROVE  FreshInv'
    BY <2>11 DEF Crash
  <2>12. ASSUME NEW c \in Caller, NEW t \in Tag, SetTag(c, t)
        PROVE  FreshInv'
    <3>1. /\ item' = item /\ source' = source /\ value' = value
          /\ readAt' = readAt /\ incs' = incs /\ published' = published
      BY <2>12 DEF SetTag
    <3>2. \A d \in Caller :
            pc'[d] \in {"getTags", "setTags", "validate", "set"} =>
              pc'[d] = pc[d]
      BY <2>12 DEF SetTag
    <3>3. FetchedIsFresh'
      <4> SUFFICES ASSUME NEW d \in Caller, pc'[d] \in {"getTags", "setTags"}
                   PROVE  /\ \A u \in Tag : readAt[d][u] <= incs[u]
                          /\ (\A u \in Tag : readAt[d][u] = incs[u])
                               => value[d].data >= published
        BY <3>1
      <4>1. pc[d] \in {"getTags", "setTags"}
        BY <3>2
      <4> QED
        BY <4>1
    <3>4. CASE UNCHANGED <<tag, seen, clobbered, overtaken>>
      <4>1. ~clobbered /\ ~overtaken => SeenInTime'
        BY <3>1, <3>2, <3>4
      <4>2. ~clobbered /\ ~overtaken => RecordsAreSound'
        BY <3>1, <3>2, <3>4
      <4> QED
        BY <3>1, <3>3, <3>4, <4>1, <4>2
    <3>5. CASE ~UNCHANGED <<tag, seen, clobbered, overtaken>>
      <4>1. /\ tag' = [tag EXCEPT ![t] = stamp[c]]
            /\ seen' = [seen EXCEPT ![c] = [seen[c] EXCEPT ![t] = stamp[c]]]
            /\ ~clobbered' => ~clobbered /\ tag[t] = None
            /\ ~overtaken' => ~overtaken /\ readAt[c][t] = incs[t]
        BY <3>5, <2>12 DEF SetTag, Late
      <4> SUFFICES ASSUME ~clobbered', ~overtaken'
                   PROVE  SeenInTime' /\ RecordsAreSound'
        BY <3>1, <3>3
      <4>2. /\ tag[t] = None /\ readAt[c][t] = incs[t]
            /\ SeenInTime /\ RecordsAreSound
        BY <4>1
      <4>3. \A r : ~Sound(r)
        BY <4>2
      <4>4. RecordsAreSound'
        <5>1. item = None
          BY <4>2, <4>3
        <5>2. \A d \in Caller : pc[d] \notin {"validate", "set"}
          BY <4>2, <4>3
        <5>3. item' = None
          BY <5>1, <3>1
        <5>4. \A d \in Caller : pc'[d] \notin {"validate", "set"}
          BY <5>2, <3>2
        <5> QED
          BY <5>3, <5>4
      <4>5. ASSUME NEW d \in Caller, NEW u \in Tag,
                   pc'[d] = "setTags", seen'[d][u] # None
            PROVE  /\ tag'[u] # None
                   /\ seen'[d][u] <= tag'[u]
                   /\ seen'[d][u] = tag'[u] => readAt[d][u] = incs[u]
        <5>0. pc[d] = "setTags" /\ stamp[c] \in Nat /\ stamp[c] # None
          BY <4>5, <3>2
        <5>1. CASE u = t /\ d = c
          BY <5>0, <5>1, <4>1, <4>2
        <5>2. CASE u = t /\ d # c
          <6>1. seen'[d][u] = seen[d][u]
            BY <5>2, <4>1
          <6> QED
            BY <6>1, <5>0, <5>2, <4>2, <4>5
        <5>3. CASE u # t
          <6>1. seen'[d][u] = seen[d][u] /\ tag'[u] = tag[u]
            BY <5>3, <4>1
          <6> QED
            BY <6>1, <5>0, <4>2, <4>5
        <5> QED
          BY <5>1, <5>2, <5>3
      <4>6. SeenInTime'
        BY <3>1, <4>5
      <4> QED
        BY <4>4, <4>6
    <3> QED
      BY <3>4, <3>5
  <2>13. ASSUME NEW t \in Tag, Increment(t)
        PROVE  FreshInv'
    BY <2>13 DEF Increment, Records, Versions, HasRecord
  <2>14. ASSUME NEW t \in Tag, EvictTag(t)
        PROVE  FreshInv'
    BY <2>14 DEF EvictTag, Records, Versions, HasRecord
  <2>15. CASE ChangeSource
    BY <2>15 DEF ChangeSource
  <2>16. CASE Second
    BY <2>16 DEF Second
  <2>17. CASE ExpireLock
    BY <2>17 DEF ExpireLock
  <2>18. CASE EvictItem
    BY <2>18 DEF EvictItem
  <2>19. CASE UNCHANGED vars
    BY <2>19 DEF vars
  <2> QED
    BY <2>1, <2>2, <2>3, <2>4, <2>5, <2>6, <2>7, <2>8, <2>9, <2>10, <2>11,
       <2>12, <2>13, <2>14, <2>15, <2>16, <2>17, <2>18, <2>19 DEF Next, CallStep
<1> QED
  BY <1>1, <1>2, CacheInvInvariant, PTL DEF Spec

(* tcache: a hit is no older than the last increment, unless a tag was     *)
(* evicted or made twice, or a rebuild was overtaken by an increment       *)
(* before it recorded the tag.                                             *)
THEOREM HitIsFreshCorrect == Spec => HitIsFresh
<1> DEFINE Fresh ==
      \A c \in Caller :
        /\ pc[c] = "validate" /\ pc'[c] = "returned"
        /\ ~clobbered /\ ~overtaken
        => value[c].data >= published
<1>1. CacheInv /\ FreshInv /\ [Next]_vars => [Fresh]_vars
  <2> SUFFICES ASSUME CacheInv, FreshInv, [Next]_vars,
                      NEW c \in Caller,
                      pc[c] = "validate", pc'[c] = "returned",
                      ~clobbered, ~overtaken
               PROVE  value[c].data >= published
    OBVIOUS
  <2>1. Sound(value[c])
    BY DEF FreshInv, RecordsAreSound
  <2>2. Validate(c)
    <3>1. pc \in [Caller -> PcStates]
      BY DEF CacheInv, CacheTypes
    <3>2. pc' # pc
      OBVIOUS
    <3>3. PICK d \in Caller : Begin(d) \/ CallStep(d) \/ Crash(d)
      BY <3>2 DEF Next, vars, Increment, EvictTag, ChangeSource, Second,
                  ExpireLock, EvictItem
    <3>4. d = c
      BY <3>1, <3>3 DEF CallStep, Begin, Crash, CheckLock, Get, Validate,
           LockRebuild, Callback, Fetched, GetTags, TagsRead, SetTag,
           TagsRecorded, SetItem, Unlock, Goto
    <3>5. Begin(c) \/ CallStep(c) \/ Crash(c)
      BY <3>3, <3>4
    <3>6. ~Begin(c) /\ ~Crash(c)
      BY <3>1 DEF Begin, Crash, Goto
    <3> QED
      BY <3>5, <3>6 DEF CallStep, CheckLock, Get, LockRebuild, Callback,
           GetTags, SetTag, TagsRecorded, SetItem, Unlock
  <2>3. value[c].tags = tag
    BY <2>2 DEF Validate, Goto, CacheInv, CacheTypes
  <2> QED
    BY <2>1, <2>3 DEF Sound
<1> QED
  BY <1>1, CacheInvInvariant, FreshInvInvariant, PTL DEF Spec, HitIsFresh
=============================================================================
