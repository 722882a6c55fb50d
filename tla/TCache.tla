------------------------------- MODULE TCache -------------------------------
(***************************************************************************)
(* The tagged cache of src/database/tcache/cache.go: concurrent TGet calls *)
(* for one key, over a memcached server that may evict what it holds,      *)
(* time out the rebuild lock, or fail a request.                           *)
(*                                                                         *)
(* Every request to memcached is a step of its own, and so is the call to  *)
(* the caller's rebuildCb.  What the cache is a copy of is the counter     *)
(* source: it moves when the data changes, and whoever changes it          *)
(* increments a tag afterwards, as main.go does.  JSON and reflection are  *)
(* left out, except for the type check that a failed rebuildCb runs into.  *)
(***************************************************************************)
EXTENDS Integers, FiniteSets

CONSTANTS
  Caller,       \* goroutines that call TGet, one call after the other
  Tag,          \* the tags rebuildCb returns
  None,         \* a key memcached does not hold
  MaxTries,     \* polls of the lock before giving up; 4 in the code
  MaxCalls,     \* bound: calls of TGet
  MaxSource,    \* bound: changes of the data
  MaxNow,       \* bound: seconds that pass
  MaxInc,       \* bound: increments of a tag
  MaxFaults     \* bound: failed requests, evictions, failed rebuilds, crashes

ASSUME TCacheAssumption ==
  /\ None \notin Nat \cup Caller
  /\ MaxTries \in Nat \ {0}
  /\ {MaxCalls, MaxSource, MaxNow, MaxInc, MaxFaults} \subseteq Nat

VARIABLES
  item,        \* memcached: the record under mkey, or None
  tag,         \* memcached: tag[t] is the version under t, or None
  lock,        \* memcached: who added lock_mkey, or None (its value is "1")
  now,         \* the clock, in seconds
  source,      \* what rebuildCb would return
  pc, tries,   \* per call: the next request, the polls made so far
  value,       \* per call: the record it got or is building, or None
  seen,        \* per call: what GetMulti returned for the tags
  stamp,       \* per call: the time it took in getCurrentItemTags
  calls,       \* calls of TGet so far
  faults,      \* faults so far
  incs,        \* incs[t]: increments of t, found or not (history)
  readAt,      \* per call: incs when rebuildCb ran (history)
  published,   \* source at the last increment (history)
  clobbered,   \* a tag was evicted, or set while it existed (history)
  orphaned,    \* calls that crashed or could not delete the lock (history)
  breached,    \* a call went on without the lock, or the lock timed out
               \* under a call that was rebuilding (history)
  overtaken    \* a tag was incremented after a rebuildCb had read the
               \* source and before the call recorded that tag (history)

server == <<item, tag, lock>>
world == <<now, source>>
work == <<value, seen, stamp, readAt>>
marks == <<incs, published, clobbered, orphaned, breached, overtaken>>
vars == <<server, world, pc, tries, work, calls, faults, marks>>

PcStates == {"idle", "checkLock", "get", "validate", "lockRebuild", "callback",
             "getTags", "setTags", "set", "unlock", "unlockFailed", "returned",
             "failed", "crashed"}

(* The calls between lockRebuild and unlockRebuild.                        *)
Rebuilding == {"callback", "getTags", "setTags", "set", "unlock",
               "unlockFailed"}

Versions == [Tag -> Nat \cup {None}]
Records == [data : Nat, tags : Versions]

TypeOK ==
  /\ item \in Records \cup {None}
  /\ tag \in Versions
  /\ lock \in Caller \cup {None}
  /\ now \in Nat /\ source \in Nat /\ published \in Nat
  /\ calls \in Nat /\ faults \in Nat
  /\ pc \in [Caller -> PcStates]
  /\ tries \in [Caller -> 0..MaxTries]
  /\ value \in [Caller -> Records \cup {None}]
  /\ seen \in [Caller -> Versions]
  /\ stamp \in [Caller -> Nat]
  /\ incs \in [Tag -> Nat]
  /\ readAt \in [Caller -> [Tag -> Nat]]
  /\ orphaned \in SUBSET Caller
  /\ {clobbered, overtaken, breached} \subseteq BOOLEAN

NoTags == [t \in Tag |-> None]
NoIncs == [t \in Tag |-> 0]

Init ==
  /\ item = None
  /\ tag = NoTags
  /\ lock = None
  /\ now = 1
  /\ source = 0
  /\ pc = [c \in Caller |-> "idle"]
  /\ tries = [c \in Caller |-> 0]
  /\ value = [c \in Caller |-> None]
  /\ seen = [c \in Caller |-> NoTags]
  /\ stamp = [c \in Caller |-> 0]
  /\ calls = 0
  /\ faults = 0
  /\ incs = NoIncs
  /\ readAt = [c \in Caller |-> NoIncs]
  /\ published = 0
  /\ clobbered = FALSE
  /\ orphaned = {}
  /\ breached = FALSE
  /\ overtaken = FALSE

Goto(c, label) == pc' = [pc EXCEPT ![c] = label]
Fault == faults < MaxFaults /\ faults' = faults + 1

-----------------------------------------------------------------------------
(* TGet.                                                                   *)

(* A goroutine may call again once its call has returned.                  *)
Begin(c) ==
  /\ pc[c] \in {"idle", "returned", "failed"}
  /\ calls < MaxCalls
  /\ calls' = calls + 1
  /\ Goto(c, "checkLock")
  /\ UNCHANGED <<server, world, tries, work, faults, marks>>

(* checkLock polls until the lock is gone, MaxTries times at most; TGet    *)
(* goes on whatever it returned.                                           *)
CheckLock(c) ==
  /\ pc[c] = "checkLock"
  /\ \/ /\ lock # None /\ tries[c] + 1 < MaxTries
        /\ tries' = [tries EXCEPT ![c] = @ + 1]
        /\ UNCHANGED <<pc, faults>>
     \/ /\ lock = None \/ tries[c] + 1 = MaxTries
        /\ tries' = [tries EXCEPT ![c] = 0]
        /\ Goto(c, "get")
        /\ UNCHANGED faults
     \/ /\ Fault
        /\ tries' = [tries EXCEPT ![c] = 0]
        /\ Goto(c, "get")
  /\ UNCHANGED <<server, world, work, calls, marks>>

(* A miss leads to rebuild, an error is returned.                          *)
Get(c) ==
  /\ pc[c] = "get"
  /\ \/ /\ value' = [value EXCEPT ![c] = item]
        /\ Goto(c, IF item = None THEN "lockRebuild" ELSE "validate")
        /\ UNCHANGED faults
     \/ Fault /\ Goto(c, "failed") /\ UNCHANGED value
  /\ UNCHANGED <<server, world, tries, seen, stamp, readAt, calls, marks>>

(* Faulty: the tags must exist, their versions are not compared.           *)
Validate_OnlyExistence(c) ==
  /\ pc[c] = "validate"
  /\ Goto(c, IF \A t \in Tag : tag[t] # None THEN "returned" ELSE "lockRebuild")
  /\ value' = [value EXCEPT ![c] = None]
  /\ UNCHANGED <<server, world, tries, seen, stamp, readAt, calls, faults,
                 marks>>

(* isTagsValid: the item's tags against the ones memcached holds now, a    *)
(* missing one included.  In either case the call is done with the record. *)
Validate(c) ==
  /\ pc[c] = "validate"
  /\ \/ /\ Goto(c, IF value[c].tags = tag THEN "returned" ELSE "lockRebuild")
        /\ UNCHANGED faults
     \/ Fault /\ Goto(c, "failed")
  /\ value' = [value EXCEPT ![c] = None]
  /\ UNCHANGED <<server, world, tries, seen, stamp, readAt, calls, marks>>

-----------------------------------------------------------------------------
(* rebuild.                                                                *)

(* Faulty: the call waits until it has the lock.                           *)
LockRebuild_Waits(c) ==
  /\ pc[c] = "lockRebuild"
  /\ lock = None
  /\ lock' = c
  /\ Goto(c, "callback")
  /\ UNCHANGED <<item, tag, world, tries, work, calls, faults, marks>>

(* lockRebuild adds lock_mkey unless it is there, MaxTries times at most.  *)
(* rebuild ignores its result, so the call goes on in every case.          *)
LockRebuild(c) ==
  /\ pc[c] = "lockRebuild"
  /\ \/ /\ lock = None
        /\ lock' = c
        /\ Goto(c, "callback")
        /\ tries' = [tries EXCEPT ![c] = 0]
        /\ UNCHANGED <<faults, breached>>
     \/ /\ lock # None /\ tries[c] + 1 < MaxTries
        /\ tries' = [tries EXCEPT ![c] = @ + 1]
        /\ UNCHANGED <<lock, pc, faults, breached>>
     \/ /\ lock # None /\ tries[c] + 1 = MaxTries
        /\ Goto(c, "callback")
        /\ tries' = [tries EXCEPT ![c] = 0]
        /\ breached' = TRUE
        /\ UNCHANGED <<lock, faults>>
     \/ /\ Fault
        /\ Goto(c, "callback")
        /\ tries' = [tries EXCEPT ![c] = 0]
        /\ breached' = TRUE
        /\ UNCHANGED lock
  /\ UNCHANGED <<item, tag, world, work, calls, incs, published, clobbered, orphaned,
                 overtaken>>

(* rebuildCb has read the source.                                          *)
Fetched(c) ==
  /\ value' = [value EXCEPT ![c] = [data |-> source, tags |-> NoTags]]
  /\ readAt' = [readAt EXCEPT ![c] = incs]
  /\ Goto(c, "getTags")

(* Faulty: the error return leaves the lock.                               *)
Callback_NoDefer(c) ==
  /\ pc[c] = "callback"
  /\ \/ Fetched(c) /\ UNCHANGED faults
     \/ Fault /\ Goto(c, "failed") /\ UNCHANGED <<value, readAt>>
  /\ UNCHANGED <<server, world, tries, seen, stamp, calls, marks>>

(* rebuildCb fails: its result is nil then, whose type differs from that   *)
(* of in, and rebuild returns an error.                                    *)
Callback(c) ==
  /\ pc[c] = "callback"
  /\ \/ Fetched(c) /\ UNCHANGED faults
     \/ Fault /\ Goto(c, "unlockFailed") /\ UNCHANGED <<value, readAt>>
  /\ UNCHANGED <<server, world, tries, seen, stamp, calls, marks>>

Late(c, t) == incs[t] # readAt[c][t]

(* GetMulti has returned the tags, the clock has been read.                *)
TagsRead(c) ==
  /\ seen' = [seen EXCEPT ![c] = tag]
  /\ stamp' = [stamp EXCEPT ![c] = now]
  /\ overtaken' = (overtaken \/ \E t \in Tag : tag[t] # None /\ Late(c, t))
  /\ Goto(c, "setTags")

(* Faulty: when the tags cannot be read the record is stored without them. *)
GetTags_IgnoresError(c) ==
  /\ pc[c] = "getTags"
  /\ \/ TagsRead(c) /\ UNCHANGED faults
     \/ Fault /\ Goto(c, "set") /\ UNCHANGED <<seen, stamp, overtaken>>
  /\ UNCHANGED <<server, world, tries, value, readAt, calls, incs, published,
                 clobbered, orphaned, breached>>

(* getCurrentItemTags begins.                                              *)
GetTags(c) ==
  /\ pc[c] = "getTags"
  /\ \/ TagsRead(c) /\ UNCHANGED faults
     \/ Fault /\ Goto(c, "unlockFailed") /\ UNCHANGED <<seen, stamp, overtaken>>
  /\ UNCHANGED <<server, world, tries, value, readAt, calls, incs, published,
                 clobbered, orphaned, breached>>

(* A tag that was missing is set to the time, whatever it is by now.       *)
SetTag(c, t) ==
  /\ pc[c] = "setTags"
  /\ seen[c][t] = None
  /\ \/ /\ tag' = [tag EXCEPT ![t] = stamp[c]]
        /\ seen' = [seen EXCEPT ![c][t] = stamp[c]]
        /\ clobbered' = (clobbered \/ tag[t] # None)
        /\ overtaken' = (overtaken \/ Late(c, t))
        /\ UNCHANGED <<pc, faults>>
     \/ /\ Fault
        /\ Goto(c, "unlockFailed")
        /\ UNCHANGED <<tag, seen, clobbered, overtaken>>
  /\ UNCHANGED <<item, lock, world, tries, value, stamp, readAt, calls, incs,
                 published, orphaned, breached>>

TagsRecorded(c) ==
  /\ pc[c] = "setTags"
  /\ \A t \in Tag : seen[c][t] # None
  /\ value' = [value EXCEPT ![c].tags = seen[c]]
  /\ Goto(c, "set")
  /\ UNCHANGED <<server, world, tries, seen, stamp, readAt, calls, faults,
                 marks>>

(* The record is stored; an error of this Set is overwritten.              *)
SetItem(c) ==
  /\ pc[c] = "set"
  /\ \/ item' = value[c] /\ UNCHANGED faults
     \/ Fault /\ UNCHANGED item
  /\ Goto(c, "unlock")
  /\ UNCHANGED <<tag, lock, world, tries, work, calls, marks>>

(* The deferred unlockRebuild deletes the lock, whoever added it, and      *)
(* rebuild returns.                                                        *)
Unlock(c) ==
  /\ pc[c] \in {"unlock", "unlockFailed"}
  /\ \/ lock' = None /\ UNCHANGED <<faults, orphaned>>
     \/ Fault /\ orphaned' = orphaned \cup {c} /\ UNCHANGED lock
  /\ Goto(c, IF pc[c] = "unlock" THEN "returned" ELSE "failed")
  /\ value' = [value EXCEPT ![c] = None]
  /\ seen' = [seen EXCEPT ![c] = NoTags]
  /\ stamp' = [stamp EXCEPT ![c] = 0]
  /\ readAt' = [readAt EXCEPT ![c] = NoIncs]
  /\ UNCHANGED <<item, tag, world, tries, calls, incs, published, clobbered,
                 breached, overtaken>>

-----------------------------------------------------------------------------
(* The surroundings.                                                       *)

ChangeSource ==
  /\ source < MaxSource
  /\ source' = source + 1
  /\ UNCHANGED <<server, now, pc, tries, work, calls, faults, marks>>

(* tc.Increment(t, 1) of whoever changed the source; a missing tag stays   *)
(* missing.                                                                *)
Increment(t) ==
  /\ incs[t] < MaxInc
  /\ incs' = [incs EXCEPT ![t] = @ + 1]
  /\ tag' = [tag EXCEPT ![t] = IF @ = None THEN None ELSE @ + 1]
  /\ published' = source
  /\ UNCHANGED <<item, lock, world, pc, tries, work, calls, faults, clobbered,
                 orphaned, breached, overtaken>>

Second ==
  /\ now < MaxNow
  /\ now' = now + 1
  /\ UNCHANGED <<server, source, pc, tries, work, calls, faults, marks>>

(* The lock's three seconds are over.                                      *)
ExpireLock ==
  /\ lock # None
  /\ lock' = None
  /\ breached' = (breached \/ pc[lock] \in Rebuilding)
  /\ UNCHANGED <<item, tag, world, pc, tries, work, calls, faults, incs, published,
                 clobbered, orphaned, overtaken>>

EvictItem ==
  /\ item # None
  /\ Fault
  /\ item' = None
  /\ UNCHANGED <<tag, lock, world, pc, tries, work, calls, marks>>

EvictTag(t) ==
  /\ tag[t] # None
  /\ Fault
  /\ tag' = [tag EXCEPT ![t] = None]
  /\ clobbered' = TRUE
  /\ UNCHANGED <<item, lock, world, pc, tries, work, calls, incs, published,
                 orphaned, breached, overtaken>>

(* The calling process dies.                                               *)
Crash(c) ==
  /\ pc[c] \notin {"idle", "returned", "failed", "crashed"}
  /\ Fault
  /\ Goto(c, "crashed")
  /\ orphaned' = orphaned \cup {c}
  /\ UNCHANGED <<server, world, tries, work, calls, incs, published, clobbered,
                 breached, overtaken>>

CallStep(c) ==
  \/ CheckLock(c) \/ Get(c) \/ Validate(c) \/ LockRebuild(c) \/ Callback(c)
  \/ GetTags(c) \/ (\E t \in Tag : SetTag(c, t)) \/ TagsRecorded(c)
  \/ SetItem(c) \/ Unlock(c)

Next ==
  \/ \E c \in Caller : Begin(c) \/ CallStep(c) \/ Crash(c)
  \/ \E t \in Tag : Increment(t) \/ EvictTag(t)
  \/ ChangeSource \/ Second \/ ExpireLock \/ EvictItem

Spec == Init /\ [][Next]_vars

(* Requests are answered or fail.  Nothing is asked of memcached's clock:  *)
(* the limit on tries must do.                                             *)
FairSpec == Spec /\ \A c \in Caller : WF_vars(CallStep(c))
-----------------------------------------------------------------------------
(* A call that returns a cached record returns data no older than the last *)
(* increment of a tag, unless a tag's versions were mixed up (evicted and  *)
(* made again, or made by two rebuilders at once) or the source changed    *)
(* under a rebuild before it recorded the tags.  There is no third way to  *)
(* serve stale data, whatever becomes of the lock.                         *)
HitIsFresh ==
  [][\A c \in Caller :
       /\ pc[c] = "validate" /\ pc'[c] = "returned"
       /\ ~clobbered /\ ~overtaken
       => value[c].data >= published]_vars

(* A rebuild that failed half way stores nothing: what is in the cache has *)
(* a version for every tag.                                                *)
StoredIsComplete ==
  item # None => \A t \in Tag : item.tags[t] # None

(* lock_mkey does not outlive the call that added it, unless that call     *)
(* crashed or its Delete failed; and whoever rebuilds holds it, so that    *)
(* nobody else does, until some call goes on without it, having tried in   *)
(* vain, or it times out under a rebuild.                                  *)
LockIsHeld ==
  /\ lock # None => pc[lock] \in Rebuilding \/ lock \in orphaned
  /\ ~breached => \A c \in Caller : pc[c] \in Rebuilding => lock = c

(* Every call of TGet ends, even if the holder of the lock dies.           *)
CallsEnd ==
  \A c \in Caller :
    pc[c] = "checkLock" ~> pc[c] \in {"returned", "failed", "crashed"}

(* The lock keeps all but one call from rebuilding.                        *)
OneRebuilder ==
  \A c, d \in Caller : pc[c] \in Rebuilding /\ pc[d] \in Rebuilding => c = d
=============================================================================
