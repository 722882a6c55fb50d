----------------------------- MODULE EventFeed -----------------------------
(***************************************************************************)
(* What the event bus of the hw7 microservice promises its subscribers,    *)
(* with no goroutines and no channels: one log of events, and for every    *)
(* subscriber a reader that starts at the end of the log and moves over it *)
(* one event at a time, missing none and repeating none.                   *)
(***************************************************************************)
EXTENDS Integers, Sequences

CONSTANTS Event, Subscriber

VARIABLES log,    \* the events the bus accepted, oldest first
          from,   \* from[s]: length of the log when s joined, or Never
          got     \* got[s]: the events s was given, oldest first

feedVars == <<log, from, got>>

Never == -1

FeedInit ==
  /\ log = <<>>
  /\ from = [s \in Subscriber |-> Never]
  /\ got = [s \in Subscriber |-> <<>>]

Accept(e) ==
  /\ log' = Append(log, e)
  /\ UNCHANGED <<from, got>>

Join(s) ==
  /\ from[s] = Never
  /\ from' = [from EXCEPT ![s] = Len(log)]
  /\ UNCHANGED <<log, got>>

Cursor(s) == from[s] + Len(got[s])

Read(s) ==
  /\ from[s] # Never
  /\ Cursor(s) < Len(log)
  /\ got' = [got EXCEPT ![s] = Append(got[s], log[Cursor(s) + 1])]
  /\ UNCHANGED <<log, from>>

FeedNext ==
  \/ \E e \in Event : Accept(e)
  \/ \E s \in Subscriber : Join(s) \/ Read(s)

FeedSpec == FeedInit /\ [][FeedNext]_feedVars
=============================================================================
