----------------------------- MODULE Publisher -----------------------------
(***************************************************************************)
(* The event bus of the hw7 microservice: the goroutine publisher.start    *)
(* and the four channels other goroutines use to reach it, all unbuffered  *)
(* (src/hw7_microservice/service.go, from "type Subscriber" to the end of  *)
(* the hand-written part).                                                 *)
(*                                                                         *)
(* The environment is the most general one: any event may be offered,      *)
(* any subscriber added or removed, a subscriber's fn may take the event   *)
(* whenever the publisher is calling it, and any other goroutine of the    *)
(* process may panic.  Microservice puts the gRPC handlers in its place.   *)
(*                                                                         *)
(* A panic in any goroutine ends the process: alive becomes FALSE and      *)
(* nothing happens afterwards.                                             *)
(***************************************************************************)
EXTENDS Integers, Sequences, SequencesExt

CONSTANTS Event,       \* the events that may be offered, each at most once
          Subscriber,  \* the values NewSubscriber may return
          NoEvent      \* "no event is being notified"

ASSUME NoEventAssumption == NoEvent \notin Event

VARIABLES
  alive,        \* the process has not panicked
  pub,          \* where the goroutine start() is, see PubStates
  subscribers,  \* p.subscribers
  cur,          \* the msg being notified, or NoEvent
  pos,          \* index in p.subscribers of the Notify in progress
  stop,         \* p.stop is closed
  open,         \* p.addSubCh, p.in and p.removeSubCh are open
  closedIn,     \* the subscribers whose own channel Close() has closed
  dropped,      \* events the non-blocking send gave up on (history)
  log,          \* events the publisher received, in order (history)
  from, got     \* per subscriber, as in EventFeed (history)

busVars == <<alive, pub, subscribers, cur, pos, stop, open, closedIn,
             dropped, log, from, got>>

(* "none": not started; "top": between two rounds of the loop; "parked":   *)
(* waiting in the select; "notify": calling Notify; "closing": in the stop *)
(* branch; "exited": returned.                                             *)
PubStates == {"none", "top", "parked", "notify", "closing", "exited"}

Never == -1

Offered == ToSet(log) \cup dropped

TypeOK ==
  /\ alive \in BOOLEAN
  /\ pub \in PubStates
  /\ subscribers \in Seq(Subscriber)
  /\ cur \in Event \cup {NoEvent}
  /\ pos \in Nat
  /\ stop \in BOOLEAN
  /\ open \in BOOLEAN
  /\ closedIn \in SUBSET Subscriber
  /\ dropped \in SUBSET Event
  /\ log \in Seq(Event)
  /\ from \in [Subscriber -> Nat \cup {Never}]
  /\ got \in [Subscriber -> Seq(Event)]

BusInit ==
  /\ alive = TRUE
  /\ pub = "none"
  /\ subscribers = <<>>
  /\ cur = NoEvent
  /\ pos = 0
  /\ stop = FALSE
  /\ open = TRUE
  /\ closedIn = {}
  /\ dropped = {}
  /\ log = <<>>
  /\ from = [s \in Subscriber |-> Never]
  /\ got = [s \in Subscriber |-> <<>>]

(* A send on a closed channel, or a panic in any other goroutine: the      *)
(* process dies.                                                           *)
Panic ==
  /\ alive' = FALSE
  /\ UNCHANGED <<pub, subscribers, cur, pos, stop, open, closedIn, dropped,
                 log, from, got>>

(* NewPublisher: the channels are made and the goroutine is started.       *)
NewPublisher ==
  /\ alive
  /\ pub = "none"
  /\ pub' = "top"
  /\ UNCHANGED <<alive, subscribers, cur, pos, stop, open, closedIn, dropped,
                 log, from, got>>

(* The goroutine reaches its select and no case is ready.                  *)
Park ==
  /\ alive
  /\ pub = "top"
  /\ ~stop
  /\ pub' = "parked"
  /\ UNCHANGED <<alive, subscribers, cur, pos, stop, open, closedIn, dropped,
                 log, from, got>>

(* The send half of  select { case evCh <- ev: default: }.  The send       *)
(* happens only when the publisher is parked in its select; otherwise the  *)
(* default is taken and the event is gone; on a closed channel it panics.  *)
AcceptEvent(e) ==
  /\ open
  /\ pub = "parked"
  /\ pub' = "notify"
  /\ cur' = e
  /\ pos' = 1
  /\ log' = Append(log, e)
  /\ UNCHANGED <<alive, subscribers, stop, open, closedIn, dropped, from, got>>

DropEvent(e) ==
  /\ open
  /\ pub # "parked"
  /\ dropped' = dropped \cup {e}
  /\ UNCHANGED <<alive, pub, subscribers, cur, pos, stop, open, closedIn, log,
                 from, got>>

(* Faulty: a blocking send.                                                *)
PublishMessage_Blocks(e) ==
  /\ alive
  /\ pub # "none"
  /\ e \notin Offered
  /\ AcceptEvent(e) \/ (~open /\ Panic)

PublishMessage(e) ==
  /\ alive
  /\ pub # "none"
  /\ e \notin Offered
  /\ \/ AcceptEvent(e)
     \/ DropEvent(e)
     \/ ~open /\ Panic

(* Faulty: a slow subscriber may be given the event once more.             *)
Notify_Retries(s) ==
  /\ alive
  /\ pub = "notify"
  /\ pos <= Len(subscribers)
  /\ s = subscribers[pos]
  /\ got' = [got EXCEPT ![s] = Append(@, cur)]
  /\ pos' \in {pos, pos + 1}
  /\ UNCHANGED <<alive, pub, subscribers, cur, stop, open, closedIn, dropped,
                 log, from>>

(* Faulty: the loop index moves by two.                                    *)
Notify_Skips(s) ==
  /\ alive
  /\ pub = "notify"
  /\ pos <= Len(subscribers)
  /\ s = subscribers[pos]
  /\ got' = [got EXCEPT ![s] = Append(@, cur)]
  /\ pos' = pos + 2
  /\ UNCHANGED <<alive, pub, subscribers, cur, stop, open, closedIn, dropped,
                 log, from>>

(* The Notify in progress returns: fn has put cur on its own channel and   *)
(* subscriber s has taken it.  Until then the publisher is blocked here.   *)
Notify(s) ==
  /\ alive
  /\ pub = "notify"
  /\ pos <= Len(subscribers)
  /\ s = subscribers[pos]
  /\ got' = [got EXCEPT ![s] = Append(@, cur)]
  /\ pos' = pos + 1
  /\ UNCHANGED <<alive, pub, subscribers, cur, stop, open, closedIn, dropped,
                 log, from>>

(* Faulty: Notify does not wait for its subscriber.                        *)
EndNotify_GivesUp ==
  /\ alive
  /\ pub = "notify"
  /\ pub' = "top"
  /\ cur' = NoEvent
  /\ pos' = 0
  /\ UNCHANGED <<alive, subscribers, stop, open, closedIn, dropped, log, from,
                 got>>

(* The loop over p.subscribers is over.                                    *)
EndNotify ==
  /\ alive
  /\ pub = "notify"
  /\ pos > Len(subscribers)
  /\ pub' = "top"
  /\ cur' = NoEvent
  /\ pos' = 0
  /\ UNCHANGED <<alive, subscribers, stop, open, closedIn, dropped, log, from,
                 got>>

(* The select receives from addSubCh or removeSubCh, parked or not: the    *)
(* sender blocks until it does.                                            *)
Selecting == open /\ pub \in {"top", "parked"}

(* Faulty: a new subscriber is given the last event once more.             *)
AddSubscriber_Replays(s) ==
  /\ alive
  /\ from[s] = Never
  /\ Selecting
  /\ subscribers' = Append(subscribers, s)
  /\ from' = [from EXCEPT ![s] = Len(log)]
  /\ got' = [got EXCEPT ![s] = IF log = <<>> THEN <<>> ELSE <<log[Len(log)]>>]
  /\ pub' = "top"
  /\ UNCHANGED <<alive, cur, pos, stop, open, closedIn, dropped, log>>

AddSubscriber(s) ==
  /\ alive
  /\ from[s] = Never
  /\ \/ /\ Selecting
        /\ subscribers' = Append(subscribers, s)
        /\ from' = [from EXCEPT ![s] = Len(log)]
        /\ pub' = "top"
        /\ UNCHANGED <<alive, cur, pos, stop, open, closedIn, dropped, log,
                       got>>
     \/ ~open /\ Panic

(* Faulty: the subscriber is closed and stays in the list.                 *)
RemoveSubscriber_Keeps(s) ==
  /\ alive
  /\ pub # "none"
  /\ Selecting
  /\ closedIn' = closedIn \cup ({s} \cap ToSet(subscribers))
  /\ pub' = "top"
  /\ UNCHANGED <<alive, subscribers, cur, pos, stop, open, dropped, log, from,
                 got>>

(* The first subscriber equal to s is taken out of the list and closed; an *)
(* unknown one changes nothing.                                            *)
RemoveSubscriber(s) ==
  /\ alive
  /\ pub # "none"
  /\ \/ /\ Selecting
        /\ subscribers' = RemoveFirst(subscribers, s)
        /\ closedIn' = IF s \in ToSet(subscribers)
                         THEN closedIn \cup {s} ELSE closedIn
        /\ pub' = "top"
        /\ UNCHANGED <<alive, cur, pos, stop, open, dropped, log, from, got>>
     \/ ~open /\ Panic

(* Stop: close(p.stop).  It takes a parked publisher out of its select at  *)
(* once, so no event can be handed over any more.                          *)
Stop ==
  /\ alive
  /\ pub # "none"
  /\ ~stop
  /\ stop' = TRUE
  /\ pub' = IF pub = "parked" THEN "closing" ELSE pub
  /\ UNCHANGED <<alive, subscribers, cur, pos, open, closedIn, dropped, log,
                 from, got>>

(* Faulty: stop is only noticed by a parked publisher.                     *)
SelectStop_OnlyParked ==
  /\ alive
  /\ pub = "parked"
  /\ stop
  /\ pub' = "closing"
  /\ UNCHANGED <<alive, subscribers, cur, pos, stop, open, closedIn, dropped,
                 log, from, got>>

(* The select of a publisher that was not parked picks the stop branch.    *)
SelectStop ==
  /\ alive
  /\ pub = "top"
  /\ stop
  /\ pub' = "closing"
  /\ UNCHANGED <<alive, subscribers, cur, pos, stop, open, closedIn, dropped,
                 log, from, got>>

(* Faulty: the stop branch lacks its return.                               *)
CloseAll_NoReturn ==
  /\ alive
  /\ pub = "closing"
  /\ pub' = "top"
  /\ open' = FALSE
  /\ closedIn' = closedIn \cup ToSet(subscribers)
  /\ UNCHANGED <<alive, subscribers, cur, pos, stop, dropped, log, from, got>>

(* The stop branch: every subscriber still in the list is closed, then the *)
(* three channels, and the goroutine returns.                              *)
CloseAll ==
  /\ alive
  /\ pub = "closing"
  /\ pub' = "exited"
  /\ open' = FALSE
  /\ closedIn' = closedIn \cup ToSet(subscribers)
  /\ UNCHANGED <<alive, subscribers, cur, pos, stop, dropped, log, from, got>>

PublisherStep == Park \/ EndNotify \/ SelectStop \/ CloseAll

BusNext ==
  \/ alive /\ Panic
  \/ NewPublisher
  \/ PublisherStep
  \/ Stop
  \/ \E e \in Event : PublishMessage(e)
  \/ \E s \in Subscriber : Notify(s) \/ AddSubscriber(s) \/ RemoveSubscriber(s)

BusSpec == BusInit /\ [][BusNext]_busVars

(* Every receiver keeps receiving and the goroutine is scheduled.          *)
BusFairness ==
  /\ WF_busVars(PublisherStep)
  /\ \A s \in Subscriber : WF_busVars(Notify(s))

BusFairSpec == BusSpec /\ BusFairness
-----------------------------------------------------------------------------
(* The events subscriber s has been given are the log from the moment it   *)
(* joined, none missing, none twice, none out of order.                    *)
SegmentOfLog(s) ==
  /\ from[s] + Len(got[s]) <= Len(log)
  /\ \A i \in 1..Len(got[s]) : got[s][i] = log[from[s] + i]

(* The Notify loop never skips a subscriber or calls one twice: whatever   *)
(* is added or removed between events, what a subscriber was given is the  *)
(* part of the log that starts where it joined, in the log's order.        *)
GaplessFeed == \A s \in Subscriber : from[s] # Never => SegmentOfLog(s)

(* Outside a round of Notify every subscriber in the list has all events   *)
(* accepted since it joined: a slow subscriber holds the bus back, it does *)
(* not fall behind.                                                        *)
NobodyLags ==
  pub # "notify" =>
    \A s \in ToSet(subscribers) : from[s] + Len(got[s]) = Len(log)

(* Close(s) is called at most once per subscriber (a second close of s.in  *)
(* would panic): a closed one is out of the list until the list itself is  *)
(* given up by the stop branch.                                            *)
ClosedOnce ==
  /\ \A i, j \in DOMAIN subscribers : i # j => subscribers[i] # subscribers[j]
  /\ pub # "exited" => closedIn \cap ToSet(subscribers) = {}

(* The bus does what EventFeed promises.                                   *)
Feed == INSTANCE EventFeed
FeedRefined == Feed!FeedSpec

(* As long as every subscriber keeps receiving, Stop ends the goroutine,   *)
(* whatever round of Notify it interrupts.                                 *)
StopEndsPublisher == stop ~> (pub = "exited" \/ ~alive)
=============================================================================
