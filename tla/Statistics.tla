----------------------------- MODULE Statistics -----------------------------
(***************************************************************************)
(* One call of admin.Statistics and its statStorage                        *)
(* (src/hw7_microservice/service.go): the goroutine that collects events   *)
(* with Set, and the handler that at every tick takes GetStat, sends it    *)
(* and calls Reset.                                                        *)
(*                                                                         *)
(* GetStat copies the struct, not the maps, so Send reads the maps the     *)
(* collector is writing, without the lock: proto.Marshal visits by_method  *)
(* and then by_consumer key by key, each key in a step of its own here,    *)
(* and the Go runtime may stop the process when it notices a Set in        *)
(* between.  A key absent from a map is a counter at 0: Set never leaves   *)
(* a 0 behind.  The timestamp is left out.                                 *)
(***************************************************************************)
EXTENDS Naturals, FiniteSets, FiniteSetsExt

CONSTANTS
  MethodName,    \* the methods events name
  Consumer,      \* the consumers events name
  Interval,      \* the values of StatInterval.IntervalSeconds a client asks for
  MaxEvents      \* bound: events the bus delivers to this call

ASSUME StatisticsAssumption ==
  /\ IsFiniteSet(MethodName) /\ IsFiniteSet(Consumer)
  /\ MethodName \cap Consumer = {}
  /\ Interval \subseteq Nat
  /\ MaxEvents \in Nat

VARIABLES
  alive,       \* the process has not panicked
  conn,        \* the stream's context is not done
  interval,    \* si.IntervalSeconds
  pc,          \* the handler
  collector,   \* the collecting goroutine
  count,       \* the maps of the statStorage: by_method and by_consumer
  unread,      \* the keys proto.Marshal has not visited yet
  message,     \* the counters it has copied into the message
  events,      \* events delivered so far, per key (history)
  missed,      \* events whose counter had been read when they came, per key
               \* (history)
  reported     \* sum of the messages the client was sent, per key (history)

vars == <<alive, conn, interval, pc, collector, count, unread, message, events,
          missed, reported>>

Key == MethodName \cup Consumer
Zero == [k \in Key |-> 0]

HandlerStates == {"start", "wait", "methods", "consumers", "transport", "done"}

TypeOK ==
  /\ alive \in BOOLEAN
  /\ conn \in BOOLEAN
  /\ interval \in Interval
  /\ pc \in HandlerStates
  /\ collector \in {"running", "exited"}
  /\ count \in [Key -> Nat]
  /\ unread \in SUBSET Key
  /\ message \in [Key -> Nat]
  /\ events \in [Key -> Nat]
  /\ missed \in [Key -> Nat]
  /\ reported \in [Key -> Nat]

(* The call has subscribed and started its collector; the ticker is next.  *)
Init ==
  /\ alive = TRUE
  /\ conn = TRUE
  /\ interval \in Interval
  /\ pc = "start"
  /\ collector = "running"
  /\ count = Zero
  /\ unread = {}
  /\ message = Zero
  /\ events = Zero
  /\ missed = Zero
  /\ reported = Zero

Delivered == MapThenSumSet(LAMBDA m : events[m], MethodName)

(* st.ByMethod[ev.Method]++ and st.ByConsumer[ev.Consumer]++.              *)
Count(counters, m, c) == [counters EXCEPT ![m] = @ + 1, ![c] = @ + 1]

Marshalling == pc \in {"methods", "consumers"}

(* The counter of k is in the message that is on its way.                  *)
Read(k) == pc \in {"methods", "consumers", "transport"} /\ k \notin unread

(* The collector takes an event and calls Set.  Against a Marshal that is  *)
(* iterating over the same maps it either goes through or is fatal.        *)
Set(m, c) ==
  /\ alive
  /\ collector = "running"
  /\ Delivered < MaxEvents
  /\ events' = Count(events, m, c)
  /\ missed' = [k \in Key |-> IF k \in {m, c} /\ Read(k) THEN missed[k] + 1
                                                        ELSE missed[k]]
  /\ count' = Count(count, m, c)
  /\ alive' \in IF Marshalling THEN BOOLEAN ELSE {TRUE}
  /\ UNCHANGED <<conn, interval, pc, collector, unread, message, reported>>

(* The client goes away or the server is stopped.                          *)
Disconnect ==
  /\ alive
  /\ conn
  /\ conn' = FALSE
  /\ UNCHANGED <<alive, interval, pc, collector, count, unread, message,
                 events, missed, reported>>

(* Faulty: the collector ranges over ch, which nobody closes.              *)
ExitCollector_RangesOverCh == FALSE

ExitCollector ==
  /\ alive
  /\ collector = "running"
  /\ ~conn
  /\ collector' = "exited"
  /\ UNCHANGED <<alive, conn, interval, pc, count, unread, message, events,
                 missed, reported>>

(* time.NewTicker panics unless its duration is positive.                  *)
NewTicker ==
  /\ alive
  /\ pc = "start"
  /\ IF interval = 0
       THEN alive' = FALSE /\ UNCHANGED pc
       ELSE pc' = "wait" /\ UNCHANGED alive
  /\ UNCHANGED <<conn, interval, collector, count, unread, message, events,
                 missed, reported>>

(* case <-t.C: GetStat, and Send starts to marshal what it returned.       *)
Tick ==
  /\ alive
  /\ pc = "wait"
  /\ pc' = "methods"
  /\ unread' = Key
  /\ message' = Zero
  /\ UNCHANGED <<alive, conn, interval, collector, count, events,
                 missed, reported>>

(* Faulty: by_consumer may be visited before by_method.                    *)
Marshal_AnyOrder(k) ==
  /\ alive
  /\ k \in unread
  /\ Marshalling
  /\ message' = [message EXCEPT ![k] = count[k]]
  /\ unread' = unread \ {k}
  /\ UNCHANGED <<alive, conn, interval, pc, collector, count, events,
                 missed, reported>>

(* Marshal copies one counter; by_method comes before by_consumer.         *)
Marshal(k) ==
  /\ alive
  /\ k \in unread
  /\ \/ pc = "methods" /\ k \in MethodName
     \/ pc = "consumers" /\ k \in Consumer
  /\ message' = [message EXCEPT ![k] = count[k]]
  /\ unread' = unread \ {k}
  /\ UNCHANGED <<alive, conn, interval, pc, collector, count, events,
                 missed, reported>>

EndOfMap ==
  /\ alive
  /\ \/ pc = "methods" /\ unread \cap MethodName = {} /\ pc' = "consumers"
     \/ pc = "consumers" /\ unread = {} /\ pc' = "transport"
  /\ UNCHANGED <<alive, conn, interval, collector, count, unread, message,
                 events, missed, reported>>

(* Faulty: the counters are not reset.                                     *)
SendAndReset_NoReset ==
  /\ alive
  /\ pc = "transport"
  /\ conn
  /\ pc' = "wait"
  /\ reported' = [k \in Key |-> reported[k] + message[k]]
  /\ message' = Zero
  /\ UNCHANGED <<alive, conn, interval, collector, count, unread, events,
                 missed>>

(* Send returns nil and Reset replaces the maps.                           *)
SendAndReset ==
  /\ alive
  /\ pc = "transport"
  /\ conn
  /\ pc' = "wait"
  /\ reported' = [k \in Key |-> reported[k] + message[k]]
  /\ count' = Zero
  /\ message' = Zero
  /\ UNCHANGED <<alive, conn, interval, collector, unread, events, missed>>

SendFails ==
  /\ alive
  /\ pc = "transport"
  /\ ~conn
  /\ pc' = "done"
  /\ UNCHANGED <<alive, conn, interval, collector, count, unread, message,
                 events, missed, reported>>

(* The handler takes  case <-done.                                         *)
Return ==
  /\ alive
  /\ pc = "wait"
  /\ ~conn
  /\ pc' = "done"
  /\ UNCHANGED <<alive, conn, interval, collector, count, unread, message,
                 events, missed, reported>>

Send == (\E k \in Key : Marshal(k)) \/ EndOfMap \/ SendAndReset \/ SendFails

Next ==
  \/ \E m \in MethodName, c \in Consumer : Set(m, c)
  \/ Disconnect
  \/ ExitCollector
  \/ NewTicker
  \/ Tick
  \/ Send
  \/ Return

Spec == Init /\ [][Next]_vars

(* Both goroutines are scheduled; ticks and clients owe nothing.           *)
FairSpec ==
  /\ Spec
  /\ WF_vars(ExitCollector)
  /\ WF_vars(NewTicker)
  /\ WF_vars(Send)
  /\ WF_vars(Return)
-----------------------------------------------------------------------------
(* Every event delivered is in one message, or still in the maps, or came  *)
(* while a report was under way and after its counter had been read: those *)
(* Reset throws away, and only those.                                      *)
Accounting ==
  pc = "wait" =>
    \A k \in Key : reported[k] + count[k] + missed[k] = events[k]

(* What the counters of a map amount to, each being as many units.         *)
Units(counters, keys) == UNION {{k} \X (1..counters[k]) : k \in keys}
Total(counters, keys) == Cardinality(Units(counters, keys))

(* A message can be torn, but only one way: an event that is counted by    *)
(* method is counted by consumer as well, since that map is read later.    *)

TornOneWay ==
  pc = "transport" => Total(message, MethodName) <= Total(message, Consumer)

(* Once the client is gone both goroutines end: unlike Logging, Statistics *)
(* watches its stream's context.                                           *)
ClientGoneEndsBoth ==
  ~conn ~> ((pc = "done" /\ collector = "exited") \/ ~alive)
=============================================================================
