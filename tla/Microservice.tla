--------------------------- MODULE Microservice ---------------------------
(***************************************************************************)
(* The hw7 microservice around its event bus: StartMyMicroservice, the two *)
(* interceptors, the handlers of Biz and Admin and the goroutine that      *)
(* stops the server (src/hw7_microservice/service.go).                     *)
(*                                                                         *)
(* A gRPC call is a value of Event: it publishes at most one event, so the *)
(* call names it.  The calls of Subscriber are the streaming ones, each of *)
(* which makes one subscriber; those of LoggingCall call Logging, the      *)
(* others Statistics.  The event bus is the module Publisher; the maps of  *)
(* a Statistics call are the module Statistics.                            *)
(***************************************************************************)
EXTENDS Publisher, Acl

CONSTANTS
  LoggingCall,   \* the streaming calls to Admin.Logging
  Leaver,        \* the streaming calls whose client may go away
  Method,        \* Method[c]: info.FullMethod, as a path
  Header,        \* Header[c]: the values of the "consumer" header
  Interval,      \* what si.IntervalSeconds clients ask for make as a
                 \* time.Duration, in seconds
  AclData        \* what a well-formed ACLData decodes to

ASSUME CallAssumption ==
  /\ Subscriber \subseteq Event
  /\ LoggingCall \subseteq Subscriber
  /\ Leaver \subseteq Subscriber
  /\ Interval \subseteq Int

VARIABLES
  main,       \* where StartMyMicroservice is
  serving,    \* the port is bound and server.Serve accepts calls
  ctxDone,    \* the context given to StartMyMicroservice is cancelled
  stopper,    \* where the goroutine waiting for it is
  pc,         \* pc[c]: where the handler goroutine of call c is
  conn,       \* conn[c]: the server still has the stream of call c
  collector   \* collector[c]: the goroutine that feeds c's statStorage

svcVars == <<main, serving, ctxDone, stopper, pc, conn, collector>>
vars == <<busVars, svcVars>>

StatisticsCall == Subscriber \ LoggingCall
UnaryCall == Event \ Subscriber

MainStates == {"load", "publisher", "listen", "serve", "badAcl", "noPort",
               "returned"}
StopperStates == {"none", "waiting", "pubStopped", "done"}
CallStates == {"idle", "called", "rejected", "subscribe", "receive", "send",
               "ticker", "wait", "report", "done"}
CollectorStates == {"none", "running", "counting", "exited"}

SvcTypeOK ==
  /\ TypeOK
  /\ main \in MainStates
  /\ serving \in BOOLEAN
  /\ ctxDone \in BOOLEAN
  /\ stopper \in StopperStates
  /\ pc \in [Event -> CallStates]
  /\ conn \in [Event -> BOOLEAN]
  /\ collector \in [Subscriber -> CollectorStates]

Init ==
  /\ BusInit
  /\ main = "load"
  /\ serving = FALSE
  /\ ctxDone = FALSE
  /\ stopper = "none"
  /\ pc = [c \in Event |-> "idle"]
  /\ conn = [c \in Event |-> TRUE]
  /\ collector = [s \in Subscriber |-> "none"]

-----------------------------------------------------------------------------
(* StartMyMicroservice.                                                    *)

(* loadData: json.Unmarshal takes the access list or returns an error.     *)
LoadData ==
  /\ alive
  /\ main = "load"
  /\ main' \in {"publisher", "badAcl"}
  /\ UNCHANGED <<busVars, serving, ctxDone, stopper, pc, conn, collector>>

MakePublisher ==
  /\ main = "publisher"
  /\ NewPublisher
  /\ main' = "listen"
  /\ UNCHANGED <<serving, ctxDone, stopper, pc, conn, collector>>

(* net.Listen binds the port or fails.                                     *)
Listen ==
  /\ alive
  /\ main = "listen"
  /\ main' \in {"serve", "noPort"}
  /\ UNCHANGED <<busVars, serving, ctxDone, stopper, pc, conn, collector>>

(* The server is made with its interceptors and services, the serving and  *)
(* the stopping goroutine are started, nil is returned.                    *)
StartServer ==
  /\ alive
  /\ main = "serve"
  /\ main' = "returned"
  /\ serving' = TRUE
  /\ stopper' = "waiting"
  /\ UNCHANGED <<busVars, ctxDone, pc, conn, collector>>

(* The caller cancels the context.                                         *)
Finish ==
  /\ alive
  /\ main = "returned"
  /\ ~ctxDone
  /\ ctxDone' = TRUE
  /\ UNCHANGED <<busVars, main, serving, stopper, pc, conn, collector>>

(* Faulty: the goroutine does not wait for the context.                    *)
StopPublisher_NoWait ==
  /\ stopper = "waiting"
  /\ Stop
  /\ stopper' = "pubStopped"
  /\ UNCHANGED <<main, serving, ctxDone, pc, conn, collector>>

StopPublisher ==
  /\ stopper = "waiting"
  /\ ctxDone
  /\ Stop
  /\ stopper' = "pubStopped"
  /\ UNCHANGED <<main, serving, ctxDone, pc, conn, collector>>

(* server.Stop() closes the listener and every connection, which cancels   *)
(* the contexts of the calls; it does not wait for their handlers.         *)
StopServer ==
  /\ alive
  /\ stopper = "pubStopped"
  /\ stopper' = "done"
  /\ serving' = FALSE
  /\ conn' = [c \in Event |-> FALSE]
  /\ UNCHANGED <<busVars, main, ctxDone, pc, collector>>

-----------------------------------------------------------------------------
(* Calls.                                                                  *)

Goto(c, label) == pc' = [pc EXCEPT ![c] = label]

(* A goroutine that has panicked stays where it is.                        *)
GoOn(c, label) == Goto(c, IF alive' THEN label ELSE pc[c])

(* A client's call reaches the server, which starts a goroutine for it.    *)
Call(c) ==
  /\ alive
  /\ serving
  /\ pc[c] = "idle"
  /\ Goto(c, "called")
  /\ UNCHANGED <<busVars, main, serving, ctxDone, stopper, conn, collector>>

(* The client of a streaming call cancels it or its connection breaks.     *)
Disconnect(c) ==
  /\ alive
  /\ c \in Leaver
  /\ pc[c] # "idle"
  /\ conn[c]
  /\ conn' = [conn EXCEPT ![c] = FALSE]
  /\ UNCHANGED <<busVars, main, serving, ctxDone, stopper, pc, collector>>

Verdict(c) == auth(AclData, Header[c], Method[c]).verdict

(* Faulty: the event is offered before the access list is asked.           *)
Intercept_PublishesFirst(c, handler) ==
  /\ alive
  /\ pc[c] = "called"
  /\ PublishMessage(c)
  /\ GoOn(c, IF Verdict(c) = "allow" THEN handler ELSE "rejected")
  /\ UNCHANGED <<main, serving, ctxDone, stopper, conn, collector>>

(* Both interceptors: check the access list, offer the event to the bus    *)
(* without waiting for it, then run the handler.                           *)
Intercept(c, handler) ==
  /\ alive
  /\ pc[c] = "called"
  /\ CASE Verdict(c) = "deny"  -> Goto(c, "rejected") /\ UNCHANGED busVars
       [] Verdict(c) = "panic" -> Panic /\ GoOn(c, handler)
       [] OTHER                -> PublishMessage(c) /\ GoOn(c, handler)
  /\ UNCHANGED <<main, serving, ctxDone, stopper, conn, collector>>

(* The handlers of Biz return at once.                                     *)
authUnaryInterceptor(c) == c \in UnaryCall /\ Intercept(c, "done")

authStreamInterceptor(c) == c \in Subscriber /\ Intercept(c, "subscribe")

(* adm.srv.pubEvent.AddSubscriber() <- sub: the handler waits here until   *)
(* the publisher selects, whatever becomes of its client meanwhile.        *)
SubscribeLogging(c) ==
  /\ c \in LoggingCall
  /\ pc[c] = "subscribe"
  /\ AddSubscriber(c)
  /\ GoOn(c, "receive")
  /\ UNCHANGED <<main, serving, ctxDone, stopper, conn, collector>>

SubscribeStatistics(c) ==
  /\ c \in StatisticsCall
  /\ pc[c] = "subscribe"
  /\ AddSubscriber(c)
  /\ GoOn(c, "ticker")
  /\ collector' = [collector EXCEPT ![c] = IF alive' THEN "running" ELSE @]
  /\ UNCHANGED <<main, serving, ctxDone, stopper, conn>>

(* time.NewTicker panics unless its duration is positive, which it is not  *)
(* for 0 and for some of the numbers too large for a Duration.             *)
NewTicker(c) ==
  /\ alive
  /\ pc[c] = "ticker"
  /\ \E i \in Interval : IF i > 0 THEN UNCHANGED busVars ELSE Panic
  /\ GoOn(c, "wait")
  /\ UNCHANGED <<main, serving, ctxDone, stopper, conn, collector>>

(* ch <- m meets  for ev := range ch.                                      *)
DeliverLogging(c) ==
  /\ c \in LoggingCall
  /\ pc[c] = "receive"
  /\ Notify(c)
  /\ Goto(c, "send")
  /\ UNCHANGED <<main, serving, ctxDone, stopper, conn, collector>>

(* Faulty: the handler returns after the first event.                      *)
SendLogging_Once(c) ==
  /\ alive
  /\ c \in LoggingCall
  /\ pc[c] = "send"
  /\ Goto(c, "done")
  /\ UNCHANGED <<busVars, main, serving, ctxDone, stopper, conn, collector>>

(* outStream.Send returns; on an error the handler returns and nobody      *)
(* receives from ch any more, although its subscriber stays in the list.   *)
SendLogging(c) ==
  /\ alive
  /\ c \in LoggingCall
  /\ pc[c] = "send"
  /\ Goto(c, IF conn[c] THEN "receive" ELSE "done")
  /\ UNCHANGED <<busVars, main, serving, ctxDone, stopper, conn, collector>>

(* ch <- m meets  case ev := <-ch  of the collecting goroutine.            *)
DeliverStatistics(c) ==
  /\ c \in StatisticsCall
  /\ collector[c] = "running"
  /\ Notify(c)
  /\ collector' = [collector EXCEPT ![c] = "counting"]
  /\ UNCHANGED <<main, serving, ctxDone, stopper, pc, conn>>

(* Set writes the maps.  If the handler is in Send, which iterates over    *)
(* the same maps without the lock, the runtime may end the process.        *)
Set(c) ==
  /\ alive
  /\ c \in StatisticsCall
  /\ collector[c] = "counting"
  /\ \/ /\ collector' = [collector EXCEPT ![c] = "running"]
        /\ UNCHANGED busVars
     \/ pc[c] = "report" /\ Panic /\ UNCHANGED collector
  /\ UNCHANGED <<main, serving, ctxDone, stopper, pc, conn>>

(* The collecting goroutine takes  case <-done.  The goroutine that closes *)
(* done when the stream's context ends is not modelled apart: the select   *)
(* may already be late.                                                    *)
ExitCollector(c) ==
  /\ alive
  /\ c \in StatisticsCall
  /\ collector[c] = "running"
  /\ ~conn[c]
  /\ collector' = [collector EXCEPT ![c] = "exited"]
  /\ UNCHANGED <<busVars, main, serving, ctxDone, stopper, pc, conn>>

Tick(c) ==
  /\ alive
  /\ pc[c] = "wait"
  /\ Goto(c, "report")
  /\ UNCHANGED <<busVars, main, serving, ctxDone, stopper, conn, collector>>

(* GetStat and Send, which reads the maps while the call is here; then the *)
(* counters are reset, or Send has failed.                                 *)
SendStatistics(c) ==
  /\ alive
  /\ pc[c] = "report"
  /\ Goto(c, IF conn[c] THEN "wait" ELSE "done")
  /\ UNCHANGED <<busVars, main, serving, ctxDone, stopper, conn, collector>>

(* The reporting loop takes  case <-done.                                  *)
ExitStatistics(c) ==
  /\ alive
  /\ pc[c] = "wait"
  /\ ~conn[c]
  /\ Goto(c, "done")
  /\ UNCHANGED <<busVars, main, serving, ctxDone, stopper, conn, collector>>

-----------------------------------------------------------------------------
MainStep == LoadData \/ MakePublisher \/ Listen \/ StartServer
StopperStep == StopPublisher \/ StopServer
BusStep == PublisherStep /\ UNCHANGED svcVars
Interceptor(c) == authUnaryInterceptor(c) \/ authStreamInterceptor(c)
Subscribe(c) == SubscribeLogging(c) \/ SubscribeStatistics(c)
Deliver(c) == DeliverLogging(c) \/ DeliverStatistics(c)
Send(c) == SendLogging(c) \/ SendStatistics(c)
Exit(c) == ExitCollector(c) \/ ExitStatistics(c)

Next ==
  \/ MainStep
  \/ Finish
  \/ StopperStep
  \/ BusStep
  \/ \E c \in Event : Call(c) \/ Interceptor(c)
  \/ \E c \in Subscriber :
       \/ Disconnect(c)
       \/ Subscribe(c)
       \/ NewTicker(c)
       \/ Deliver(c)
       \/ Set(c)
       \/ Send(c)
       \/ Tick(c)
       \/ Exit(c)

Spec == Init /\ [][Next]_vars

(* Every goroutine that can run runs.  Nothing makes the caller finish,    *)
(* clients call or leave, or a ticker fire.                                *)
Fairness ==
  /\ WF_vars(MainStep)
  /\ WF_vars(StopperStep)
  /\ WF_vars(BusStep)
  /\ \A c \in Event : WF_vars(Interceptor(c))
  /\ \A c \in Subscriber :
       /\ WF_vars(Subscribe(c))
       /\ WF_vars(NewTicker(c))
       /\ WF_vars(Deliver(c))
       /\ WF_vars(Set(c))
       /\ WF_vars(Send(c))
       /\ WF_vars(ExitCollector(c))
       /\ WF_vars(ExitStatistics(c))

FairSpec == Spec /\ Fairness
-----------------------------------------------------------------------------
(* Some entry of the caller's list names the method, or its whole service. *)
Granted(c) ==
  /\ Header[c] # <<>>
  /\ JoinedConsumer(Header[c]) \in DOMAIN AclData
  /\ \E i \in DOMAIN AclData[JoinedConsumer(Header[c])] :
       LET entry == AclData[JoinedConsumer(Header[c])][i]
       IN  ~Malformed(entry) /\ Grants(entry, Method[c])

(* A call the access list does not grant leaves no trace: it is neither    *)
(* offered to the bus nor counted as lost, and its handler never runs.     *)
OnlyAuthorised ==
  \A c \in Event :
    (c \in Offered \/ pc[c] \notin {"idle", "called", "rejected"}) => Granted(c)

(* A logger is not shown the event of its own call, and one that comes     *)
(* later shows up in the earlier one's stream only: TestLogging expects    *)
(* this of Logging, where publishing comes before subscribing.             *)
OwnEventInvisible == \A c \in Subscriber : c \notin ToSet(got[c])

(* Where the goroutines of call c can panic: an access list that is        *)
(* malformed; a channel of the bus that was closed behind the context's    *)
(* end; a ticker; the maps that Send reads and Set writes.                 *)
CanPanic(c) ==
  \/ pc[c] = "called" /\ Verdict(c) = "panic"
  \/ ctxDone /\ ~open /\ pc[c] = "called" /\ Verdict(c) = "allow"
  \/ ctxDone /\ ~open /\ pc[c] = "subscribe"
  \/ pc[c] = "ticker" /\ \E i \in Interval : i <= 0
  \/ pc[c] = "report" /\ collector[c] = "counting"

(* The process dies only while a call is in one of four places: a call to  *)
(* Biz with a well-formed list cannot end it before it is told to stop,    *)
(* however calls, events and the stop come together.                       *)
CrashHasCause == ~alive => \E c \in Event : CanPanic(c)

(* The receiver of the Notify in progress has left for good.               *)
ReceiverGone(c) ==
  IF c \in LoggingCall THEN pc[c] = "done" ELSE collector[c] = "exited"

(* The goroutine that takes what c is notified of receives, or will.       *)
Receiving(c) ==
  IF c \in LoggingCall THEN pc[c] \in {"receive", "send"}
  ELSE collector[c] \in {"running", "counting"}

(* The bus waits for nobody but handlers that are there and clients that   *)
(* have left: as long as its own clients stay, no subscriber holds it up.  *)
OnlyTheGoneBlock ==
  alive /\ pub = "notify" /\ pos <= Len(subscribers) =>
    Receiving(subscribers[pos]) \/ ~conn[subscribers[pos]]

Stuck ==
  /\ alive
  /\ pub = "notify"
  /\ pos <= Len(subscribers)
  /\ ReceiverGone(subscribers[pos])

(* Once the publisher notifies a handler that has returned it is lost: it  *)
(* accepts no event and no subscriber and does not see Stop, and its       *)
(* channels stay open, until the process ends.                             *)
StuckForever ==
  [][Stuck => /\ Stuck' \/ ~alive'
              /\ log' = log /\ from' = from /\ open']_vars

(* A call to Biz completes whatever state the bus is in: the send to the   *)
(* bus does not wait.                                                      *)
BizNeverBlocks ==
  \A c \in UnaryCall :
    pc[c] = "called" ~> (pc[c] \in {"done", "rejected"} \/ ~alive)

SomeoneLeft == \E c \in Event : ~conn[c]

Behind(s) == from[s] # Never /\ from[s] + Len(got[s]) < Len(log)

(* While no client goes away every subscriber is given every event the bus *)
(* accepts.                                                                *)
SubscribersCatchUp ==
  \A s \in Subscriber : Behind(s) ~> (~Behind(s) \/ SomeoneLeft \/ ~alive)

(* No goroutine of the service is left.                                    *)
AllGone ==
  /\ pub = "exited"
  /\ \A c \in Event : pc[c] \in {"idle", "rejected", "done"}
  /\ \A s \in Subscriber : collector[s] \in {"none", "exited"}

(* A service that had only calls to Biz, as in TestServerStartStop, leaves *)
(* no goroutine behind.                                                    *)
UnaryServiceStops ==
  (stopper = "done" /\ \A s \in Subscriber : pc[s] \in {"idle", "rejected"})
    ~> (AllGone \/ ~alive)

(* After the stopping goroutine is through, every goroutine of the service *)
(* ends.                                                                   *)
NoLeak == stopper = "done" ~> (AllGone \/ ~alive)
=============================================================================
