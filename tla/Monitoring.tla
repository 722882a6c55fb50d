----------------------------- MODULE Monitoring -----------------------------
(***************************************************************************)
(* What surrounds a handler in src/middleware and src/monitoring, and what *)
(* it writes down of each request.  `monitor' is the program that runs:    *)
(*                                                                         *)
(*   site         middleware.go: panics, the access log, the admin's pages *)
(*   timings      context_value.go: the times of a request's works         *)
(*   metrics      metrics: the same, sent to statsd                        *)
(*   prometheus   prometus/metrics.go: a counter that /metrics shows       *)
(*   expvars      expvars.go: hits, which /debug/vars shows and forgets    *)
(*                                                                         *)
(* Requests run concurrently, each in steps: it comes in, its handler does *)
(* its work, what surrounds it ends.  A scrape is such a request.          *)
(***************************************************************************)
EXTENDS Naturals, Sequences, FiniteSets

CONSTANTS
  Monitor,      \* the programs to run
  Hit,          \* requests
  Sleeps        \* how long a work, or what is between the works, may take

ASSUME RequestsAreFinite == IsFiniteSet(Hit)
ASSUME SleepsAreTimes == Sleeps \subseteq Nat

VARIABLES
  monitor,
  stage,        \* of a request: "none", "in", "printed", "out" or "done"
  asked,        \* what it asks: a path and whether there is a cookie
  served,       \* what its handler did
  lines,        \* access log, timings or statsd: the request and the times
  counter,      \* prometheus: requests counted
  hits,         \* expvars: hits since they were forgotten
  scraped,      \* prometheus: what each scrape has shown
  shownHits,    \* expvars: hits that scrapes have shown, in all (history)
  missed,       \* hits between the two steps of a scrape (history)
  overlap       \* two scrapes were at it at once (history)

monitorVars == <<monitor, stage, asked, served, lines, counter, hits, scraped,
                 shownHits, missed, overlap>>

NoWork == [path |-> "none", cookie |-> FALSE]

MonitorInit ==
  /\ monitor \in Monitor
  /\ stage = [h \in Hit |-> "none"]
  /\ asked = [h \in Hit |-> NoWork]
  /\ served = [h \in Hit |-> <<>>]
  /\ lines = {} /\ counter = 0 /\ hits = 0
  /\ scraped = [h \in Hit |-> 0]
  /\ shownHits = 0 /\ missed = 0 /\ overlap = FALSE

Scrape(h) ==
  \/ monitor = "prometheus" /\ asked[h].path = "/metrics"
  \/ monitor = "expvars" /\ asked[h].path = "/debug/vars"

-----------------------------------------------------------------------------
(* middleware.go: the pages, behind the two routers.                       *)

mainPage(cookie) == IF cookie THEN <<"welcome">> ELSE <<"you need to login">>
loginPage == <<"cookie", "redirect /">>
logoutPage(cookie) == IF cookie THEN <<"no cookie", "redirect /">> ELSE <<"redirect /">>

adminMux(path) == IF path = "/admin/panic" THEN <<"panic">> ELSE <<"admin">>
adminAuthMiddleware(q) == IF q.cookie THEN adminMux(q.path) ELSE <<"redirect /">>

siteMux(q) ==
  CASE q.path \in {"/admin/", "/admin/panic"} -> adminAuthMiddleware(q)
    [] q.path = "/login" -> loginPage
    [] q.path = "/logout" -> logoutPage(q.cookie)
    [] OTHER -> mainPage(q.cookie)

(* panicMiddleware around accessLogMiddleware.                             *)
Recovered(what) == IF what = <<"panic">> THEN <<"500">> ELSE what

-----------------------------------------------------------------------------
(* The handler of the timings works for so long, and sleeps in between.    *)
Works == <<"checkCache", "loadPosts", "loadPosts", "loadPosts", "loadSidebar",
           "loadComments">>
Pause == 10

(* trackContextTimings, deferred by each emulateWork.                      *)
trackContextTimings(data, name, elapsed) ==
  [w \in DOMAIN data \cup {name} |->
     IF w # name THEN data[w]
     ELSE IF name \notin DOMAIN data THEN [count |-> 1, duration |-> elapsed]
     ELSE [count |-> data[w].count + 1, duration |-> data[w].duration + elapsed]]

loadPostsHandle(sleeps) ==
  LET emulateWork(data, i) == trackContextTimings(data, Works[i], sleeps[i])
      cached  == emulateWork(<<>>, 1)
      loaded  == emulateWork(emulateWork(emulateWork(cached, 2), 3), 4)
      sidebar == emulateWork(loaded, 5)
  IN  emulateWork(sidebar, 6)

(* The loop over the context's timings.                                    *)
Sum(data) ==
  data["checkCache"].duration + data["loadPosts"].duration
    + data["loadSidebar"].duration + data["loadComments"].duration

(* Both clocks run while a work is done; own is what the code takes        *)
(* between the works and around the handler.                               *)
RealTime(sleeps, own) ==
  Pause + own
    + sleeps[1] + sleeps[2] + sleeps[3] + sleeps[4] + sleeps[5] + sleeps[6]

(* logContextTimings prints the two times; that of metrics sends them to   *)
(* statsd, each under the name of the other.                               *)
logContextTimings(sleeps, own) ==
  [total |-> RealTime(sleeps, own), tracked |-> Sum(loadPostsHandle(sleeps))]
SendTimings(sleeps, own) ==
  [total |-> Sum(loadPostsHandle(sleeps)), tracked |-> RealTime(sleeps, own)]

-----------------------------------------------------------------------------
Go(h, where) == stage' = [stage EXCEPT ![h] = where]

Pages ==
  CASE monitor = "site" -> {"/", "/login", "/logout", "/admin/", "/admin/panic"}
    [] monitor = "prometheus" -> {"/", "/metrics"}
    [] monitor = "expvars" -> {"/", "/debug/vars"}
    [] OTHER -> {"/"}

ComesIn(h) ==
  /\ stage[h] = "none"
  /\ \E p \in Pages, c \in (IF monitor = "site" THEN BOOLEAN ELSE {FALSE}) :
       asked' = [asked EXCEPT ![h] = [path |-> p, cookie |-> c]]
  /\ Go(h, "in")
  /\ UNCHANGED <<monitor, served, lines, counter, hits, scraped, shownHits,
                 missed, overlap>>

Serves(h) ==
  /\ stage[h] = "in" /\ ~Scrape(h)
  /\ served' = [served EXCEPT ![h] =
                  IF monitor = "site" THEN siteMux(asked[h]) ELSE <<"done">>]
  /\ hits' = IF monitor = "expvars" THEN hits + 1 ELSE hits
  /\ missed' = IF monitor = "expvars" /\ \E s \in Hit : stage[s] = "printed"
               THEN missed + 1 ELSE missed
  /\ Go(h, "out")
  /\ UNCHANGED <<monitor, asked, lines, counter, scraped, shownHits, overlap>>

(* /metrics shows the counter, without itself.                             *)
ShowsCounter(h) ==
  /\ stage[h] = "in" /\ Scrape(h) /\ monitor = "prometheus"
  /\ scraped' = [scraped EXCEPT ![h] = counter]
  /\ Go(h, "out")
  /\ UNCHANGED <<monitor, asked, served, lines, counter, hits, shownHits,
                 missed, overlap>>

(* /debug/vars shows the variables in the order of their names: hits, and  *)
(* later mystat, whose function empties hits.                              *)
ShowsHits(h) ==
  /\ stage[h] = "in" /\ Scrape(h) /\ monitor = "expvars"
  /\ shownHits' = shownHits + hits
  /\ overlap' = (overlap \/ \E s \in Hit : stage[s] = "printed")
  /\ Go(h, "printed")
  /\ UNCHANGED <<monitor, asked, served, lines, counter, hits, scraped, missed>>

(* Faulty: mystat does not call hits.Init.                                 *)
ForgetsHits_Keeps(h) ==
  /\ stage[h] = "printed"
  /\ Go(h, "out")
  /\ UNCHANGED <<monitor, asked, served, lines, counter, hits, scraped,
                 shownHits, missed, overlap>>

ForgetsHits(h) ==
  /\ stage[h] = "printed"
  /\ hits' = 0
  /\ Go(h, "out")
  /\ UNCHANGED <<monitor, asked, served, lines, counter, scraped, shownHits,
                 missed, overlap>>

(* What is written down after next.ServeHTTP: by the access log nothing if *)
(* that panicked, by the timings, which are deferred, one line.            *)
NoTimes == [total |-> 0, tracked |-> 0]

accessLogMiddleware(h) == {IF served[h] = <<"panic">> THEN {} ELSE {NoTimes}}
timingMiddleware ==
  {{logContextTimings(s, own)} : s \in [DOMAIN Works -> Sleeps], own \in Sleeps}
TrackRequestTimings ==
  {{SendTimings(s, own)} : s \in [DOMAIN Works -> Sleeps], own \in Sleeps}

WrittenDown(h) ==
  CASE monitor = "site" -> accessLogMiddleware(h)
    [] monitor = "timings" -> timingMiddleware
    [] monitor = "metrics" -> TrackRequestTimings
    [] OTHER -> {{}}

timeTrackingMiddleware == IF monitor = "prometheus" THEN counter + 1 ELSE counter

Ends(h) ==
  /\ stage[h] = "out" /\ Go(h, "done")
  /\ \E new \in WrittenDown(h) : lines' = lines \cup ({h} \X new)
  /\ served' = [served EXCEPT ![h] = Recovered(@)]
  /\ counter' = timeTrackingMiddleware
  /\ UNCHANGED <<monitor, asked, hits, scraped, shownHits,
                 missed, overlap>>

MonitorNext ==
  \E h \in Hit :
    ComesIn(h) \/ Serves(h) \/ ShowsCounter(h) \/ ShowsHits(h) \/ ForgetsHits(h)
    \/ Ends(h)

MonitorSpec == MonitorInit /\ [][MonitorNext]_monitorVars

-----------------------------------------------------------------------------
(* A request that has ended was written down once, and with its times; the *)
(* exceptions are the code's own.  A request that panicked is answered 500 *)
(* and has no line in the access log.  No work is tracked twice: the total *)
(* exceeds what is tracked by the pause at least.  In statsd the two times *)
(* have each other's name.  Hits are shown by one scrape, if two scrapes   *)
(* do not overlap, except those between its two steps, which nobody sees.  *)
(* An admin's page is shown to nobody without a cookie.                    *)
DoneHits == {h \in Hit : stage[h] = "done"}

RequestsAreCounted ==
  /\ monitor \in {"site", "timings", "metrics"} =>
       \A h \in DoneHits :
         Cardinality({l \in lines : l[1] = h}) = (IF served[h] = <<"500">> THEN 0 ELSE 1)
  /\ monitor = "site" => \A h \in DoneHits :
       served[h] \in {<<"admin">>, <<"500">>} => asked[h].cookie
  /\ monitor \in {"timings", "metrics"} => \A l \in lines :
       Pause <= (IF monitor = "timings" THEN l[2].total - l[2].tracked
                 ELSE l[2].tracked - l[2].total)
  /\ monitor = "prometheus" =>
       /\ counter = Cardinality(DoneHits)
       /\ \A h \in Hit : scraped[h] <= Cardinality(DoneHits \ {h})
  /\ monitor = "expvars" /\ ~overlap =>
       shownHits + (IF \E s \in Hit : stage[s] = "printed" THEN 0 ELSE hits) + missed
         = Cardinality({h \in Hit : served[h] # <<>>})
=============================================================================
