# Verification of go_coursera2

The repository is the course work of a Go course: one larger program per homework
(`hw5_codegen`, `hw6_db_explorer`, `hw7_microservice`, `hw8_i2s`), the examples of the
lectures on microservices, configuration, databases, middleware and monitoring, and a
vendored copy of the gRPC library. This directory holds TLA+ specifications of the parts
that keep state and run concurrently, the TLC configurations that check them on small
instances, and TLAPS proofs of what matters most for every instance.

## 1. The parts of the system

### hw7 microservice (`src/hw7_microservice/service.go`)

A gRPC server with two services. `Biz` (Check, Add, Test) does nothing; every call to it,
and every call to `Admin`, is checked against an access list and published as an event.
`Admin.Logging` streams the events to its client, `Admin.Statistics` streams counters of
them at an interval the client chooses.

| part | state | operations |
| --- | --- | --- |
| event bus: `publisher`, `subscriber` | list of subscribers; unbuffered channels `in`, `addSubCh`, `removeSubCh`, `stop` | `start` (the goroutine), `PublishMessage`, `AddSubscriber`, `RemoveSubscriber`, `Stop`, `Notify`, `Close` |
| service: `StartMyMicroservice`, `server`, `admin`, `biz` | listener, stop goroutine, one handler goroutine per call and one collector per Statistics call | start, stop, two interceptors, five handlers |
| statistics: `statStorage` | two maps of counters under a mutex | `Set`, `GetStat`, `Reset`; `Send` marshals the maps |
| access list: `acl` | map from consumer to paths | `loadData`, `accessCheck`, `auth` |

How they interact. An interceptor asks the access list, offers the event to the bus with
a non-blocking send and runs the handler. A streaming handler sends a subscriber to the
bus. The bus calls the subscriber's function, which blocks on a channel of the handler
until the handler takes the event. Cancelling the context makes a goroutine stop the bus
first and the server afterwards.

What is hard. The bus is one goroutine that calls into handlers which may be gone; sends
are dropped, blocked or fatal depending on where that goroutine is; channels are closed
while others send; the counters are read outside their mutex while the collector writes.

Correct means: a subscriber is given a gapless and ordered part of the events accepted;
only calls the list grants leave a trace; the service does not die before it is told to
stop; `Biz` never waits for a logger; stopping ends what was started.

### Tagged cache (`src/database/tcache`)

`TGet` serves a record from memcached if the versions of its tags are still the ones it
was stored with, and rebuilds it otherwise, behind a lock that lives in memcached too
(added with a timeout of three seconds, polled four times). Several processes share the
server. State: the record, the tag versions, the lock. Hard: every request is a separate
step, the lock may expire under its holder or outlive it, entries are evicted, a caller
may die anywhere. Correct means: a hit is not stale, what is stored is complete, every
call ends, at most one caller rebuilds.

### Image resize queue (`src/database/rabbit`)

A web server stores an uploaded picture under its MD5 sum and publishes a task to a
durable RabbitMQ queue; worker processes of eleven goroutines consume tasks and write one
thumbnail per size, acknowledging behind the last. State: the files, the queue, what each
process has not acknowledged, the connections. Hard: any operation may fail, any process
may die between two steps, a task is delivered again to somebody else while the first
worker is still at it, nobody reconnects, errors are printed and forgotten. Correct means:
the picture is there before its task, finished tasks leave whole thumbnails, a success
that was reported is not lost, every message is acknowledged in the end.

### Service discovery (`src/microservices/grpc_lb_sd`)

Servers register in consul and deregister when they exit. A client lists them, dials the
first through a resolver of its own, injects the others and then polls consul. A batch of
updates travels through three channels of `testWatcher` (its length, the updates, "read");
the balancer of gRPC applies it to its list and gRPC connects. Three copies of one list
are kept equal only by these updates. Correct means: no update is lost, repeated or mixed
with another batch, the copies converge, `Dial` returns when it can.

### Database explorer (`src/hw6_db_explorer`)

GET, PUT, POST and DELETE on the rows of any MySQL table, built from what MySQL says about
its columns. The only state is the table. Hard: the statement depends on the shape of the
path, the types and nullability of columns and the presence of a key, and takes the path's
last segment and texts for numbers as they are. Correct means: a request touches its row
only, an error changes nothing, what is written is read back.

### User API and its generator (`src/hw5_codegen`)

`codegen.go` reads `api.go` and generates HTTP handlers from the tags in it: routing,
authorisation, checks of every parameter. `MyApi` keeps users in a map under an `RWMutex`
and numbers them. Correct means: concurrent requests are answered as the documented API
would answer them one by one, errors in the documented order, and all are answered; the
generator gives any structure the checks its tags mean.

### Sessions (`src/microservices`, `src/database/redis`)

Thirteen programs keep sessions (id to login) behind the same three operations, create,
check and delete, and the same pages, login, main page and logout. The manager is a map
under a mutex in the process of the pages (`service1`), in a server behind net/rpc,
JSON-RPC, gRPC, a REST gateway or a client-side balancer, or it is redis. Some clients are
scripts that run once. State: the map, the generator of ids, cookies, the connection and
the requests under way. Hard: the map is written behind the lock in one program; ids
repeat after a restart; a missing session is nil in one program, an error in the next and
a session of nobody in the third; redis's connection is shared without a lock; a broken
connection is noticed in some clients and never mended in others, and a call whose
connection broke goes on in the server. Correct means: who
logged in is who is welcomed, until he logs out.

### Item lists (`src/database/{mysql,gorm,mongodb}`)

The same five pages over three databases. A handler is one statement, but for gorm's
Update, which reads, changes and saves. State: the rows, and for mgo whether the shared
session has failed. Hard: ignored errors, a read before a write, statements of other
requests in between, lost connections. Correct means: a request changes its own row only.

### Configuration, streams, middleware, monitoring, i2s

| part | state | what is hard | correct means |
| --- | --- | --- | --- |
| `config/consul` | the configuration, its number, the map each request holds | the updater replaces both while requests run; the number is read without the lock | a number never older than the configuration it is printed for |
| `microservices/grpc_stream` | two streams, two goroutines of the client, one of the server | ignored errors, a broken connection | words come back once and in order, both goroutines end |
| `middleware`, `monitoring` | a log, timings per request, counters | what surrounds a handler ends before, after or instead of it; a scrape reads and empties in two steps | a request is counted once, panics and overlapping scrapes aside |
| `hw8_i2s` | none: a recursive conversion by reflection | errors of nested walks are dropped | data that fits is converted, a misfit is reported where it can be noticed |

### Parts that are not modelled

| part | why |
| --- | --- |
| `microservices/service2` | does not compile: a comma is missing in `session.go:26`; `service2-lite` is the same manager |
| `hw6_db_explorer/db_explorer_v1.go` to `v3.go` | v2 and v3 are commented out; v1 declares the same names as the explorer in the same package, so the two cannot be built together, and reads limit and offset from another place |
| generated protobuf code, `gRPC` itself | generated or vendored; what the programs rely on is in the modules that use it |
| websockets, routers, frameworks, logging, graphite | one use of a library each, no state but a connection |
| language examples, flags, templates, cgo, unsafe | straight-line code, or C memory |

## 2. Plan

1. `Publisher` and its abstraction `EventFeed`; safety, refinement, liveness; proofs.
2. `Acl`, then `Microservice`, which composes both with the handlers; proofs that it uses
   the bus as allowed and acts on authorised calls only.
3. `Statistics` and `TCache`.
4. `ResizeQueue`, `Discovery`, `DbExplorer`, and `UserApi` with its abstraction `UserStore`.

5. `Codegen`, and `Generator`, its comparison with the tags' meaning and with the handlers.
6. `Sessions` with its abstraction `SessionStore`.
7. The programs of one page or one connection: `Items`, `ConsulConfig`, `Translit`,
   `Monitoring`, `I2S`.

These are written, and the theorems too: every safety invariant, every action property
and every refinement that a run checks is proved for all values of the constants, and of
four components that nobody waits for ever for somebody who cannot go on. What is left to
TLC is liveness under fairness.

Where a new property says more than one that is checked now, it takes its place: the list
is meant to stay at what is worth a run.

## 3. The modules

| module | models | composes |
| --- | --- | --- |
| `EventFeed` | what the bus promises: a log, and per subscriber a reader that starts at its end | |
| `Publisher` | `publisher.start`, its channels and its callers in the most general environment | instance of `EventFeed` |
| `Acl` | `accessCheck` and `auth` as operators over split paths | |
| `AclCheck` | what a list means, to compare `auth` with | extends `Acl` |
| `Microservice` | start, stop, interceptors, handlers, clients that leave | extends `Publisher`, `Acl` |
| `Statistics` | the maps of one Statistics call, their unlocked reading and reset | |
| `TCache` | concurrent `TGet` calls, memcached, data that changes | |
| `ResizeQueue` | upload form, RabbitMQ, worker processes with their goroutines | |
| `Discovery` | servers, consul, the client, its watcher and gRPC's balancer | |
| `DbExplorer` | the statements the explorer builds and what MySQL makes of them | |
| `Explorer` | puts `DbExplorer` beside other programs under a name of its own | instance of `DbExplorer` |
| `ApiParams` | what generated checks compute, and what tags mean | |
| `UserStore` | what the documentation promises of the user API | extends `ApiParams` |
| `UserApi` | `ServeHTTP`, wrappers and methods, lock by lock | extends `ApiParams`, instance of `UserStore` |
| `Codegen` | `codegen.go`: what it takes from a file, and the handlers it makes of it | extends `ApiParams` |
| `Generator` | what tags mean for a generated handler, and `api_handlers.go` beside what is generated | extends `UserApi`, `Codegen` |
| `SessionStore` | one map of sessions with operations that take effect at once | |
| `Sessions` | the session programs: pages or script, transport, manager | instance of `SessionStore` |
| `Items` | the item lists over MySQL, gorm and MongoDB | |
| `ConsulConfig` | updater, middleware and handler of `config/consul` | |
| `Translit` | client, handler and stream of the transliteration | |
| `Monitoring` | pages, middleware, timings, counters and scrapes | |
| `I2S` | `walk`, and what data means for a type | |
| `Recursion` | no part of the code: when a recursive function satisfies its equation | |
| `MicroserviceProofs` | theorems about `Publisher`, and about `Microservice` | extends `Microservice` |
| `StatisticsProofs`, `TCacheProofs`, `ResizeQueueProofs`, `SessionsProofs` | theorems about one module each | extend the modules they are about |
| `UserApiProofs` | theorems about `UserApi`, and about `Generator` | extends `Generator` |
| `ExampleProofs` | theorems about `ConsulConfig`, `Translit`, `Items`, `I2S`, `AclCheck`, `Discovery`, `Monitoring` and `DbExplorer`, in this order | extends them, instances of `Recursion` |
| `MC...` | values of the constants for TLC | |

### From code to state: Publisher

`pub` is the program counter of `start`. It is "top" between two rounds of the loop,
"parked" in the select, "notify" while it walks over the list (`pos` is the index, `cur`
the message), "closing" in the stop branch and "exited" behind the return. An event can
be handed over only while it is parked, because `p.in` is unbuffered and the interceptor
does not wait; additions and removals wait, so they also succeed from "top". `open` is
FALSE once the stop branch has closed the channels: a send then panics, which sets
`alive` to FALSE for the whole process. `log`, `from` and `got` are history: the events
accepted, where each subscriber joined, what it was given.

### From code to state: Microservice

`main` and `stopper` are the program counters of `StartMyMicroservice` and of the stop
goroutine, `pc[c]` the one of the handler of call `c`, `collector[c]` that of the goroutine
which feeds a Statistics call. `conn[c]` says whether the server still has the stream. A
call publishes at most one event, so the call itself stands for its event. The steps that
send to the bus or receive from it are conjunctions with the action of `Publisher`
(`SubscribeLogging` with `AddSubscriber`, `DeliverLogging` with `Notify`, and so on).

### From code to state: Statistics, TCache

In `Statistics` a report is not atomic: `unread` holds the counters that marshalling has
not visited, and `Set` may run between any two visits or kill the process, as the Go
runtime may on a concurrent map access. In `TCache` every memcached request and every call
of `rebuildCb` is one step of `pc[c]`; eviction, a failed request, a failed callback and a
crash share the bound `MaxFaults`.

### From code to state: ResizeQueue, Discovery

In `ResizeQueue`, `up[u]` is the next operation of `uploadPage`, `work[w]` the task of a
worker's goroutine with the size it is at and whether it has the thumbnail open. A
thumbnail is "none", "partial" from `os.Create` until it is encoded, or "whole"; two
goroutines of different processes may have the same file open ("shared"), and then
whichever of them writes may leave it partial. `socket` holds what `Publish` has written
and RabbitMQ has not stored. A process is "cut" when its connection is gone: the goroutine
finishes its task, its acknowledgement fails, nothing reconnects.

In `Discovery`, `side`, `update` and `reader` stand for the three channels: the first two
have room for one element, `readDone` has none, so `ReadDone` is a step of the watcher
together with whoever waits, the goroutine of `Resolve` or `inject`. `next`, `left` and
`batch` are the place and locals of `testWatcher.Next`, `addrs` and `addrCh` the
balancer's list and its channel for the newest list, `conns` what gRPC connects to.

### From code to state: DbExplorer, ApiParams, UserApi

A request to the explorer executes one statement, so requests follow one another: the
interleaving is MySQL's. SQL text is modelled by what it means: a literal is its value, the
name of a column that column's value, and what is neither is "broken". The last segment of
a path is spliced into the statement, so it is a number, a condition that holds of some
rows, or broken; and so is a text for a column of numbers, which is a number (`Numerals`),
a column, NULL or broken. Numbers count halves, so that there are fractions for MySQL to
round (`Held`). `Update` and `Insert` are the clauses built from a body, `Changed` and
`NewRow` what MySQL does with them, `Fails` what it refuses. The rows of `table` have the
numbers MySQL gave them: AUTO_INCREMENT's if there is a key, and hidden ones otherwise;
`Selected` are those a WHERE clause names.

`ApiParams` has the checks twice: `Wrong` as they are generated, field by field, and
`NotMet` as `hw5.md` describes the tags, each by itself: a field for which nothing arrives
has its default (`Given`), and required, min, max and enum are about the value it has then.
`UserApi` uses the first, `UserStore` the second. In `UserApi`, `pc[r]` stops at each
operation on the mutex, the map and `nextID`.

### From code to state: Codegen

`Generate` turns a file (structures with their tags, methods with their comments) into
what is generated: for every method its route, its authorisation and its wrapper, or
`Panics` or `DoesNotCompile`. `ServeGenerated` is what the generated `ServeHTTP` and the
wrapper do with a request. `ApiGo` is `api.go`. `Generator` compares its handlers with
`UserApi`'s and those of any `Structs` with `hw5.md`'s meaning of the tags, for any
`TestForms`; TLC takes 384 small structures, with defaults of texts and of numbers, with
enum and without. Where the code leaves `hw5.md` is in two definitions: `Unsupported`, the
combinations that fail, and `DefaultIgnored`, the defaults `codegen.go:384` does not see.

### From code to state: Sessions

`program` is the one that runs. A request of a tab is "asked" when its page has called
the manager; then, by program, "drawn" (an id is drawn, the map not written), "writing"
(in `service1`, behind the lock), "waiting" (a redis command whose reply is on the
`wire`) or "replied"; and then the page makes its answer of the reply. `drawn` counts the
ids of the running process, so that a restart begins with the first again. `link` and
`up` say whether the pages' connection works and the manager's process runs. A call whose
connection ends is answered with the error of its transport, and joins `orphans`: its
goroutine, or redis, goes on and may draw an id (`OrphanDraw`) and write the map
(`OrphanWrite`) at any later time, or never. Each manager is an operator on request and
store, each client an operator from reply to answer. The refinement takes a request from
its call to its answer as `SessionStore`'s `due`, which is the call, then what the
operation made of it, and `told`; the orphans are `late`.

### From code to state: Items, ConsulConfig, Translit, Monitoring, I2S

In `Items`, `step[v]` is the next statement of a visitor's request: "handle", and for
gorm's Update "find", "save" or "insert", "first", "create". `Statement` is what the
statement under way does to the rows. A connection may be lost at each of them, whether the
statement was executed or not; only in gorm's `Find`, whose error nobody looks at, does
the handler go on then (`GormFindFails`). `cut` are the visitors this happened to. In
`ConsulConfig` a configuration is the number it was written under, `loading` the place of
`loadConfig`. In `Translit` a stream is the sequence of what is on the way, ended by `EOF` or `Broken`.
In `Monitoring` a request is "in" before its handler, "out" behind it and "done" when what
surrounds it has ended; a scrape of `/debug/vars` has a step of its own between showing
`hits` and emptying it ("printed"). `shownHits` and `missed` are history: hits that
scrapes have shown, and hits that came between the two steps of one. The times of a request
are those of its works, the pause, and what the code takes itself (`own`).

`I2S` writes types and data as nested tuples with their kind. `walk[d]` gives for each type
what the code's `walk` makes of the data `d`: whether it returned an error, and the value
with what it has set before a panic. A float64 counts halves, and `Int64` cuts off what is
behind the point. `walk` is a recursive function of the data, which
`WalkOnce` defines from what happens below; `fits`, `means`, `ofStructs` and `sameLength`,
what it is compared with, are made in the same way. A call is one state, `input`.

## 4. The runs

| run | what it asks | bounds and why they are enough |
| --- | --- | --- |
| `publisher` | `GaplessFeed`, `NobodyLags`, `ClosedOnce`, `FeedRefined`, `StopEndsPublisher` | two events and three subscribers: someone before, in and behind the place a round is at |
| `service_safety` | `OnlyAuthorised`, `OwnEventInvisible`, `CrashHasCause`, `OnlyTheGoneBlock`, `StuckForever` | one call of each kind: Biz, no header, a malformed list, Logging, Statistics with an interval of 0 or 1; both streams may lose their client. |
| `service_live` | `BizNeverBlocks`, `SubscribersCatchUp`, `UnaryServiceStops` | Biz, Logging and Statistics; the logger may leave |
| `service_leak` | violation of `NoLeak` | one Biz and one Logging call |
| `statistics` | `Accounting`, `TornOneWay`, `ClientGoneEndsBoth` | two methods, two consumers, two events, intervals of 0 and 1 |
| `tcache` | `StoredIsComplete`, `LockIsHeld`, `HitIsFresh`, `CallsEnd` | two goroutines, three calls, one change of the data, one increment, one fault, two polls of the lock instead of four |
| `tcache_one_rebuilder` | violation of `OneRebuilder` | two calls, the four polls of the code, no fault |
| `resize_queue` | `ThumbsComplete`, `SuccessIsKept`, `TasksAreDone` | two uploads of one or two pictures, one of which cannot be decoded, two processes of two goroutines, one size, two faults: enough for a redelivery that overtakes the first worker |
| `discovery` | `NothingLostOnTheWay`, `ListsConverge`, `DialReturns` | three addresses, three changes of servers, one failure of consul: batches of up to two removals and an addition, and lists that change under `Dial` |
| `user_api` | `GeneratorMeans`, `UsersRefined`, `EveryRequestIsAnswered` | three requests: one with any of 62 queries on both sides of every bound, two that create or look up one of two users. `GeneratorMeans`: structures of one field with every combination of tags, defaults with and without enum, for texts and for numbers, and of two fields with some; every form around their bounds |
| `sessions` | `WelcomeIsOwn`, `CrashOnlyInService1`, `StoreRefined` | three tabs of two owners, by program up to two requests each, five ids, one break, stop or expiry: a restart between login and page, two commands on redis's wire, a login and a logout that go on after their connection broke |
| `examples` | `WritesStayInRow`, `ReadsBack`, `RowsAreTheirOwn`, `VersionCoversConfig`, `WordsComeBack`, `RequestsAreCounted`, `FilledIfItFits`, `AuthDecides` | the explorer with three tables (nullable and not, with key and without, types that match `GetType` and not), bodies of up to two fields, two rows, values of one and of one and a half, texts that are numbers or columns, paths that end in a row's number, in another, in a condition, in no SQL, or in no id; three visitors with one request each and a connection lost at any statement: gorm's Update between two others; two requests, three configurations and four loads; three words; three requests with works of two lengths; types and data of up to three levels with 1 and -1.5 as numbers, every type with all data; every access list of up to two of eight paths, well-formed and not, with every header of up to two values |

The programs of `examples` share a run because each is small; they share no state, and a
state of the run is one of exactly one of them. `walk` and `auth` are functions: for them
`input` runs through what they are given.

What they show beyond "it holds":

- `StuckForever`: a logger that leaves is never removed from the list. The next event
  blocks the bus for good; no event and no subscriber is accepted and Stop is not seen.
  `BizNeverBlocks` says what is left: Biz calls still complete, their events are dropped.
- `CrashHasCause`: a call that arrives while the service stops finds `p.in` closed and
  kills the process. Before that three things can, and no other: a malformed access list;
  `time.NewTicker` when a client asks for reports every 0 seconds; and the collector of a
  Statistics call that writes the maps while `outStream.Send` ranges over them, which the
  runtime may notice and never forgives.
- `OnlyTheGoneBlock`: as long as its clients stay, no subscriber holds the bus up.
- `Accounting`: the events a Statistics stream loses are exactly those counted after the
  report had read their counter and before `Reset`.
- `HitIsFresh`: stale data is served in two cases only, named in the property.
- `ThumbsComplete`: a thumbnail is missing after its task only where a resize failed (the
  error is printed and the task acknowledged) or where a worker without connection
  truncated a file another one had finished, and died.
- `SuccessIsKept`: a reported success is lost only if RabbitMQ goes before it has stored
  the task, because `Publish` asks for no confirmation.
- `LockIsHeld`: the lock excludes until a call goes on without it or it times out under a
  rebuild; it does not outlive its call unless that crashed or its Delete failed.
- `WritesStayInRow`: a path that ends in a number is about the row of that number. One that
  ends in nothing is about all rows, and one that ends in text about those of which the
  text, spliced into SQL, is true, where `hw6.md:27` asks for protection. PUT into a table
  without key stores the row and answers 500.
- `ReadsBack`: PUT loses every value given for a nullable column; the text 'NULL' is
  stored as NULL; true is read as a number, and a fraction in a column of whole numbers as
  the nearest (`main_test.go:401-430` has 11.1 read as 11). A text for a column of numbers
  is not refused but spliced in: '1' is the number and a column's name that column.
- `ListsConverge`: a killed server stays in the balancer, since nothing removes it from
  consul. `DialReturns`: a client waits at `Dial` if the first server listed is gone, even
  when others run.
- `UsersRefined`: the generated checks, in the combinations `api.go` uses, and the locking
  give exactly the documented answers.

- `GeneratorMeans`: the generator keeps to `hw5.md` except in two ways. A default without
  enum, or on a field with required or a positive min, is ignored when nothing arrives
  (the checks run before it is set, or it is never set), and the request is answered as if
  the field had none. And some combinations the text allows panic the generator (enum
  without default) or give code that does not compile (required or enum for a number, no
  number in the structure, two enums, two fields of one name). Read into `hw5.md` is that an empty text is the
  "empty value", that an empty text is no number, and that the tags are about the value
  a field has once its default is set.
- `WelcomeIsOwn`: somebody is welcomed as another, or as nobody, in four cases: after a
  restart, by hand or behind a crash of the runtime, because ids repeat; over net/rpc and
  JSON-RPC, whose Check of a missing session is no error; over redis, when two goroutines
  read each other's replies; from the balanced servers, which make a session up on
  purpose.
- `StoreRefined`: a manager is one map whose operations take effect in one step between
  call and answer; a login or logout that was answered with an error takes effect at most
  once, then or at any time later, because its goroutine in the server goes on when its
  connection has ended. This holds until unlocked writes of `service1` or replies of
  redis have met, and except for the balanced servers. Where a missing session looks like
  one of nobody (net/rpc, JSON-RPC), a visitor without session is taken for whoever
  logged in with an empty login.
- `CrashOnlyInService1`: the unlocked write of the map can end the process, and only while
  another request is in the map.
- `RowsAreTheirOwn`: gorm's Delete without id takes every row, its Update of a missing row
  adds one or brings a deleted one back, and if the connection is lost in its Find it adds
  a second row beside the one it should have changed.
- `VersionCoversConfig`: a request may print a number that is too new for its
  configuration, never one that is too old.
- `RequestsAreCounted`: a request that panics is not in the access log; no work is tracked
  twice, so the total exceeds the tracked time by the pause at least; hits between the two
  steps of a scrape are in no scrape; statsd gets the two times of a request under
  each other's names (`context_monitoring.go:109`).
- `FilledIfItFits`: data that fits gives what it means, a number with its fraction cut off,
  but elements of slices of numbers or texts stay zero. A misfit is reported, unless it is
  in an element of a slice or in a structure in a structure. A case of `main_test.go` that
  expects an error for a misfit in `SubSimple` passes because `Blocks` is missing, too.

### Findings

- `service_leak`: `subscriber.Close` closes a channel nobody reads, so the handler of
  Logging never ends; the comment on `TestServerLeak` says that no goroutine is left.
- `tcache_one_rebuilder`: `rebuild` ignores the result of `lockRebuild`, whose comment
  says the lock keeps callers from rebuilding together.

### Fairness

Safety runs use none. The liveness runs assume weak fairness of steps a goroutine takes
once it can: the publisher's own steps, interceptors, handlers, collectors, the start and
stop goroutines, requests of a `TGet` call. The Go scheduler runs every goroutine that is
ready, and a select with a ready case proceeds. No fairness is assumed of callers: nobody
has to call, leave, cancel the context or change data, no ticker has to fire and the
memcached lock does not have to expire. `publisher` assumes that subscribers keep
receiving; `Microservice` drops that assumption, because there they may return.
`resize_queue` assumes that requests, RabbitMQ and the goroutines go on; nobody has to
upload or to start a process, so `TasksAreDone` asks for a connected worker itself.
`discovery` assumes that the client's goroutines go on and its ticker ticks; servers need
not start or stop. In `user_api` every goroutine that can go on does; as each serves one
request, weak fairness suffices at the mutex.

`sessions` and `examples` are about safety and assume none; that `Translit` comes to its
end is stated there as "when nothing can happen any more, both goroutines are through".

`CHECK_DEADLOCK FALSE` is set in every run: a stopped service, a dead process, a returned
handler and exhausted bounds are states in which the system really stops.

## 5. The proofs

`MicroserviceProofs` begins with the bus alone. It proves, for every set of events and
subscribers, `BusSpec => []P` for `TypeOK`, `GaplessFeed`, `NobodyLags` and `ClosedOnce`,
and `BusSpec => FeedRefined`. The only assumption on constants is `NoEvent \notin Event`.
None of these is inductive. `NobodyLags` is silent about a round of Notify in progress,
so it cannot tell that the subscriber notified next lacks exactly the last event of the
log; and `TypeOK` needs to know that the message of a round is an event. The invariant
`IInv` adds

- `Caught`: listed subscribers behind the loop's index have the whole log, the others all
  but the last event;
- `Round`: in a round the index is inside the list and the message is the log's last;
- `Listed`: the list has no repetitions and holds subscribers that joined;
- `Closing`: a closed subscriber has joined and is not in the list any more.

`IInv` was checked by TLC on the `publisher` instance and is proved inductive with one
step per action. Two lemmas about sequences carry the removal of a subscriber
(`RemoveAtFacts`, `RemoveFirstFacts`). Steps that leave list, log and streams alone are
covered by `QuietStep`.

In its second part every step of the service is shown to be one of the bus or to leave
the bus alone (`StepRefines`; `Publisher` lets any other goroutine of the process panic
for that), so that `IInv` holds inside the service (`BusInvariance`). On it rest
`Spec => []SvcTypeOK`, `[]OnlyAuthorised` and `[]OwnEventInvisible`, assuming only that
streaming calls are calls. `AllowIsGranted` reads the access list's loop; `OrderInv` says
that a subscriber joined after its own event had been accepted or dropped.

Three theorems of `MicroserviceProofs` are about how the service fails.
`CrashHasCauseCorrect` needs `ShutdownInv`: Stop is called behind the context's end only,
and the channels are closed behind Stop; `PanicsInPlace` goes through the actions for the
step that ends the process. `StuckForeverCorrect` needs `OpenInv`, that closed channels
mean a publisher that has returned: then `StaysStuck` shows, step by step, that a
publisher whose subscriber's handler is gone stays where it is. `OnlyTheGoneBlockCorrect`
is the converse: only a handler whose client left is ever gone (`HandlerInv`).

`StatisticsProofs` proves `Accounting` for all finite disjoint sets of methods and
consumers. The property speaks about the end of a report; the invariant `CountInv` says
for every moment where an event is: a counter that has been read has its value in the
message and what came later in `missed`, any other counter still holds all of it
(`Accounted`), and `ReadInOrder` makes sure that Reset finds every counter read.

`TCacheProofs` proves `StoredIsComplete`, `LockIsHeld` and `HitIsFresh` for any callers and
tags, assuming that `None` is neither a number nor a caller. The first needs only types and
`HasRecord`, that a call which compares or stores has something to compare or store.
`LockIsHeld` is inductive together with it. `HitIsFresh` needs `FreshInv`: what a call has
fetched is as new as the last increment it has not been overtaken by (`FetchedIsFresh`),
a tag it has recorded and nobody has
incremented since had not been incremented between `rebuildCb` and that either
(`SeenInTime`), and every record, in
memcached or in a call's hands, has tags that are no newer than the server's and, if they
are the same, data no older than the last increment (`Sound`); the last two until a tag is
evicted or made twice, or a rebuild overtaken.

`ResizeQueueProofs` proves `SuccessIsKept` and `ThumbsComplete` for any uploads, pictures,
sizes, processes and faults, assuming that the foreign task is not an upload. The first
needs `MovedFirst`, the picture is in its place before its task is published;
`TasksHaveOriginals`, a task keeps its picture on all its ways; `TasksAreHeld`, a task that
was reported is somewhere, or done, or lost with RabbitMQ. For the second, `ThumbInv` adds
`OwesItsTask`, a connected process has exactly its goroutine's task unacknowledged;
`PassedIsThere`, sizes behind a goroutine exist or have failed; and `PartialIsWritten`: a
torn thumbnail has somebody who will write it once more, a task in the queue or the
goroutine that truncated it last.

`UserApiProofs` proves the refinement `UsersRefined` for any requests, queries and users.
The abstract store answers at one step of each call, the look into the map of Profile and
the write of Create. What makes that right is `OneWriter`, who is between Lock and Unlock
is alone; `LoginIsFree`, what Create has looked up stays true until it writes;
`IdsAreConsecutive`, that `nextID` is the number of users plus 42, or one more while one is
about to be stored; and `WrongNotMet`, the generated checks of `api.go`'s structures refuse
what does not meet the tags, in the same order. The assumption on queries is that a text is
"" just if it is empty.

`UserApiProofs` also proves `GeneratorMeans`, in two parts.

- `TagsMean`, for any structures of numbers and texts with any tags, and any forms:
  `FileIsRead` says what `codegen.go` takes from a file, `SupportedCompiles` that exactly
  the combinations of tags listed in `Unsupported` panic or do not compile.
  `PassesIffMeets`, which `WrongNotMet` uses too, compares the checks of one field with its
  tags, where its default is not ignored; `SupportedMeans` compares whole structures, with
  the ignored defaults taken away (`WithoutIgnored`), and where a request leaves no such
  field out also with them; `SameFirst` carries the order of errors over, `WrapperMeans`
  and `FileMeans` take it to what is answered. Assumed is that texts have no max,
  which `hw5.md` gives to numbers only, and that a text without characters is empty. A name
  stands for an identifier that nothing else in the generated code has.
- `HandlersAreGenerated`, for any request: `GeneratedIs` computes what is generated for
  `api.go`, the three wrappers, and `GeneratedAgrees` compares what they answer with
  `api_handlers.go`, path by path.

`SessionsProofs` proves `SessionTypes`, `CrashOnlyInService1`, `WelcomeIsOwn` and
`StoreRefined` for all thirteen programs and any tabs, ids and faults.

- `CrashOnlyInService1` needs `WritersOfService1`: only the unlocked managers have requests
  that write outside the lock, and a script is alone with its manager.
- `WelcomeIsOwn` follows a session on all its ways, the map, a cookie, a request, a reply,
  redis's wire: each has been given for its login once (`HeldInv`), and as long as nothing
  was started again, an id has been given once (`IdsAreNew`). The attempt showed that the
  exception of ids that repeat has to include a crash of the runtime: with no fault at all,
  two processes may have handed out one id.
- `StoreRefined` needs that what a manager returned fits its operation (`RepliesFit`), that
  the replies on the wire fit those who wait for them (`WireFits`, `WireServes`), and what
  is above. Each step is shown to be one of `SessionStore` or none; a call whose connection
  ends fails there too and becomes late (`FailureIs`), and what it does afterwards is a
  late step (`OrphanIs`). The attempt found the exception of the empty login.

`ExampleProofs` has eight parts.

- `VersionCoversConfig`, for any requests and loads: `NumbersFollow` says that the numbers
  only rise from consul's answer to the updater's copy, and `CoversTaken` that the shared
  number has reached what a request took.
- `WordsComeBack`, for any number of words: each stream carries the words that are between
  what its reader has and what its writer has sent, and then its end (`Flows`); who is done
  has seen the end of the other (`PartsFit`).
- `RowsAreTheirOwn`, for any visitors, texts and connections lost at any statement:
  `ItemsInv` says what a request in its steps is about, that one of gorm's which inserts
  did not see its row, and that MySQL and MongoDB give no id twice.
- `FilledIfItFits`, for any types and data. TLA+ says of a recursive function only that it
  is some solution of its equation, if there is one. `Recursion` proves that there is
  one if each value depends on values of a smaller rank only (`Exists`); here the rank is
  the depth of the data, and `AsksBelow` says that a walk asks about parts only. So the
  functions may be unfolded (`Unfolded`), and what holds of data if it holds of all that
  is less deep holds of all data (`LeastRank`, `AllMeanIt`). Assumed is that data does not
  contain itself, `I2SAssumption`: it comes from a text, which is finite. The library's
  induction theorems take a predicate as a parameter, which the provers cannot instantiate;
  a least counterexample does the same.
- `AuthDecides`, for every list, header and method, malformed paths included: the loop of
  `accessCheck` ends at one entry if it ends early, the least of those that decide
  (`LeastNumber` of `Recursion`, from the well-foundedness of the numbers).
- `NothingLostOnTheWay`, for any finite set of addresses: the number that `Next` was told
  is what it has still to receive (`Counted`), and the balancer's list with all that is on
  its way applied is what the client believes in (`Believed`). What a batch does to a set
  is given by the last update of each address (`AllApplied`).
- `RequestsAreCounted`, for any finite set of requests and any times: a request that has
  ended has one line (`LinesFit`), the counter is the number of those (`CounterFits`), and
  the hits shown, kept and missed are the requests served (`HitsFit`), which rests on one
  scrape at a time (`OnePrints`). `TimesAddUp` says that the times kept by name are those
  of the works, and no more.
- `WritesStayInRow` and `ReadsBack`, for any table, path and body, conditions and texts
  that are SQL included: with `Numbered`, that rows have numbers MySQL has given before,
  they are facts about the one step that serves a request, one lemma per method. Assumed
  is that a body does not give a column together with a text that names it.

The invariants of `Publisher`, `Statistics`, `TCache` and of `SuccessIsKept` were checked by
TLC on the instance of their run before they were proved; each proof has one step per
action. Assumed of the constants is what the modules state in their ASSUMEs, which every
run evaluates: types, finiteness where something is counted, and that a value that stands
for none is none.

Some definitions are written for these proofs without recursion. `Total` of `Statistics`
counts events by cardinalities, `AllApplied` of `Discovery` looks for the last update of an
address instead of folding over them, the balancer's `addrs` is a set, `loadPostsHandle` of
`Monitoring` has its six calls spelled out, `ApiOf` of `Codegen` looks for the last line
of a comment that mentions a key, `I2S` has recursive functions and no recursive operator.

Model-checked only is liveness, because it rests on what fairness enables, which is out of
the prover's reach: `StopEndsPublisher`, `BizNeverBlocks`, `SubscribersCatchUp`,
`UnaryServiceStops`, `ClientGoneEndsBoth`, `CallsEnd`, `TasksAreDone`, `ListsConverge`,
`DialReturns`, `EveryRequestIsAnswered`. Of some of them a part is safety, that those who
wait wait for somebody who can go on, and that going on comes to an end. No run checks
these parts; they are proved for all values of the constants.

- `EveryRequestIsAnswered`: a received request that cannot go on waits for the holder of
  the mutex, and the holder can go on (`NobodyWaitsInVain`), because only requests between
  Lock and Unlock hold it (`HeldByServed`); and each step takes one request nearer its
  answer (`StepsRunOut`).
- `ListsConverge`: `inject`, the watcher and gRPC's `lbWatcher`, each of which waits for
  another, never all wait at once while something is on its way (`NobodyWaitsForAll`), and
  each of their steps leaves less to do (`WorkRunsOut`). Both follow from the invariant of
  `NothingLostOnTheWay`.
- `TasksAreDone`: a connected worker process has nothing unacknowledged and idle goroutines,
  or one goroutine works on exactly the task it owes (`OneTaskAtATime`, from `OwesItsTask`
  and `UnackedIsHeld`), so that RabbitMQ never waits for an idle process.
- `SubscribersCatchUp` and `UnaryServiceStops`: a publisher in a round of Notify is at its
  end, or waits for a handler that receives or a client that has left (`OnlyTheGoneBlock`).

From the first to its liveness property only the rule of weak fairness is missing. That
polls come to find nothing new, once consul's list stays as it is, and that going on comes
to an end in the last two, is checked by TLC only.

## 6. What the models leave out

Message contents and the transport of gRPC (a stream is there or gone), the timestamp of
events, JSON, logging. In `Microservice` the goroutine that turns the end of a stream's
context into `close(done)` is merged with the select that sees it. In `TCache` there is
one key, and time moves in seconds that no step depends on except a tag's first version.

In `ResizeQueue` the content of pictures and the worker's sleep of three seconds;
RabbitMQ is modelled from its use, and redelivers a task only when its connection has
ended. `Discovery` leaves out the calls of the client and the choice of a server for
each; consul and gRPC's balancer are modelled from their use. `DbExplorer` serves one
table; the list of tables, unknown tables, failures of MySQL that do not come from the
statement, and texts or segments that go on with SQL of their own, or read other tables,
are left out. A text with a quote is one value, which ends the literal it is put into.
`UserApi` leaves out JSON and the fields no answer depends on. `Codegen` begins behind
Go's parser and ends before gofmt; the templates are modelled by what the code they give
does.

In `Sessions` a connection is there or gone: no packet is lost on a connection that
works, and a call that was executing when its connection ended is answered with the error
of its transport, whether it takes effect or not. The generator of ids is unseeded, as in
the Go of the repository's time; later versions of Go seed it. The swagger files and the
cookie's date are left out.

`Items` takes from gorm that Save updates and, if no row changed, looks for the row and
creates it, and that Delete without a key has no condition (`jinzhu/gorm`, not vendored);
from mgo, that a session which has failed fails until it is refreshed. Descriptions go
with titles. `ConsulConfig` leaves out consul's own restarts, which could give an older
number. `Monitoring` counts requests without their paths, and leaves out prometheus's
summaries and statsd's buffer. `I2S` has no pointers but the outermost.
