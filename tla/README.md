# Car Gateway in TLA+

A formal model of the gateway in `src/`: TLA+ modules that follow its Go code,
TLC configurations that check them on small instances, and proofs, checked by
TLAPS, of their safety for every size. File names below are relative to `src/`.

## 1. The system

The gateway accepts TCP connections from vehicle platforms, cuts the byte
streams into GB/T 32960 packets, keeps a table of which vehicle speaks through
which connection, and passes the data of the reports to a message queue.

```
 peers --TCP--> gnet event loops --> OnTraffic --> HandleMessage --Dispatch--> dataChan (10000)
                 (one per CPU)       buffer,        platform flag,                |
                                     SplitFunc      replies                  100 workers
                                                       |                          | Produce
                                               SessionManager              RabbitMQ / Kafka / no-op
                                               (sync.Map by VIN)           producer
```

| component | state | operations | properties that make it correct |
|---|---|---|---|
| TCP server (`internal/server/tcp_server.go`) | per connection: receive buffer, platform flag | OnOpen, OnTraffic, OnClose, asynchronous Close; Start, Stop | packets do not depend on how TCP cuts the stream; bounded buffer; a closed session's connection goes |
| packet scanner (`internal/protocol/gbt32960/decoder.go`, `packet.go`) | none (the limit) | SplitFunc, VerifyChecksum | every packet handed on is a whole, checked piece of the stream; it finds its way back after garbage; a scan ends |
| handler (`internal/usecase/gbt32960/handler.go`) | none (all in connection and table) | platform login, vehicle login, logout, real-time report, any other command | no vehicle login without a platform login on the connection; welcomed implies registered; a report registers only a missing vehicle |
| session manager (`session_manager.go`) | `sync.Map` VIN to session, last activity per session | Add, Get, Remove, UpdateLastActive, CheckHeartbeat | last registration wins; one close per removal, and of the removed session's connection; a sweep closes the expired sessions and no other |
| authentication (`auth_service.go`) | tables, constant after start | PlatformLogin; Login is never called | a decision |
| dispatcher (`internal/usecase/dispatcher.go`) | channel, context, WaitGroup | Start, Dispatch, worker, process, Stop | each item once at most; bounded reordering; Stop leaves no worker behind |
| RabbitMQ producer (`internal/infra/rabbitmq/producer.go`) | connection, channel, `isClosed`, one-slot token channel, mutex | connect, signalReconnect, handleReconnect, monitors, Produce, Close | no lost wake-up; the link comes back; closed stays closed; Produce returns |
| Kafka and no-op producers | the library's writer; none | Produce, Close | - |
| encoder and responses (`packet_encoder.go`, `response_builder.go`) | none | EncodePacket, the builders | a reply scans as one packet and names the command, vehicle and time of its request |
| information unit parsers (`model_*.go`), payload | none | pure functions on bytes | a unit is as long as its parser reads |
| wiring (`cmd/server/main.go`), configuration | where main is, the engine | start, wait for a signal, stop | stops in the order server, dispatcher, producer; a signal ends the process |
| test client (`cmd/client`, `internal/client`) | - | sends a fixed sequence | not part of the gateway |

**Interactions.** The callbacks of one connection run one after another on its
event loop; different connections run in parallel and meet in the session table
and in the dispatcher's channel. Workers meet in that channel and in the
producer's mutex. `Close` on a connection is a request: gnet queues it and the
connection's own loop executes it between two callbacks. main defers the
producer's Close before the dispatcher's Stop, so the dispatcher stops first.

**What is hard here.** Steps of two connections between a look at the table and
a change of it; a sweep over a table that others change; reports reordered by a
hundred workers; a full channel; Stop with workers in the middle of Produce; a
signal before there is an engine to stop; a reconnection that is asked for,
lost, asked for twice, or asked for too late; a byte stream cut at any place
and with start marks where there are none. The full list, with the line where
each one bites, is `hazards` in PROJECT.json.

## 2. The modules

| module | models | extends / uses |
|---|---|---|
| `RelaxedRelay` | what the dispatcher promises: an abstract specification without queue or workers | |
| `DataDispatcher` | the dispatcher, whoever drives it | refines `RelaxedRelay` |
| `SessionTable` | what the session manager promises: an abstract table whose operations happen at once | |
| `SessionManager` | the methods of the session manager, cut at every access to shared memory | implements `SessionTable` |
| `SessionSweep` | CheckHeartbeat against arbitrary other callers | `SessionManager` |
| `Handler` | connections and the protocol handler, calling the session manager | `SessionManager` |
| `RabbitMQProducer` | the producer, its goroutines, the broker | |
| `Gateway` | the process: main, the server's engine and event loops, the dispatcher | `DataDispatcher` |
| `PacketFormat` | what SplitFunc and VerifyChecksum look at in a sequence of bytes | |
| `PacketScanner` | OnTraffic's buffer and loop around SplitFunc | `PacketFormat` |
| `Replies` | what the handler writes on a connection, read back by its peer | `PacketFormat` |
| `RealTimeReport` | handleRealTime's walk over the information units, and their parsers | |
| `MC...` | the instance for TLC, with its definitions of constants or its symmetry | the module named |
| `...Proofs` | theorems and their proofs | the module named |

The operators commented as "Mutant of X" next to a definition X are plausible
mistakes in it. No specification uses them: putting one in the place of X makes
a property fail, which shows that the property depends on X (`mutants` in
PROJECT.json pairs them).

### DataDispatcher

An item is the number of its `Dispatch` call. `StartWorker` is one turn of the
loop in Start, `StopCancel`, `StopWait` and `StopClose` are the three
statements of Stop, `Dispatch` is the non-blocking send with its default
branch, `Receive` and `Exit` are the two cases of a worker's select,
`ProduceOk` and `ProduceErr` are the two answers of the producer. `Dispatch`
stays possible while and after Stop runs; on the closed channel the item is
lost (the send panics, HandleMessage recovers).

`RelaxedRelay` says what a caller may rely on: a bounded set of pending items,
from which an item leaves only while fewer than `Slack` older ones are inside,
and nothing after the relay is shut. The refinement mapping takes the queued
items and those in the workers' hands as pending, and the number of workers as
`Slack`.

### Gateway

`main` is the place main has reached: `init` (starting the dispatcher),
`launched` (the server runs in its goroutine, signals are not asked for yet),
`serving` (waiting for the signal), `stopServer`, `stopDispatcher` and `sync`
(its last statement and its deferred calls, in the order in which they run),
`exited`. `engine` follows gnet: `Boot` is the moment after OnBoot at which the
event loops begin to run, `Enter` the later one at which gnet.Stop can find the
engine; from `StopServer` on each loop ends between two callbacks (`LoopEnds`),
and gnet.Stop returns when all have (`EngineDown`, `ServerStopped`). A signal
before `Enter` makes gnet.Stop fail, which main ignores: `StopFails`. An
OnTraffic callback (`OnTraffic`, `OnTrafficReturns`) may call Dispatch any
number of times (`Report`): the module takes the actions of `DataDispatcher` as
they are, with main as its owner and the loops as its callers. `Killed` is a
signal before signal.Notify, which may strike while loops and workers are busy
already; `ServerFails` the logger.Fatal of the goroutine that runs the server;
both end the process without deferred calls. What gnet does is taken from how
the server uses gnet v2.2.9.

### SessionManager, SessionSweep, Handler

A session is the number of its `Store`, so that a greater number is a later
registration; `heap` keeps every session ever stored, as pointers to old ones
stay in use. The methods that touch shared memory twice are two actions with
the pointer they carry in `held`: Remove is `LoadAndDelete` and `CloseRemoved`,
UpdateLastActive is `TouchLoad` and `TouchStore`. `removed` and `closeReq`
record what Remove took and what it closed.

`SessionTable` says what a caller may rely on although pointers outlive the
map's entries and other goroutines come in between: a vehicle's entry is made
by a registration only, a refresh keeps its connection and gives it a time that
is at most `Delay` old, and a removal leaves one close of the connection it
found, to be done later. The refinement mapping takes the sessions in the map
as the table's entries, and the Removes between their two halves as the closes
owed. `TouchStore` is a refresh when its pointer is still the vehicle's entry
and nothing otherwise. What the table does not promise is that a removal finds
the entry its caller has looked at; that is the run `SweepVictim`.

`SessionSweep` adds the sweeper (`SweepStart`, `SweepSkip` or `SweepVisit` per
key, `SweepRemove`, `SweepClose`, `SweepEnd`) with the guarantees of
`sync.Map.Range`: every key that stays is visited once, with the value it has
then. `time.Now()` may be up to `Delay` ticks old when its value is written.

`Handler` makes each connection a process. `PlatformLoginAccepted`, `Refused`,
`VehicleLoginAnswered`, `Logout`, `RealTime` and `OtherCommand` are the
branches of HandleMessage up to their first use of the session table; the
`Continue` actions are the rest. A request that cannot be parsed, or whose
handler panics before it reaches the table, is `Refused`. `CloseRequested` is
the queued close. After a logout the connection may still handle packets that
were sent behind it, as in the code.

### RabbitMQProducer

A step is what happens between two releases of the mutex. `mu` names the holder
only while connect dials with the mutex held. Connections are numbered; `cur`
is `p.conn`. A dial whose channel or declarations fail closes its own
connection and is `DialFail`. `ConnectionLost` and `ChannelException` are the
broker's and may happen at any time.

### PacketScanner

One step is one call of SplitFunc and what OnTraffic does with its answer, so
the actions are its returns: `DropGarbage`, `SkipToStart`, `SkipStart` (too
large, or a bad checksum), `Deliver`, `Return` (more bytes are needed). The
width of a byte, the two start characters, the size of the header and the limit
are constants: TLC runs with two-bit bytes, a header of four and a limit of
ten; the proofs hold for 8, 35, 36, 24 and 65535 as well. The fields of the
header other than the length are payload here. The frame itself is in
`PacketFormat`, which also says what packets a stream in one piece contains:
`PacketsFrom` gives them from every position on, `PacketsOf` from the first.

### Replies

One action per kind of answer: `PlatformLoginAccepted`,
`PlatformLoginRejected`, `VehicleLoginRefused`, `VehicleLogin`, `Logout`,
`RealTime`, and `Unanswered` for everything that ends without a reply (a body
that is too short, a panic, a report whose units are refused or that asks for
no reply, another command). A request is a packet as parseRawPacket makes it of
bytes the scanner hands on, so VINs come trimmed. `EncodePacket` puts every
byte of the reply in its place and `out` is what the connection's peer
receives. `VerifyChecksum` and `CalculateChecksum` are written independently:
the one compares the last byte bit by bit, the other picks the byte with the
right bits. Scanned with `PacketsOf` and read with parseRawPacket, `out` must
give back one reply per answered request. Sizes are constants as in
`PacketFormat`; VINs are two bytes long, the data units as long as the code's
parsers ask for.

### RealTimeReport

The walk and the thirteen parsers it calls, reduced to lengths. A report is its
number of bytes; the type byte and the counts inside a unit are read once each
and may be anything, so they are chosen when they are read. What a parser reads
and what the handler skips are computed in different files, and kept in
different tables: `Fixed`, `Counted` and `Lists` are the parsers' numbers,
`Skip` the handler's. Units are of four shapes: of one size (`FixedUnit`), with
counted entries that must all be there (`CountedUnit`), lists of packs whose
parsers take what is there (`ListUnit`, then one `ReadPack` per pack,
`EndList`), and three of their own (`AlarmUnit` of 2025, `SuperCapUnit`,
`CustomUnit`). `part` is the last unit that was parsed and dispatched, with the
bytes its parser read and the bytes the handler will skip; `Check` is the
comparison behind the switch. An alarm of less than five bytes makes the parser
panic, which ends the request like an error. What is dispatched for a unit is
the parsed unit, so `part` changes exactly when a unit is dispatched (or, for
`CUSTOM` and `UNKNOWN`, passed over).

## 3. The runs

| run | bounds | what it shows |
|---|---|---|
| Gateway | 2 event loops, 3 workers, channel of 2, 4 items | at most once, bounded overtaking, quiescent Stop, refinement of RelaxedRelay inside the whole process; the server stops before the dispatcher, the producer last; a signal ends the process; what was accepted is settled unless Stop begins or the process ends |
| SessionSweep | 2 vehicles, 2 connections, a caller beside the sweeper, 3 sessions, clock to 2 | table and closes stay right under sweeps; a sweep is complete; refinement of SessionTable |
| SweepVictim | the same | **violated**: a sweep closes a session that has not expired |
| Handler | 2 connections, 2 vehicles, 5 requests | table, closes, logins; a removed session's connection is closed |
| AutoRegister | 2 connections, 1 vehicle | **violated**: a report replaces a session that is not missing |
| DeadSession | 2 connections, 2 vehicles | **violated**: a dead connection's session stays for ever |
| RabbitMQ | 1 caller, 3 connections | no lost wake-up; closed for good; the link is repaired, by a monitor or by a Produce; Produce returns |
| RabbitMQNeedless | 1 caller, 2 connections | **violated**: a working connection is replaced |
| PacketScanner | streams of 11 bytes over 3 values, pieces of 1 or 2 | packets do not depend on the pieces; nothing but shadowed packets is lost; bounded buffer; every scan ends |
| Replies | 2 answered requests, three-bit bytes, VINs of 2 bytes, bodies of 0 to 40 bytes | replies scan as packets, match their requests and carry their time |
| RealTimeReport | reports of up to 40 bytes, counts up to 3 | nothing is read beyond the report; the walk resumes where the parser ended; acknowledged means parsed; refused for a reason |
| IncompleteList | reports of up to 24 bytes, counts up to 2 | **violated**: the remains of an incomplete list are parsed and dispatched |

The bounds are the smallest at which the interesting cases happen. Three
workers and a channel of two let the channel fill while an item is overtaken by
others of different age; two event loops let one of them still report while the
other has ended. Two vehicles, two connections and five requests let a vehicle
move to the other connection and back, two callbacks interleave on one vehicle,
and one connection carry two vehicles; three and more connections are covered
by the theorems. Three connections of the producer let a loss happen while
another is being repaired and once more afterwards. Eleven bytes hold two
smallest packets and a false start, or one packet inside another's data; a byte
more than the limit has to be turned away. Forty bytes hold the time, a list of
several packs and two or three further units, or a largest fixed unit with
others on both sides; counts up to three leave none, one and several packs,
complete and cut. The bodies of requests are of every length next to a limit of
a parser, and their bytes may all be start marks. What one caller of Produce
leaves open, several callers, is covered by the proofs. Deadlock checking is
off where the model may stop: after the process has ended, when the bounded
requests, connections or bytes are used up, or when nobody calls.

Symmetry is used only where no liveness is checked (the sweep), over processes
and names that the specification, and SessionTable, treat alike.

**Fairness.** Goroutines that can run do run. A worker's select chooses at
random between ready cases, so it does not ignore a cancelled context for ever
(strong fairness of `Quit`). An event loop runs a callback to its end and takes
queued closes and the order to end between callbacks, so a busy connection is
closed as well and a busy loop ends (strong fairness of `CloseRequested` and of
`LoopEnds`). main, the engine and the loop of OnTraffic go on when they can. A
waiter of a `sync.Mutex` gets it (Go's mutex hands itself over after a
millisecond), so a step that locks is strongly fair. A broker that is dialled
for ever is reached some time (`LoopOk`). Produce returns: Kafka's writes are
asynchronous, and amqp091 bounds a dial by a timeout and the life of a broken
connection by its heartbeat; for RabbitMQ the run `RabbitMQ` shows it
(`ProduceReturns`). Peers, operators, callers of Produce and faults have no
fairness.

## 4. The proofs

All eight proof modules check completely; each theorem holds for every value of
the constants that satisfies the module's named assumptions.

| module | theorems | inductive invariant |
|---|---|---|
| `GatewayProofs`, the dispatcher alone | TypeCorrect, PublishedAtMostOnce, OvertakingIsBounded, StopIsQuiescent, DispatcherImplementsRelay | type, at most once and overtaking, strengthened by `Lifecycle` (the WaitGroup counts the live workers; context, phase and channel agree) and `ChannelOrder` (the channel is sorted and holds the youngest items) |
| `GatewayProofs`, the process | GatewayUsesDispatcher, GatewayTypeCorrect, ServerIsStoppedFirst, ProducerIsClosedLast, GatewayImplementsRelay | the dispatcher's, and `Shutdown` (where main is tells how far dispatcher, engine and producer have got) |
| `SessionManagerProofs` | lemmas, one per operation for the invariant and one for the table | `SMInv`: the table properties and `Carried` (what a caller carries between the halves of a method exists, and was removed if it is to be closed) |
| `SessionSweepProofs` | TypeCorrect, TableIsUpToDate, ClosesAreOwed, SweepIsComplete, WorksLikeATable | `SMInv` and `SweepControl` (where the sweeper is) |
| `HandlerProofs` | TypeCorrect, TableIsUpToDate, ClosesAreOwed, WelcomeIsKept, LoginNeedsPlatform, WorksLikeATable | `SMInv` and `Control` (who is inside the session manager; a set flag was earned) |
| `RabbitMQProducerProofs` | TypeCorrect, WakeupIsNeverLost, CloseIsFinal | `Control`: who holds the mutex, the current connection is the last one dialled, a monitor that has left its post has seen its connection go |
| `PacketScannerProofs` | TypeCorrect, MemoryIsBounded, PacketsAreReceived, LossesAreShadowed, SegmentationDoesNotMatter, ScanShortens | `BufferIsTail` (the buffer is the end of the stream), `Passed` (each start mark passed lies in a packet, follows a start mark or is hopeless), `Ahead` (however the stream goes on, its packets are those handed on and those found behind the bytes consumed) and `Waits` (OnTraffic rests only when it needs more) |
| `RepliesProofs` | RepliesTypeCorrect, RepliesAreFound, RepliesAreMatched, TimesAreEchoed, RepliesAreReadBack | `RInv`: the four properties and `Settled` (however the bytes go on, the packets found so far come first and end where they end) |
| `RealTimeReportProofs` | TypeCorrect, UnitsAreAdjacent, SuccessIsParsed, OverflowHasReason | `ListControl` (a list that is short of cells is short of a further head) and `CheckControl` (a unit longer for the handler than for its parser does not fit) |

Why the strengthening is needed: that Stop is quiescent follows from `wg =
Cardinality(Live)`, without which `wg = 0` says nothing of the workers. That
overtaking is bounded needs the channel to be sorted, since a worker that takes
the head must take the oldest. That a wake-up is never lost needs the monitor
of the *current* connection, hence that `cur` is the last one dialled. That
packets are pieces of the stream needs the buffer to be its tail. That no
packet is lost without a reason needs a reason for every start mark the scanner
has passed that further bytes cannot undo, and, because the next byte may make
a start mark of the last one consumed, that an empty buffer follows a packet.
That units are adjacent although lists are read as far as they go needs every
pack that is cut short to be the last one with a head, which holds because a
cell is shorter than a head; and it needs the handler's table to give the
parsers' numbers for every kind and every count (SkipsAreSizes).

That segmentation does not matter needs a statement about all streams that
begin with the bytes received, since later bytes may complete what is in the
buffer; `Ahead` is that statement, and each answer of SplitFunc is a step of
the reference's own search. The replies need it for the same reason: that a
reply is found, whatever start marks it contains, is a fact about every
continuation.

**Recursive definitions.** `Power2` and `PacketsFrom` are recursive functions,
that is, a choice of some function that solves an equation, and say nothing
until a solution is known to exist. The library's rules of induction cannot be
instantiated here, as they take a predicate; but that `<` on the naturals is
well-founded is stated without one, so every set of numbers has a least element
(LeastOf), and a set that holds zero and the successors of its numbers holds
all of them (InductionOverNat). With sets for predicates this builds the
solutions (Power2IsDefined, PacketsFromIsDefined), and gives a byte for every
choice of its bits (ByteOfBits), hence a checksum for every packet
(ChecksumFacts).

RepliesAreReadBack puts the two together: when a peer runs OnTraffic on what
the gateway writes, and all has arrived and been scanned, it has one packet for
each answer, with that request's command and vehicle, however TCP cut the
bytes. It needs no invariant of its own: it follows from
SegmentationDoesNotMatter, RepliesAreFound and RepliesAreMatched, because the
two specifications meet in `PacketsOf`.

GatewayUsesDispatcher is a composition as well: every step of the process is a
step of the dispatcher or leaves it alone, so `GatewaySpec => Spec`, and what
is proved of the dispatcher alone holds inside the process. ScanShortens is the
safety half of `ScanEnds`: each turn of the loop uses up bytes.

The proof that the dispatcher implements the relay maps each step: `Dispatch`
to Accept or Refuse, the producer's answers to Leave, `StopClose` to Shut, all
else to stuttering. Leave needs a bound on the older pending items, and gets it
by counting: they are all in other workers' hands.

That the session manager implements the table is proved once per operation, in
`SessionManagerProofs`, and holds whoever calls: for the sweep among arbitrary
callers and for the handlers of all connections (WorksLikeATable in both
modules). A late write needs LatestWins, by which a session is the entry of its
own vehicle or of none, so that a write through an old pointer changes one
entry or nothing. The closes owed are counted, so the proof assumes that the
callers, which are goroutines, are finitely many (CallersFinite).

What the proofs assume of the sizes is named in the modules and holds of the
code: a header of four bytes or more that is smaller than the limit, two
different start characters, a header that is seven bytes longer than a VIN, a
reply that fits the limit and the length field, a request flag that is neither
zero nor one of the two answers. The bounds of the runs (`MaxStream`,
`MaxReplies`, the bodies received and so on) may be anything in the proofs.

Only model-checked: liveness (`GatewayExits`, `AcceptedIsSettled`,
`RemovedIsDisconnected`, `LossIsRepaired`, `ProduceRepairs`, `ProduceReturns`,
`ScanEnds`), which needs ENABLED and is out of the provers' reach. Every
invariant and every action property that a passing run checks is also a
theorem, and so are the refinements of RelaxedRelay and SessionTable.

## 5. What the checks found

* **A sweep closes the wrong session** (`SweepVictim`). CheckHeartbeat judges a
  session through its pointer and calls `Remove(sess.VIN)`, which takes
  whatever session the vehicle has by then. A vehicle that logs in again at
  that moment is cut off (`session_manager.go:81-83`).
* **Auto-registration is not atomic** (`AutoRegister`). Get and Add in
  handleRealTime are two steps: two connections both register
  (`handler.go:225-227`).
* **Nothing evicts dead sessions** (`DeadSession`). OnClose only logs and
  CheckHeartbeat has no caller, whereas the project's README says that the
  session manager evicts connections that time out. As Get keeps finding the
  dead session, later reports do not register their own connection.
* **A working connection is replaced and leaked** (`RabbitMQNeedless`). A
  Produce that saw the channel closed signals after it has released the mutex;
  the token is consumed after the repair, and connect overwrites the connection
  without closing it (`producer.go:211-214`, `:162`).
* **The remains of an incomplete list are taken for units** (`IncompleteList`).
  The parsers of lists stop at a pack whose head is cut off ("Stop parsing if
  incomplete", `model_storage.go:150`) and report no error; handleRealTime goes
  on at the first byte of that pack as if it were a type byte, and dispatches
  what it finds (`handler.go:367-370`, `:504`).

Noted while modelling, without a sentence of the repository to hold it against:
a logout on any connection removes the vehicle's current session and closes
that session's connection, also for the other vehicles it carries; a report
sent right behind a logout registers the vehicle again on the connection that
is about to close; a dial that is under way during Close clears `isClosed`
(`producer.go:164`), which is why ClosedForGood speaks of the time after such a
dial; a packet after a false start of three equal characters is lost, as
SkipStart steps over both bytes (the last case of LostPacketsAreShadowed). A
signal within the first moments finds no engine to stop; main goes on to stop
the dispatcher while event loops run, a report that reaches Dispatch after that
panics on the closed channel, is recovered by HandleMessage and is lost, and
the process ends all the same (`stopFailed` in `ServerStopsFirst`). A rejected
platform login is answered with an error that says the connection is refused
(`handler.go:114`), but the connection stays open and keeps the authentication
it may have had. Replies begin with `##` also when the request began with `$$`.
kafka-go refuses a message with a topic when its writer has one, and the Kafka
producer gives both (`producer.go:28` and `:58`).

## 6. Not modelled, and why

* The conversion of the units' fields to physical values: arithmetic on single
  fields, for unit tests.
* Kafka: a stateless wrapper; batching, retries and the treatment of the topic
  are the library's. The dispatcher sees a Produce that returns.
* Configuration, logging, JSON payload, test client: no behaviour of the
  gateway's own.

## 7. Plan

Done, in this order: dispatcher with its abstract relay; session manager, sweep
and handler; RabbitMQ producer; packet scanner; real-time report; proofs of
each; the composition of main, server and dispatcher, with the proof of the
shutdown order; the replies, read back by the scanner; the proofs that a scan
gets on, loses no packet without a reason and does not depend on the pieces;
the proofs about the replies, and about replies and scanner together; the
abstract table and its refinement by the session manager.

Left:

1. An abstract connector that RabbitMQProducer implements; its invariants are
   proved directly so far.
2. The Kafka producer against a model of the library's writer.
