# Verification of GameService

TLA+ models of the game server in this repository, the TLC runs that check them
on small instances, and TLAPS proofs of their main invariants for every
instance. `PROJECT.json` maps every modelling definition to the source lines it
stands for and lists runs, mutants, hazards, findings and theorems.

## 1. The system

| part | source | state it keeps | operations |
|---|---|---|---|
| connection layer | `AsyncAcceptor.h`, `Socket.h`, `NetThread.h` (copied in `NetWork/`) | per thread `_connections`, `_fresh_list`, `_socket_list`; per session `_closed` | accept chain, thread selection, `AddSocket`, receive handlers, `Update` every 10 ms |
| world sessions | `WorldSession.*` | the global `g_player` | `InitializeHandler`: create, enter game, other commands |
| player | `Player.*` | id, session, data, callbacks | `Load`, `Save`, `CmdLogin`, `CmdEnterScene`, `CmdMove`, inventory |
| entities, registry | `Entity.*` | position, scene; `_entities` under a mutex | enter scene, move, broadcast; `Add`, `GetEntity`, `Erase` |
| scenes | `Scene.*` | two hash tables from cell to ids | `EnterScene`, `UpdatePosition`, `GetNearByEntities` |
| hosters | `Hoster.*` | set of residents | load at start, random move once a second |
| message dispatcher | `MessageDispatcher.*`, `PriorityQueue.h` | heap of messages under a mutex | `SendMessage`, the dispatcher thread |
| protocol table | `Protocol.*` | one prototype message per type | `Load` at start, `GetMessage` |
| persistence | `RedisManager.h` | `player_counter`, `player:<id>` in Redis | `CreatePlayer`, `GetPlayer`, `SavePlayer` |
| world loop | `Main.cpp`, `World.*`, `Timer.h` | heart count, sleep time | `Load`, then `Update` every 50 ms |
| assets | `Asset.*` | tables by id and by type number, filled at start | `Load`, `Get`, `GetMessagesByType` |
| authentication server | `AuthServer/` | ticket table | its own sessions, ticket clean-up every 10 s |
| items, utilities | `Item/`, `CommonUtil.h`, `Log.*` | - | pure |

**Threads.** Five threads run the io_service of `Main`, on which one accept is in
flight at a time. Each network thread (five in `Main.cpp:109`, one by default)
runs an io_service of its own: the receive handlers of its sessions and its
`Update`, one at a time. The World thread moves the hosters. The dispatcher
thread delivers messages. Locks exist in three places only: `_fresh_mutex`, the
mutex of the priority queue, the mutex of `EntityManager`. Scenes, entities,
`g_player` and the prototype messages are shared without one.

**Interaction.** The accept callback makes a session, starts its first read and
hands it to a network thread. A handler parses a message into the shared
prototype of its type and acts on `g_player`. Entering and moving change the
tables of a scene and send a message to each neighbour through the dispatcher,
which looks the receiver up in `EntityManager` and calls `HandleMessage`.

**What is hard.** Handing a session over after its handlers already run; counters
read by one thread and changed by another; references into a heap that changes;
a two-table index changed in four unlocked steps while others search it;
check-then-assign on a global pointer; destructors that take a lock already held;
Redis failing half-way, and restarts; a byte stream read as if it were messages;
32 bit clocks and counts that wrap, and a system clock that is set; start-up that
ignores most of its errors. `hazards` in `PROJECT.json` has them by line.

## 2. Modules

| module | models | checked by | proved in |
|---|---|---|---|
| `SessionLifecycle` | what the connection layer promises: a session is new, open, closed, released, in this order, or falls silent when its handler returns without closing it or reading on; only its own handler closes it; a closed one is released in the end, or all are lost with the process where a closed one is dropped | as a `PROPERTY` of `NetThread` | refined in `NetThreadProofs` |
| `NetThread` | connection layer | itself, `NetThread.cfg` | `NetThreadProofs` |
| `Dispatcher` | dispatcher, priority queue, `HandleMessage` | `MCDispatcher` | `DispatcherProofs` |
| `SceneIndex` | entities in scenes, hosters, player moves | `MCSceneIndex` | `SceneIndexProofs` |
| `PlayerSession` | receive handler, `g_player`, registry, Redis | `MCPlayerSession` | `PlayerSessionProofs` |
| `Stream` | what the receive handler makes of the TCP stream | itself, `Stream.cfg` | `StreamProofs` |
| `Startup` | `main()` up to the loop: protocol table, assets, scenes, hosters, network | `MCStartup` | `StartupProofs` |
| `WorldLoop` | `WorldUpdateLoop`, `World::Update`, `Timer.h` | itself, `WorldLoop.cfg` | `WorldLoopProofs` |

Each module's header says how its steps correspond to the code. In short:

* **NetThread.** The accept chain is a process with a program counter: two steps
  per turn of the selection loop (two atomic loads), arming, the accept callback
  up to `Start()`, and `AddSocket`, the last two apart because the handler may run
  between them. An accept may fail, leave its socket open (`jammed`, when
  `non_blocking()` throws), and from then on fail at once on that thread
  (`AcceptIntoOpen`). A network thread is a set of handlers and the sweep
  `UpdateBegin`, `SweepKeep`/`SweepDrop` per socket, `UpdateEnd`. Where a list lets go
  of a session, `~Socket` may throw and end the process (`Terminate`). `ChecksClosed`
  tells `Socket::Update` from the overriding ones, which return true always. The
  refinement mapping `View` computes the phase of each session from its lists.
* **Dispatcher.** What `GetNext()` returns is a reference to element 0 of the
  vector of the heap; the model keeps element 0, the capacity, and whether the
  reference still points into the live buffer. The dispatcher and the receiver
  read the delay twice, the time, receiver, type, content and content again through
  it, each in a step of its own (`TestDelay`, `CopyDelay`, `CompareTime`, `Route`,
  `Handle`, `ParseContent`, `Tell`). Reading dead
  memory gives the old content or `Garbage`. `IsInSight` compares positions that
  belong to `SceneIndex`; here it says yes or no. `std::priority_queue` is used by
  contract: the top is a best element, any of them among equals.
* **SceneIndex.** One step per access to a table; a search reads one cell per step.
  Positions are counted in
  halves, `Cell` truncates towards zero as the conversion of `float` to `int32_t`
  does. `set_intersection` is the merge it is, run over any order of the two
  unordered sets.
* **PlayerSession.** One step per access to `g_player`, a prototype, the registry
  or Redis. `Account` is the id a client's ENTER_GAME asks for, any id at all;
  `unissued` remembers that one was asked for that `INCR` had not given out. Object
  lifetime is reference counting by `g_player` and the registry. `Crash` loses memory
  and keeps Redis.
* **Stream.** A message is two fields of `FieldLen` bytes; a read takes any part of
  what was written that fits into `_buffer`, whose old bytes stay behind it. Parsing
  is by the rules of protocol buffers: whole fields only, the last of a repeated
  field counts, a missing one has its default. The stuff of a message, its own or
  that of another type, may fail to parse, which closes the session (`StuffFails`).
  `Act` is the game logic reduced to its early returns; `handled` logs which type was
  acted on with whose data.
* **Startup.** One step per directory entry, in any order; one per hoster. The disk
  is chosen in `Init`: which directories exist, which files are bad (unreadable, empty
  or too long) and which are garbled (do not parse: their ids are whatever was parsed
  or lay in the buffer, and nobody notices). Tables by type are keyed by the default of
  `type_t`, so a message with the default of another one stands in its table and a
  cast fails (`CastFails`).
* **WorldLoop.** One turn of the loop is `ReadTime`, `Update`, `Decide` and, if it is
  early, `Sleep`. `clock` is what `GetTime()` returns and wraps at `Half` (2^31 in the
  code); `lead` is real time, which the loop cannot see. `SetForward` and `SetBack`
  are somebody setting the system clock between any two steps.

The modules share no variables. `Startup` ends where `WorldLoop` and `NetThread`
begin; `WorldLoop` says when a pass over the hosters is due and `SceneIndex` what it
does; `Stream` says what reaches the handler of `PlayerSession`, and `Dispatcher` what
becomes of the messages `SceneIndex` sends.

Operators whose comment says "Mutant" are the faulty forms that the mutant list
substitutes, to show that each property can fail.

## 3. Runs

States are distinct states found.

| run | bounds | states | shows |
|---|---|---|---|
| `net` | 2 threads, 3 connections | 190k | exact counters, sessions at home, even spread until the first close, lifecycle with liveness, an accept asked for again after every outcome |
| `net_leak` (violation) | 1 thread, 2 connections, `Update()` always true | | closed sessions are never released |
| `dispatch_queue` | 3 messages, a player and a hoster, 2 priorities, dead memory reads as anything | 669k | nothing lost or repeated, urgent first, drained once the senders stop, no more calls than messages taken |
| `dispatch_took` (violation) | 3 messages with default priority | | the message handled is not the one taken |
| `scene_client` | 1 hoster, 1 player, 1 client, 3 destinations | 922k | hosters undisturbed, stale entries near home, reach of broadcasts |
| `scene_players` | 2 threads on one player, 2 scenes, symmetry | 2.8M | a Player in a scene stays listed there |
| `scene_stale` (violation) | 1 player | | stale entries |
| `player_serial` | 2 clients on one thread, accounts 1 and 2 of which only 1 was given out, Redis may fail, 2 creations, restarts | 265k | registry finds by id; records kept; unique ids and handlers return until an id is entered that was not given out |
| `player_ids` (violation) | 2 clients on two threads | | two Players with one id |
| `stream` | 4 messages of any kinds, a buffer of two and a half | 90k | in step with the stream, nothing twice, nothing stale, whole messages served, reads on |
| `startup` | 5 directories, 7 files, 1 bad, 1 garbled, two type numbers copied from other messages | 3.4M | tables agree, faults stay local, hosters homed |
| `loop` | period 2, 5-bit integers, work 2, oversleep 1, clock set by 2 | 3.0M | never ahead, sleep bounded, hosters moved in time, no overflow |

**Why the bounds are enough to be interesting.** Two threads and three sessions
let one session be accepted while another is swept and a third waits in
`_fresh_list`; more threads make the selection loop take more turns, which the
proofs cover. Three messages cover an empty, a last and a growing heap. The hoster is born half a
unit from zero, so one move crosses the fold of the cells. Two clients are what
every race on `g_player` needs, and two creations let a registered player be
replaced twice; an account above the counter is met by the next creation. With
`Sight` 0 in `scene_players` a search reads one cell; what is stated there is about the
tables only. Two threads, a hoster and moves in one run are out of TLC's reach; that
what `scene_client` shows holds with any number of threads is proved. A buffer of two and a half messages lets a read hold two messages,
end behind a type, and leave whole fields of an earlier read behind it. The seven
files hold two scenes under one id, a hoster with a scene and one under the same id
without, and two files in the tables of other types. With 5-bit integers both clocks wrap several times, and `PassEvery` does not
divide 2^5, as 20 does not divide 2^32. `MaxId` bounds the counter of players,
`MaxNow` the clock of the dispatcher, `N` the messages of a client, `MaxBad` and
`MaxGarbled` the faulty files, `Objects` the Players there ever are (more than `ObjectsAssumption` asks
for, so that a free one is always left), `MaxWork`, `MaxOver` and `MaxSkew` delays and clock settings, and
`MaxLate` how far lateness is counted.

**Deadlock** is checked in all runs but `stream`, where the client may stop sending
and the session may have ended.

**Fairness.** `NetThread`: the accept chain outside `async_accept` (an accept into a
socket that is open fails without a client and belongs to it) and the sweep of each
thread (the timer is armed again at the start of each `Update`), while the process is
up. `Dispatcher`: the dispatcher thread, an endless loop that holds no lock across
steps; the senders may stop, and `Drains` speaks of the time after the last message.
`PlayerSession`: a handler that has started. `Stream`: a read returns when there is
something to read. `SceneIndex`, `Startup` and `WorldLoop` have safety properties only.
Nothing is assumed of clients, of accept errors, of Redis, of crashes.

## 4. What the runs found

Each violation run has a finding that quotes the comment it contradicts.

* `net_leak`: closed sessions stay in `_socket_list` for ever, because the sessions
  override `Update()`.
* `dispatch_took`: `GetNext()` returns the element that replaced the popped one; the
  message taken is lost and the next one is handled twice.
* `scene_stale`: `StepMove` leaves the entry of the previous position in the index.
* `player_ids`: with several network threads `g_player` can be replaced between check
  and use: two Players with one id, and a destructor that waits for its own mutex.

The modules also state properties that TLC refutes and that have no run of their
own; adding one to a cfg shows its trace:

* `ReachesItsReceiver` (`MCDispatcherTook.cfg`): a send between the read of the
  receiver and the call gives an entity a message addressed to another one.
* `DelayHonoured` (same): the send time is set on the wrong copy, so a delay is over
  at once.
* `ReportOfOne` (same): a report to a client has the id of one entity and the
  properties of another, because the content is read twice.
* `AcceptsForReal` (`NetThread.cfg`): a thread whose accept socket was left open
  has no connections, is therefore chosen each time, and the server accepts nobody.
* `NoNullScene` (`MCSceneIndexPlayers.cfg`): an ENTER_SCENE with an unknown id on another
  thread sets the scene to null between its test and its use.
* `AllIndexed` (`MCSceneIndexPlayers.cfg`): with two threads a Player is left at a cell it
  is not in. With one thread too: a login sets the position without telling the scene,
  which shows in the second scene a Player enters; in the first one (`MCSceneIndexClient.cfg`)
  the stale entry of the stored position hides it.
* `FindsItself` (`MCSceneIndexClient.cfg`): `set_intersection` is given unordered sets and
  misses common ids, the searcher's own among them, which `Scene.h:59` says is included.
* `NoUseAfterFree`, `ActsOnOwnMessage`, `HandlerReturns` (`MCPlayerSessionIds.cfg`): a
  Player is destroyed while a handler is inside it; a handler acts on the message
  another thread parsed into the same prototype; a handler waits for its own mutex.
* `UniqueIds`, `HandlerReturns` (`MCPlayerSessionSerial.cfg`): also with one network thread,
  ENTER_GAME takes any id, and a later CREATE_PLAYER gives the same one out. From there a
  further CREATE_PLAYER makes `Erase` destroy a Player under the mutex its destructor
  wants.
* `SavedOnCreate`, `OwnPlayer`, `KeepsReceiving` (`MCPlayerSessionSerial.cfg`): a failed
  save nobody notices; one Player for all sessions; early returns that leave a
  connection open and unread.
* `RecordKept` on two threads (`MCPlayerSessionIds.cfg`): CREATE_PLAYER saves whatever
  `g_player` points to by then, and a stored record is overwritten by a blank one.
* `MetaWhole`, `NothingSkipped` (`Stream.cfg`): a read that ends behind a type acts on it
  without its data, or with that of the message before; of two messages in one
  read the first is lost.
* `BadFileStops` (`MCStartup.cfg`): a bad file ends its own directory only, in silence, and
  the server starts, although `Asset.cpp:77` says that one problem is enough to leave.
* `SceneIsItsAsset` (`MCStartup.cfg`): of two scene files with one id, the scene may be
  one and `Get(id)` return the other.

What `loop` shows is also a warning: a system clock that is set back by k ms stops
the World for k ms, since the loop does not use a steady clock.

With one network thread (`player_serial`) the races on `g_player` and on the
prototypes are gone; the run shows that this keeps the records, but keeps ids unique and
the mutex free only while clients enter with ids that were given out.

## 5. Proofs

All proofs are for arbitrary constants under the named assumptions of the
modules (finite sets, well-typed tables, at least one thread). Every invariant and
every action property of a passing run is proved; so is the safety part of the
refinement.

Some theorems have a hypothesis besides, because the property is false without it. It
is a hypothesis of the theorem and not an assumption of the module, so that the same
module has the runs that refute the property when it does not hold.

* `OneThread` (`PlayerSessionProofs`): all clients are at home on one network thread,
  the default of `StartNetwork` (`Main.cpp:109` asks for five). `player_ids` is the
  counterexample with two.
* `~unissued` (inside `UniqueIfIssued` and `MutexCorrect`): no ENTER_GAME has asked for an
  id that was not given out yet. `UniqueIds` and `HandlerReturns` under
  `MCPlayerSessionSerial.cfg` have the counterexamples.

`FoundByIdCorrect` (registry) and `NeverLostCorrect` (scene tables) hold for any number of
network threads and need neither.

* **NetThreadProofs.** Inductive invariant `IndInv`: types with integer counters,
  `PassOK` (what a sweep has still to visit and has dropped are disjoint parts of
  `_socket_list`), `ChainOK` (a session is being opened only between callback and
  `AddSocket`, and it is tracked nowhere), `TrackedAtHome`, `ConnAccounting`,
  `LiveKept` (an open session is in a list or being opened), `SelectionOK`
  (while nothing is closed, the selection's candidate is a minimum of the threads
  seen so far) and `Balanced`. The accounting alone is not inductive: a sweep
  decrements for a socket it drops, and only `PassOK` and `TrackedAtHome` say that
  it is counted once. From it: `TypeCorrect`, `AccountingCorrect`,
  `TrackedCorrect`, `BalancedCorrect` and the refinement `LifecycleRefined`.
* **DispatcherProofs.** The invariant adds to `Conservation` that element 0 holds a
  best waiting message, that the reference points to memory that held a message,
  and that the calls made are fewer than the messages taken while one is in hand.
  From it: `TypeCorrect`, `ConservationCorrect`, `CallsCorrect`,
  `UrgentFirstCorrect`.
* **SceneIndexProofs.** Only the World thread works on hosters (`OwnerOK`); a
  hoster's position is within its speed of its birth (`PlaceOK`); each stage of
  its move has done the inserts before it (`ProgressOK`); what was seen on the
  x axis is within sight (`SeenOK`). `CellShift` is the arithmetic: moving by whole
  units moves the cell by at most as much, across the fold at zero. From it:
  `TypeCorrect`, `HosterIndexedCorrect`, `LeashCorrect`, `HearsNearbyCorrect`.
  The players have no owner. For `NeverLostCorrect` the invariant says of each player
  (`KeptIn`) that it is listed on an axis of its scene, or some thread is about to enter
  it, or some thread is between the erase and the insert on that axis in that scene:
  every thread that erases inserts afterwards, and nobody else erases for good.
* **PlayerSessionProofs.** For any number of threads `TypeInv` adds to the types that
  each handler about to increment the counter finds room below the last id (`CountOK`,
  by the cardinality of the set of these handlers) and that a handler about to read the
  account from the prototype finds one there (`LocalsOK`). That `new Player` finds a
  free object is `FreshExists`: at most one object per id and per handler, and
  `g_player`, is taken.
  From it: `TypeCorrect`, and with `FoundById` itself `FoundByIdCorrect`: an address is
  only given to a new Player when no entry leads to it. Under `OneThread` the invariant
  adds `SerialInv`: handlers run one after the other (`SerialOK`), the prototype a handler
  reads holds its own message and the Player whose method runs is `g_player` (`OwnOK`),
  no record is above the counter (`RecordsOK`), which a restart keeps because Redis
  keeps it, and a Player being created has no record yet (`CreatedOK`): that gives the
  action property `RecordKeptCorrect` for any accounts. Until an id was asked for that
  was not given out, `IssuedInv` holds too: `g_player` is registered under its own id or
  not at all (`RegistryOK`), ids in use are not above the counter (`GivenOut`), an id
  about to be used is nobody's (`NewIdOK`), and a Player being destroyed has no entry
  (`EraseOK`). `UniqueIds` alone is not inductive: the step that assigns `g_player` needs
  `NewIdOK`, which needs `GivenOut` and `RegistryOK`. From it: `UniqueIfIssuedCorrect`, and
  `MutexCorrect`: the mutex is free between steps and no handler is stuck in it.
* **StreamProofs.** For any sizes and any segmentation. `SentOK`: the client writes whole
  messages; `HandledOK`: the fields acted on lie in the bytes read so far. With `InStep`
  a read that parses begins and ends between fields (`Parsed`, `ParsedPlace`,
  `ParsedNear`, over division with remainder in `Split`, `Place`, `PlaceUnique`), so what
  it finds lies behind everything handled before: that is `OnceInOrder`, and `EntryKeeps`
  is the step. `WholeServed` needs that a read of one message at a multiple of its
  length sees that message's two fields (`ParsedWhole`). From it: `TypeCorrect`,
  `InStepCorrect`, `OnceInOrderCorrect`, `NearStuffCorrect`, `WholeServedCorrect`.
* **StartupProofs.** For any disk and any numbering of the messages. `ReadingOK`: the files still to come are those of the
  directory being read; `CompleteOK`: each file of a sound directory is loaded or still
  to come; `HostersOK`: of the hosters already looked at exactly those with a scene are
  there, and what is registered is one of them under its own id. From it:
  `TypeCorrect`, `TablesAgreeCorrect`, `SoundDirsCorrect`, `HostersHomedCorrect`.
* **WorldLoopProofs.** `ClockOK` says that the clock shows the last reading moved on by
  what has passed and been set since; with `DiffCorrect` (`GetTimeDiff` of readings less
  than half a turn apart is exact, or one short where the numbers wrap) `diff` becomes
  real time. `LeadOK` is the argument: what the loop is ahead of real time is never
  more than the sleep still to come, which `SleepOK` bounds and `GoneOK` says is slept.
  `IdleOK` ties the beats since the last pass to the remainder of the count; at the
  wrap it needs `PassAssumption` on the remainder of 2^31, and `NextRemainder` and
  `OppositeRemainder` on division. From it: `TypeCorrect`, `NeverAheadCorrect`,
  `SleepCorrect`, `PassesCorrect`.

Only model-checked: liveness under fairness, which is out of the prover's reach
(`ImplementsLifecycle` with its liveness, `AcceptsAgain`, `Drains`, `ReturnsIfIssued`,
`ReadsOn`).

## 6. Limits

* An access to a hash table, a vector or a `shared_ptr` is one atomic step. The code
  does not guarantee that: unlocked `unordered_map` accesses from two threads may
  corrupt the table. The properties say what holds if they do not.
* Each cell a search reads is one step, and so are the test of `_locate_scene`, its use
  and each erase and insert; the test and the read of the scene at the head of a
  broadcast (`Near`) are one step, as are those at the head of `StepMove`.
* That `~Socket` ends the process is possible at any drop of a closed session: whether
  the peer is still there is not modelled.
* `OneCallPerPop` counts; which message a call is given is `HandlesWhatItTook`, which is
  refuted. That the queue grows, or starves a message, while senders go on for ever is
  outside three messages.
* A destroyed Player keeps its fields in `PlayerSession`; that the process may die
  instead is covered by `Crash`.
* The dispatcher's temporary reference to the receiver does not extend a Player's
  life in `PlayerSession`.
* A client's reconnection reuses its name; a Player whose session is a connection
  the client has given up counts as that client's.
* The vectors of sockets are sets; their order decides nothing that is stated.
* The timers have no duration outside `WorldLoop`: any interleaving of the passes is
  allowed, which includes the real ones.
* `Stream` keeps one session; that other sessions share `g_player` is `OthersEnter`.
  The messages of the client are well formed but for their stuff, which may fail to
  parse wherever it is not empty.
* `Startup` has one level of directories, as the repository has. An exception of the
  file system ends the process before there is anything to say about it. What a
  garbled file parses to is any of the ids in the other files, or 0. A server whose port
  is taken enters its loop all the same (`listening`); nothing reacts to it.
* `WorldLoop` assumes that less than 2^31 ms pass between two readings of the clock.

**Not modelled.** Code nobody calls: `StopNetwork`, `ShutdownThreadPool` (nothing sets
`_stopped`), `DelayedClose`, `Logout`, `LeaveScene`, `OnDeath`, `AddTicket` and with it the
clean-up of an always empty ticket table, the inventory and the items,
`IntervalTimer`, `TimeTracker`, `PeriodicTimer`, `RandomByWeight`. The bytes that are
sent: `async_write` is given a buffer that may be gone and may run twice at once on
one socket, and what that does depends on asio and the kernel. The bytes of files
and records, logging, files outside the build, generated and third-party code.

## 7. Plan

1. Done: the eight models of section 2 with their runs, and the proofs of section 5,
   which cover every safety property of the passing runs.
2. Abstract specifications of what `Dispatcher` and `PlayerSession` promise (a bag of
   messages each delivered at most once; a registry and a counter of ids), with the
   refinement checked and its safety part proved as for `SessionLifecycle`.
3. `Aoi`: `SceneIndex` and `Dispatcher` composed, against what a client is told of its
   surroundings.
