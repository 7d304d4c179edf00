# ZerosCore: a TLA+ verification project

ZerosCore is a game server in C++ (a descendant of TrinityCore for client 4.3.4). Two
programs run: `authserver`, which checks accounts and lists realms, and `worldserver`, which
keeps the world. This project models the parts of `worldserver` in which threads, queues and
lifetimes meet and the protocols whose mistakes would cost players their items, checks them with TLC on
small instances, and proves the central facts about the map tick, the login queue, the trade window, the grids, the
packet queue, the sockets and the database pool with TLAPS for every size.

Paths below are relative to `src/src/server/`.

## 1. Inventory

### Threads

| Thread | Runs | Shares |
| --- | --- | --- |
| world thread | `WorldRunnable::run`: `World::Update`, which calls `UpdateSessions`, then `MapManager::Update`, then the managers | everything below |
| map workers | `DelayExecutor::svc`: `MapUpdateRequest::call`, `Map::Update` | the activation queue, `pending_requests` |
| network threads | the ACE reactors of `WorldSocketMgr`: `WorldSocket::handle_input`, `ProcessIncoming`, `handle_close` | `addSessQueue`, `_recvQueue`, the throttler, `closing_`, `m_Session` |
| database workers | `DatabaseWorker::svc`, one per asynchronous connection | the activation queue of the pool, futures |
| console, RA, SOAP | commands, handed to the world thread through `cliCmdQueue` | `cliCmdQueue` |

### Components

| Component | State | Operations | Hard because | What makes it correct |
| --- | --- | --- | --- | --- |
| Map tick (`game/Maps`, `shared/Threading/DelayExecutor`) | `i_maps`, `m_InstancedMaps`, `pending_requests`, the activation queue, `m_mutex`, `m_condition` | create a map, schedule, execute, update, destroy an instance, wait, deactivate | workers schedule further work; the queue refuses work when full; instances are deleted during the loop, and base maps created | the single-threaded rest of the tick overlaps no update; no request outlives its map; ticks end |
| Sessions and login queue (`game/World`, `game/Server/WorldSession`) | `m_sessions`, `m_QueuedPlayer`, `m_playerLimit`, `m_disconnects`, `addSessQueue`, the session's flags | add, replace, queue, admit, log in, log out, kick, expire, shut down | reconnections, logins in flight, double removal, lost sockets at any moment | no dead session in the queue, the limit respected, nobody waits for nothing, one player per account |
| Packet queue (`WorldSession::Update`, `PacketThrottler`, `LockedQueue`) | `_recvQueue`, the throttler's counters, the locals of the loop | receive, filter, dispatch, put back, delete | a network thread adds while the loop runs and puts packets back | no deleted packet queued, order, every Update ends |
| Database pool (`shared/Database`) | the activation queue, the connections and their locks, the transactions at the server | enqueue, direct call, transaction, retry, reconnect, ping, close | failures in the middle of a transaction, reconnection, several workers, close with work queued | transactions happen whole or not at all, in the order of the queue; no connection stays locked; no operation waits for ever |
| World sockets (`game/Server/WorldSocket*`) | `closing_`, `m_Session`, output buffer and queue, reference count | open, receive, authenticate, send, flush, close, update | two locks, three threads, deletion of the session | no use of a deleted socket or, under a lock, of a deleted session; output in order, and missing only for a reason; closed sockets are freed |
| Grids (`game/Grids`, `game/Maps/Map.cpp`) | grid state, timers, unload locks, where things stand, `m_activeNonPlayers` | create, load, activate, idle, remove, unload, evacuate, move | things return while a grid is being removed, and wander off from it | nothing stands in an unloaded grid; a loaded grid misses no spawn; what is left alone is unloaded |
| Trade (`game/Handlers/TradeHandler.cpp`, `TradeData`) | `m_trade` of both players, offers, acceptances, the items and money of the two | initiate, offer, cast on an item, accept, exchange, cancel, log out | two sides, offers that go stale between the acceptances, partial failure of the exchange | both sides see the same terms; items and money are exchanged as agreed |
| Battleground queue, dungeon finder | queues, invitations, proposals | join, invite, accept, time out | a time-out races an answer | no slot given twice, everyone leaves the queue |
| Auctions, mail | bids, escrowed items and money | bid, cancel, expire, take | partial failure | items and money are conserved |
| Logon server | `_authed`, session key | challenge, proof, reconnect, realm list | order of commands | realm list only after a proof |
| Game rules (entities, spells, AI, scripts, movement, collision), tools, vendored code | — | — | — | not modelled; reasons in `PROJECT.json` |

The components meet as follows. `HandleAuthSession` (network thread) constructs a
`WorldSession` and hands it over through `addSessQueue`; `UpdateSessions` (world thread) takes it
from there, and from then on owns it. `ProcessIncoming` fills the session's `_recvQueue`; the
loop of `WorldSession::Update` empties it twice per tick, once in `UpdateSessions` and once in the
`Map::Update` of the player's map, each with a filter. Handlers that need the database start a
query whose future `ProcessQueryCallbacks` looks at once per Update. After the sessions the world
thread hands every map to the updater and waits; whatever follows relies on no worker being in a
map.

The hazards of this code, each at its line with the properties that would catch it, are the
`hazards` of `PROJECT.json`.

## 2. Modules

| Module | What it is |
| --- | --- |
| `MapUpdater` | the parallel map tick: `MapManager`, `MapInstanced`, `MapUpdater`, `DelayExecutor` |
| `MapTick` | abstract specification: what one tick promises, without threads, queue or mutex |
| `MCMapUpdater` | instances of it for TLC |
| `MapUpdaterProofs` | theorems about `MapUpdater` |
| `MapTickProofs` | `MapUpdater` implements `MapTick` |
| `SessionQueue`, `MCSessionQueue` | sessions, login queue, login, expiry, shutdown |
| `SessionQueueProofs` | theorems about `SessionQueue` |
| `PacketQueue`, `MCPacketQueue` | the packets of one session |
| `PacketQueueProofs` | theorems about `PacketQueue` |
| `DatabasePool` | the database layer: queued and direct operations, transactions, reconnection, close |
| `DatabasePoolProofs` | theorems about `DatabasePool` |
| `Trade`, `MCTrade` | the trade window of two players |
| `TradeProofs` | theorems about `Trade` |
| `WorldSocket` | one socket and the three threads that share it |
| `WorldSocketProofs` | theorems about `WorldSocket` |
| `ObjectGrids`, `MCObjectGrids` | the grids of one map, and what moves over them |
| `ObjectGridsProofs` | theorems about `ObjectGrids` |

An operator whose name ends in `_Missing`, `_Twice`, `_Never` and so on stands before the operator
it distorts and is marked "Mutant": it is how a plausible mistake at that place would look, and
putting it in the place of the original must make a property fail. No specification uses them.

### MapUpdater

The state follows the code: `activated_`, the activation queue and whether it accepts work,
`pending_requests`, the holder of `m_mutex`, and for every thread its place, the map it updates, the
map it is about to hand over and the maps ahead of its iterator. `updated`, `skipped` and `torn` are history
variables of the current tick.

* `schedule_update` is two steps, because the mutex is held from the increment to the end of
  `execute`: `schedule_update` takes the mutex, counts and builds the request; `execute` enqueues it
  or, when the zero-timeout enqueue fails, takes the count back.
* `wait` is one step from the acquisition of the mutex to the sleep or the return, as the condition
  variable releases the mutex when it sleeps. A wakeup, by broadcast or spurious, leads back to the
  test.
* `UpdateMap` is `Map::Update` as a whole; for a base map of instances it is followed by the loop of
  `MapInstanced::Update`, one step per instance (`ScheduleInstance`, `DestroyInstance`,
  `KeepInstance`, or `UpdateInstanceInline` without threads).
* `CreateMap` is the creation of maps outside the parallel part: by the sessions, and, for base maps, by the transports after the
  barrier (`Transport.cpp:500`). `CreateBaseMap` is the creation of a base map by the code of a map that is being
  updated (`Unit.cpp:17673`, `GetAreaFlag` in `MapManager.h:44`), on any thread. The insertion into `i_maps` is under `Lock`, but the loop of
  `MapManager::Update` over `i_maps` takes no lock. The new map may come to lie ahead of the iterator (`InsertAhead`) and
  is updated in this tick, or behind it or after the loop (`InsertBehind`) and is counted as skipped; or the
  insertion makes the hash table grow (`InsertGrows`), the iterator is invalid, and the base maps it still visits are any set of them. `torn`
  records this for the rest of the tick.
* `Initialize` chooses between a threaded updater and `MapUpdate.Threads = 0`.
* `UnloadAll`, `WaitDeactivate`, `deactivate` and `Join` are the shutdown in the code's order: maps are
  deleted first, then the pool is emptied and joined.

Bytes in the activation queue are abstracted to a capacity `QueueCap` in requests. The
condition variable and the queue are ACE's (vendored) and are modelled from their use.

`MapTick` says what is promised: in a tick, live maps are updated one at a time and at most once,
instances are deleted only before their update, and the single-threaded rest begins only when
every live map was updated or given up. Base maps may appear inside the tick (`CreateLate`); once one has rebuilt the table under
the loop (`Tear`) nothing is promised for the rest of that tick but that it ends in `DelayedUpdate` (`Astray`), and the next tick
promises everything again. `RequestsReferToLiveMaps` and `UpdatedOncePerTick` are about ticks that are not torn in
the same way; `BarrierHolds`, `NoFinishBug` and `TickEnds` are about all of them. The refinement mapping maps the world thread's place to the
phase of the tick (`Phase`); the other variables keep their names.

### SessionQueue

`world` is a record of what the world thread owns: `m_sessions` (by account), `m_QueuedPlayer`, the
set of session objects not yet deleted, and the fields of each session. Because
`RemoveQueuedPlayer`, `KickPlayer` and the destructor are called one after the other inside
larger functions, they are operators from such a record to the next, and the actions compose
them in the code's order. `Notified` is what one call of `RemoveQueuedPlayer` does to one session: the flag it clears and the
position it sends.

`UpdateSessions` is broken up where other threads can be seen: draining `addSessQueue`
(`BeginUpdate`, `AddSession_`, `EndAdding`), then per session the idle check (`StartSession`), the
packet handlers (`HandleCharEnumOpcode`, `HandlePlayerLoginOpcode`, `HandleLogoutRequestOpcode`,
`HandleLogoutCancelOpcode`) and the rest (`FinishSession`: query callbacks, delayed logout, expiry, and the
removal with its two calls of `RemoveQueuedPlayer`). Network threads add sessions and lose sockets
between any two of these steps. `KickAll` and the last `UpdateSessions` of `WorldRunnable::run` are the
shutdown.

A session's `player` is `none`, `loading` (login query in flight), `refused` (`m_playerLoading` set and
no query: the early return after `CharCanLogin` fails), `inworld` or `leaving` (`_logoutTime` set).
Abstracted: time is a number of units per tick, chosen anew for every session; the idle time-out may
run out at any tick unless the session is queued; characters are known or not; contents of messages,
logs and the statistics counters (`UpdateMaxSessionCounters`) are left out. `HasRecentlyDisconnected`
is modelled as it behaves: `difftime(then, now)` is never positive, so an entry never expires.

### PacketQueue

One session. The loop of `WorldSession::Update` has one step per queue operation, because the
network thread adds packets in between: `NextPacket` (the loop condition and `LockedQueue::next`),
`Dispatch` (the switch over the opcode's status), `Requeue` (the `QueuePacket` of a packet put back),
`EndTurn` (the deletion), `EndUpdate` (end of the loop and the callbacks). The throttler's counters are
shared without a lock: the world thread reads in `Dispatch` and writes in `Requeue`, so that
increments of the network thread in between are lost, as they can be in the code. Handlers are
reduced to what the loop depends on: whether there is a player, whether it is in the world, and
`m_playerRecentlyLogout`. Packets are objects, not addresses: that the allocator gives a new packet the address
of a deleted one is not modelled. `opcodePerSecond` is 0 for opcodes
without an entry of their own: `memset` gives them 3.9 billion per second.

### DatabasePool

One pool. A connection is a record: the state of its handle (`up`, `lost` while `_HandleMySQLErrno`
reconnects, `null` after a reconnection that failed, `deleted`), where its operation is, the
statement at hand, the retry counter and the latest errno. One step is one request to the MySQL server,
so that workers, callers and the close interleave between any two statements. The operations are
`stmt` (a one-way statement), `query` (with a future), `holder` (a query holder), `trans` (a
transaction of `Size` statements), `empty` (a transaction without statements, which release builds
submit) and `ping`; `Delay` submits them through the queue, `Direct` on a synchronous connection.

* `Returned` is the control flow of `ExecuteTransaction` and of the tasks: results of START TRANSACTION,
  ROLLBACK and COMMIT are ignored, a failed statement leads to ROLLBACK. Each of the three may be refused by the server with an errno of its
  own (`Fails`); `refused` in the record of an operation remembers that it was its COMMIT.
* `Checks` is `TransactionTask::Execute` after a failure: it looks at the errno of the connection, not of the
  failed statement, and then either tries again or cleans up (`AfterFailure`).
* `Loses`, `Reopens` and `ReopenFails` are `_HandleMySQLErrno`. Whether the server had executed the
  request before the connection broke is left open, and so is `mysql_errno(NULL)`, which decides whether a failed
  reconnection is followed by another.
* `Close`, `JoinWorker`, `CloseSynch` are `DatabaseWorkerPool::Close`, called when the other threads have ended
  (its comment); ACE's `close` releases what is queued.
* `NoHandle(c)` is `m_Mysql == NULL`, which a failed reconnection leaves. The destructor asserts that there is a handle
  (`MySQLConnection.cpp:61`), so `Close` aborts the process there, and `KeepAlive` hands NULL to `mysql_ping`, which reads through it
  (`dep/mysqllite/libmysql/libmysql.c:960`): both are `Crash`, after which nothing is `Running`.

The server side (`session`, `db`) is external: an open transaction holds its statements, a deadlock or a
lost connection rolls it back, START TRANSACTION commits what is open, autocommit otherwise. Left
out: preparation and binding of statements (a schema that was prepared once is taken to be prepared again), result
sets, the time a reconnection sleeps, and the errnos of a wrong schema or statement, on which `_HandleMySQLErrno` itself aborts the process.

### Trade

The trade opcodes are `PROCESS_THREADUNSAFE`: `World::UpdateSessions` runs one handler at a time while no map is
updated, so a handler is one step. What can go wrong happens between handlers, where players loot, spend,
destroy, equip and log out; these are the steps under "Between the handlers", `MaxEvents` of them.

`trade[p]` is the `TradeData` of `m_trade`: the partner, the acceptance and the offer (money, spell, items by slot).
`Changed` is what `SetItem`, `SetMoney` and `SetSpell` have in common: both acceptances are taken back. `GetItem` looks an
offered item up in its owner's inventory, as the code does with the guid. `HandleAcceptTradeOpcode` is one action for each way
out of it; the flag is set first, as in the code. `MovedItems` is the exchange itself: all items are
removed on both sides and stored again slot by slot (`MoveSlot`). When an item of a slot does not fit, `moveItems` falls back to giving
both back (`GiveBack`), with the same two destination lists it has just filled for the exchange and not cleared
(`TradeHandler.cpp:202-205`, `248-272`). `StoreItem` stores a clone of the item at every position of a list but the last
(`Player.cpp:12676-12716`), so an item whose list was filled for the other item of its slot comes back twice, and one that finds no
place at all is gone. The clones are `Items` that are `Unmade` at first. `agreed` is a
history variable: the two offers a player had before it when it accepted.

Abstracted: an item is a whole stack with a template, a binding state and a place; inventories are a number of places
and a limit per template (`CanStoreItem` counts the places already reserved by the list it fills); what keeps players from opening
a trade (distance, faction, stun) lets the handler return. A bound item may be given to those in `AllowedGUIDs`, or to
anyone if its template is `AccountBound` (`IsBindedNotWith`). `ModifyMoney` is modelled with its clamping at both ends.

### WorldSocket

One socket from the acceptor to the release of its last reference. The acceptor thread runs `open`, the
network thread the reactor's handlers and `Update`, the world thread sends, kicks and deletes the session. A step
ends where another thread can come between; a lock that is held over several steps is read off the place of the
thread that holds it. `refs` counts the references of the acceptor, the manager, the reactor and the session.
The output path is `m_OutBuffer`, the message queue behind it, `m_OutActive` and the reactor's `WRITE_MASK`, with partial
writes of either. Packets are numbers with a size, and the queue is limited by its bytes (`HighWaterMark`), as ACE's is: it is `Full`
when it holds that much already, and the last packet it took may exceed it. `handle_output_queue` takes the head off, and when the write blocks puts
it back with `enqueue_head`, whose result it ignores (`WorldSocket.cpp:402`): when the queue is still full the block is released, and
the packet is in `lost`. A write that fails releases the block at hand (392-396, 406-407) and is followed by the
close: `failed`. `HandleAuthSession` may send a packet before it refuses. The reactor and TCP are external: a handler that returns -1 is followed
by `handle_close`, and a registered handler is referenced. Headers, encryption and the contents of the authentication
are left out, as are the start and the stop of the network threads.

### ObjectGrids

One map that is not an instance, as a row of cells with `CellsPerGrid` cells to a grid. Its functions run on the thread that updates the
map, one after the other, so that a function is one action unless it goes through a list; only the creation of a grid also
comes from the threads of other maps (`GetGrid`, `Map.cpp:1625`, through `MapManager.h:44`), which have finished when `DelayedUpdate`
begins. `grids[g]` has the state, whether the objects are loaded, the timer and `i_unloadActiveLockCount`.

* `Units` are the `Creatures` of the database, each with the cell it spawns in (`home`), `Summons`, and `Pets`, which stand for everything in a grid's
  world container. `Loads(g)` is what `LoadN` puts into the map: spawns that are not there already. `Eager` are creatures whose AI calls
  `setActive(true)` when it is created, which leads to two calls of `AddToActive`. `AddToMap` puts a summon or pet
  into the map, active or not; an active one locks no grid.
* `moving` is `_creaturesToMove`. `CreatureRelocation` puts a move into another cell there; `MoveAllCreaturesInMoveList` is called by `Map::Update`
  (`finishing`) and again inside `UnloadGrid`, and finishes the moves one by one in any order (`Move`): the unit enters, or goes where it
  spawns, or is removed. The respawn position of a summon or pet is where it stands, so a failed move leaves it there.
* `DelayedUpdate` goes from grid to grid (`todo`), and each grid has the `Update` of its state. `UnloadGrid` is one step for its checks
  (`Map.cpp:965`, `968`), then one `Move` for each move still in the list (978), one `Evacuate` for each creature the evacuator visits, and `DeleteGrid`. The
  history variable `late` has what those moves brought into the grid after the checks, `overlooked` the creatures the evacuator
  left where they were before it loaded, for an active one, the grid both spawn in.
* `stray` says that something outlived its grid: a pet the unloader did not see, or an active object that was deleted and is still in
  `m_activeNonPlayers`. What that object then does is undefined, and the model lets it be found near any grid or none.

Distances are measured in cells on a line (`Near`). Left out: corpses, game objects, explicit locks, reference locks, instances and
`UnloadAll`; the removal of summons and pets; and `RemoveAllObjectsInRemoveList`, which may delete a creature that is still in
`_creaturesToMove`.

## 3. What the runs check

| Run | Instance | Shows |
| --- | --- | --- |
| `mapupdater` | two workers, a plain map, a base map with two instances, a queue of one | `TypeOK`, `BarrierHolds`, `NoFinishBug`, `RequestsReferToLiveMaps`, `UpdatedOncePerTick` although requests are refused; `ImplementsTick`: refinement of `MapTick`; `TickEnds`, `ShutdownEnds` |
| `session_safety` | limit one, three accounts, one connecting twice | `QueueSound`, `OnePlayerPerAccount`, `PositionsShown`, `NoIdleSlot`, `ShutdownLeavesNoPlayer`, `FirstComeFirstServed` |
| `session_live` | limits none and one, changed at run time; two accounts and one of the staff, which connects twice; tolerance on | `AdmissionRespectsLimit`, `SessionsExpire` |
| `packets` | six packets of all statuses; one throttled opcode, among those never put back | `QueueAlive`, `UndelayedInOrder`, `UpdateEnds`, `DelayedHandled` |
| `packets_throttled` | two packets, one throttled and put back | `UpdateEnds` fails, see below |
| `pool` | one worker, one synchronous connection, two callers, every kind of operation and of fault, two operations, two faults | `Truthful`, `WholeOperations`, `NoStrayTransaction`, `InOrder`, `NoUseAfterClose`, `QueuedEnds`, `LocksReleased`, `CloseEnds` |
| `pool_deadlock` | one transaction, one deadlock | `DeadlockRecovered` fails, see below |
| `pool_loss` | one transaction, one lost connection | `TransactionsAtomic` fails, see below |
| `trade` | two players; three items of a kind with a limit of two, two of a kind bound to accounts, one of them yet to be found, one clone; hardly room to spare; a gold limit of one | `Mutual`, `AcceptedTermsStand`, `ExchangeComplete`, `MoneyKept` |
| `socket` | five packets, one of them twice as large, a buffer of two, a queue of two bytes | `SocketAlive`, `LockedSessionAlive`, `OutInOrder`, `OutputDrains`, `SocketFreed` |
| `grids` | two grids, two creatures that spawn in the second, a summon, a pet, a player, one move in the list at a time | `NothingLeftBehind`, `SpawnsPresent`, `GridsExpire` |
| `grids_lock` | two grids of two cells, one creature whose AI makes it active | `GridsExpire` fails, see below |

### Bounds, and why they are enough

* A queue of one with four maps and two workers makes every kind of request (base map from the world
  thread, instance from a worker) succeed and be refused, with a second worker to interleave. Either base map may be created inside
  the update of the other.
* With a limit of one, three accounts give a queue of two, which is what order, positions and the two
  calls of `RemoveQueuedPlayer` need; the second session of one account is a reconnection while its
  first is active, queued or loading. `session_live` lets the limit come and go while others wait, and it is the
  account of the staff that reconnects, since that one is let in again whatever the limit. `Players` bounds
  the sessions whose client sends packets after its authentication: all but one in `session_safety`, none in
  `session_live`, where logins play no part. `Kickable` bounds the sessions an administrator kicks: all in `session_safety`, none in
  `session_live`, where sockets are lost at any moment all the same. In both runs `ExpireTime` and `MaxDiff` are two, so that the countdown stops
  above, at and below zero, after one Update or after two.
* Six packets have one of every status and place, so that a packet for the map stands behind one for
  the world and the other way round; the counters need no more than one packet beyond a limit of one.
* Two statements are the least that can be torn apart. A worker and a synchronous connection give
  two transactions at a time; two faults let a retry or a rollback fail in turn; with two operations and a
  ping, a connection is used again after a failure, which is where a stray transaction or a stale errno
  shows.
* Two traded slots and the one that is not traded let one slot be exchanged in both directions and the other in one. Three items of a kind with a
  limit of two make `CanStoreItems` agree to what cannot be stored, so that the fallback runs with a list that was filled before, or with no
  place left; the kind bound to accounts passes where the other is refused. One event makes something offered stale between the acceptances, or fills the last place, and
  one completed trade is what the properties are about. Every other pair of players is like this one.
* A buffer of two and five packets, one of which fills the queue by itself, let packets go through the buffer and through the queue, wait
  behind a partial write, be refused, and be driven out of the queue by the larger one behind them.
* Two grids give the creatures a grid to wander to and a home that may be unloaded; they share one lock count. With one cell and no sight the
  first grid is not near the second, so that an active object or a pet may have a move into it pending while it is unloaded, which is what
  `MaxMoves` of one is for. An expiry of two and a tenth of it of one keep "not yet" and "now" apart. That the
  evacuator overlooks a creature takes a third grid; the proof of `SpawnsPresent` covers it for every number of grids.

### Fairness

* `MapUpdater`: weak fairness of each thread inside the tick, the shutdown and the pool: the operating
  system runs threads that can run. Nothing is assumed of map creation, the start of a tick or the
  shutdown.
* `SessionQueue`: weak fairness of the world thread only. Clients, administrators and queries may do
  nothing for ever.
* `PacketQueue`: weak fairness of the Update, strong fairness of starting a map's Update for a player in the
  world (the interval timer of `MapManager::Update` passes again and again), and that the database
  answers a login query.
* `DatabasePool`: weak fairness of the worker threads, of the thread that holds a connection and of the
  thread in `Close`. A caller may spin in `GetFreeConnection` for ever, since nothing makes the
  lock fair. The number of faults is bounded, so the MySQL server comes back in the end.
* `WorldSocket`: weak fairness of each thread inside a call; strong fairness of what `ReactorRunnable::svc` and the reactor
  come back to on every turn (new sockets, `Update`, a handler that asked to write), because the loop of the
  thread always ends in them; strong fairness of the end of the input and of a write that the peer takes, since a
  connection has an end and TCP either delivers or fails; and the world thread deletes an expired session.
* `ObjectGrids`: strong fairness of `DelayedUpdate`, since the world thread comes back to it however the map is updated in between, and weak
  fairness of `Continue`, since a function that has begun goes on. Nothing is assumed of players and creatures.

### Where the code and its comments disagree

* `packets_throttled`. `WorldSession.cpp:331-333` promises that the loop recognises the first packet it
  put back and stops there. `QueuePacket` may delete that packet, since the throttler counts it a
  second time; nothing then equals `firstDelayedPacket`, and a second packet that is put back is taken and put back
  for ever, before the callbacks that could bring the player into the world.
* `pool_deadlock`. `MySQLConnection.cpp:507` says that a deadlock is handled "in TransactionTask::Execute and
  DatabaseWorkerPool<T>::DirectCommitTransaction". Both look at the errno after `ExecuteTransaction` has
  sent ROLLBACK, when it is 0, so a transaction with statements is never tried again. The loop is reached
  only by an empty transaction that follows a deadlocked single statement.
* `pool_loss`. `DatabaseWorkerPool.h:349` promises a transaction that will "automatically rollback if not
  commited. (Autocommit=0)". A connection lost in the middle of one is reopened in autocommit mode and the
  statement at hand is sent again: it is durable at once, and the statements before it are lost.
* `grids_lock`. `Map.cpp:2279` says of the decrement in `RemoveFromActive` "also allow unloading spawn grid". A
  creature whose AI calls `setActive(true)` while it is created is given to `AddToActive` twice (`Object.cpp:1533`,
  `ObjectGridLoader.cpp:84`), each time with an increment of `i_unloadActiveLockCount`, and to `RemoveFromActive` once: its spawn grid stays locked for
  ever.

More were met and are modelled as the code has them, without a run of their own:

* `worldserver/worldserver.conf.dist:180` says of `PlayerLimit` "Excluding Mods, GMs and Admins", while the code
  counts staff sessions against the limit (`GetActiveSessionCount`).
* `WorldSession.cpp:325` says "Delete packet after processing by default", while the flag, once false, stays false for
  the rest of the Update, so that packets handled after one that was put back are never deleted (`deletePacket`).
* `World.cpp:294`: `difftime(then, now)` is never positive, so the tolerance for a disconnected account does not end.
* `cs_server.cpp:165`: a raised limit admits nobody from the queue until some session leaves.
* `World.cpp:242`: a reconnecting session gives up the slot of the one it replaces, and `RemoveQueuedPlayer` lets the head of the queue
  in. An exempt account (staff, or remembered in `m_disconnects`) is then let in all the same, so that the world holds one more than the
  limit after a step that admitted an ordinary account. The proof of `AdmissionRespectsLimit` met this; the property therefore leaves out
  the exempt sessions that enter by the same step (`LetPast`).
* `WorldSession.cpp:132`: the constructor of a reconnecting session writes `account.online = 1` before the destructor of the
  one it replaces writes 0.
* `TradeHandler.cpp:360-379`: two failing paths tell the client that the trade is over and leave the acceptance set;
  `AcceptedTermsStand` holds nevertheless, since any change of the offers takes it back.
* `TradeHandler.cpp:248-272`: `CanStoreItems` holds each item against the limit of its kind alone, so that two items that fit one by one reach
  the fallback of `moveItems`, whose destination lists still hold the positions of the exchange. An item given back by it may come back with a clone,
  and one that does not fit its old owner either is lost. `ExchangeComplete` says exactly when: with limits respected never, with a
  clone only if the other item of the slot could have been stored, lost only with one place left or none or at the limit.
* `MapManager.cpp:278-285` walks over `i_maps` without `Lock` while map threads may insert (`MapManager.cpp:117`): the rest of such a tick is `torn`.
  `CreateBaseMap` also looks for the map before it takes the lock, so that two threads can create the same base map
  and the first object leaks; in the model a map is created once.
* `MySQLConnection.cpp:354-357`, `405-406`: a COMMIT the server refuses is reported as a success with nothing stored; `Truthful` names it.
* `MySQLConnection.cpp:61`: after a failed reconnection, `Close` aborts at `ASSERT(m_Mysql)` and the keep-alive passes NULL to `mysql_ping`;
  `CloseEnds` names it.
* `WorldSocket.cpp:402`: a packet the full queue does not take back is lost without the connection closing; `OutInOrder` says that only a larger
  packet behind it can do this.
* `Map.cpp:978`: the moves `UnloadGrid` finishes come after its checks at 965 and 968. A pet they bring into the grid is in no grid afterwards, and its
  next move meets `ASSERT(IsInGrid)` (`Object.h:622`); an active object is deleted and stays in `m_activeNonPlayers`. `NothingLeftBehind` allows
  exactly these (`late`), and `stray` is what follows.
* `ObjectGridLoader.cpp`: the evacuator visits creatures in the order of the grid. One whose spawn grid is not loaded is left to be deleted; if a later, active one then
  has the same grid loaded, that grid misses the first (`overlooked`) until it is loaded again.
* `Map.cpp`: `RemoveAllObjectsInRemoveList` may delete a creature that is still in `_creaturesToMove`; not modelled.
* `WorldSocket.cpp:691` and `CMSG_ENABLE_NAGLE` use `m_Session` without `m_SessionLock`; `LockedSessionAlive` is about the
  uses under a lock.
* `DatabaseWorkerPool.h:112`: what is queued when the pool closes is released, not executed, the saves of a shutdown included.

## 4. What is proved

`MapUpdaterProofs`, for every finite set of workers, all sets of maps and every capacity, from the
assumptions named in `MapUpdater` (`ThreadAssumption`, `MapAssumption`, `QueueAssumption`: the threads
are finitely many and told apart, instances have a base map, the queue takes at least one request):

* `TypeCorrect`: `Spec => []TypeOK`; in particular `pending_requests`, an unsigned counter, never goes
  below zero;
* `BarrierCorrect`: `Spec => []BarrierHolds`, the barrier of the tick;
* `FinishCounted`: `Spec => []NoFinishBug`, the line "BUG, report to devs" is never logged.

The barrier is not inductive: that nothing is pending says nothing about the queue unless
`pending_requests` means something. The inductive invariant `IInv` gives it its meaning:

* `CountInv`: `pending` is the length of the queue, plus the number of workers inside a request, plus one
  while a thread is inside `schedule_update`;
* `MutexInv`: the holder of `m_mutex` is exactly the thread inside `schedule_update`, which is why there is at
  most one such request;
* `ReqInv`: that request refers to a map;
* `SerialInv`: nothing is pending while the world thread is alone, or asleep in the deactivation, or the
  pool is off.

Each action is of one of six kinds, with a lemma each: steps of the world thread that move only its
place, steps of the pool, `schedule_update`, `execute`, steps inside a map's update, and steps of a worker.
The arithmetic of `Cardinality(Busy)` is in `BusyGrows` and `BusyShrinks`. `CountInv` with `SerialInv` gives
the barrier (lemma `NothingPending`), and a busy worker gives `pending > 0` (lemma `BusyCounted`).

`TradeProofs`, for any number of players, items, slots and spells, every gold limit and every set of sums, from
`TradeAssumption` (the null values are no players, items or spells; sums are within the limit):

* `MutualCorrect`: `Spec => []Mutual`, the two `TradeData` of a trade lead to each other;
* `TermsCorrect`: `Spec => []AcceptedTermsStand`, no acceptance stands for other terms than those seen;
* `MoneyCorrect`: `Spec => MoneyKept`, an action property.

The inductive invariant is `TradeType`, `Mutual` and `AcceptedTermsStand` together with `MoneyType`. None of them stands alone: an offer
change resets the acceptance of `Trader(p)`, which is the right one only if that player's trader is `p`
(`Mutual`), and a trade that ends clears two entries, which keeps `Mutual` only if no third player trades with either.
Every handler is of one of four kinds, with a lemma each: offers change (`OffersChange`), flags change (`FlagsChange`), a trade begins
(`TradeBegins`) or ends (`TradeEnds`). The money needs the checks of the last acceptance (`HasEnoughMoney` of both) and the bounds of `ModifyMoney`
(`ModifyMoneyBounds`, `PaidAmount`, `CompletionPays`).

`ObjectGridsProofs`, for every number of grids and cells, every range of sight and expiry time, every finite set of
creatures and any summons and pets, from `GridAssumption`:

* `NothingLeftBehindCorrect`: `Spec => []NothingLeftBehind`;
* `SpawnsCorrect`: `Spec => []SpawnsPresent`.

The inductive invariant has two halves. `Core` is about the map: its types, `LoadedExist` (a loaded grid exists: the evacuator and the moves
ask whether a grid is loaded, the properties whether it exists), `Standing` and `SpawnsPresent`. `Phase` is about an unloading under
way: the player stays away from the grid (`PlayerAway`), active objects and pets in it came with the late moves (`BroughtLate`), and what the evacuator
has visited and left is deleted rightly or recorded in `overlooked` (`VisitedInv`). That what stands in a grid keeps it from being unloaded is
`InsideIsNear`, the one place where the arithmetic of cells comes in. `GridChanges` covers the steps that change one grid and
load nothing, `Loading` and `LoadedStep` those that load one, `PlacesKeep` those that change no grid, `RelocationPlaces` and
`RelocationKeeps` the moves; `UnloadPhase`, `MovePhase`, `EvacuatePhase` and `DeleteKeeps` take the steps of an unloading in turn.

`MapTickProofs` extends `MapUpdaterProofs` and rests on the same assumptions:

* `LiveMapsCorrect`: `Spec => []RequestsReferToLiveMaps`, no request outlives its map in a tick that is not torn;
* `OncePerTickCorrect`: `Spec => []UpdatedOncePerTick`;
* `TickImplemented`: `Spec => ImplementsTick`, the refinement of `MapTick`: every step of the threads is a step of the abstract
  tick or none.

`IInv` counts requests and does not know which maps they are for, so `TickInv` follows every map from the iterator of
`MapManager::Update` or `MapInstanced::Update` through `schedule_update`, the queue and a worker to its update. It holds until `i_maps` grows under the
loop of a tick. `BaseInv` (`TodoInv` and: instances have live base maps) survives that and gives `TickInv` back when the next tick begins;
`LoopInv` says so, with `BornInv` (a base map that is created inside a tick was not updated in it before). `TickInv` has these parts:

* `DisjointInv`: iterators, hands and queue have no map in common, so that nobody updates what another has, and what
  `DestroyInstance` deletes nobody else holds;
* `FreshInv`: what is held is alive and not yet updated, and an instance is held only after the update of its base map;
* `CurInv`: no two workers walk over the instances of the same map;
* `TodoInv`: iterators are ahead of something only inside their loops;
* `CoverInv`: before the barrier, a live map is dealt with, held, or an instance whose base map is still to come. With the
  barrier of `MapUpdaterProofs` this is why the rest of the tick begins only when every live map was updated or given up.

`PacketQueueProofs`, for every set of packets, opcode table and throttling limit, from `PacketAssumption`:

* `QueueAliveCorrect`: `Spec => []QueueAlive`;
* `UndelayedOrderCorrect`: `Spec => UndelayedInOrder`, an action property.

The inductive invariant adds that packets not yet sent are not allocated (`UnsentInv`), that the packet of this turn is outside the
queue until `Requeue`, and that the deletion at the end of a turn never meets one that was put back (`TurnInv`: `deletePacket` is
false by then). It holds in spite of the throttler's race and of the packet `QueuePacket` deletes, which is what defeats the loop in
`packets_throttled`: termination fails there, memory safety does not.

`WorldSocketProofs`, for every size of buffer and queue and any number of packets, from `SocketAssumption`:

* `ReferencesCounted`: `refs` is the number of those that hold the socket (acceptor, reactor, manager, session), and a
  socket some thread may still touch has one;
* `SocketAliveCorrect`: `Spec => []SocketAlive`;
* `LockedSessionCorrect`: `Spec => []LockedSessionAlive`;
* `OutInOrderCorrect`: `Spec => []OutInOrder`.

None of the first three can be shown without the others. `RefInv` gives the counter its meaning; `PlaceInv` says which of
the references the network thread's place rests on; `BufferInv` that `m_OutActive` keeps `Update` from a buffer that is not
allocated yet; `SessionInv` that whoever sets `closing_` first clears `m_Session` next and that no session is deleted before. The
order of the output (`OutInv`) needs of all that only which places lead to the close. What was sent, the buffer and the queue, one after the other, is an increasing
sequence (`Ordered`), because `Update` empties the buffer before it looks at the queue, and its elements are all packets taken but the lost and the
failed ones (`Elements`). That a lost packet has a larger one behind it is `QueueInv`: without its last packet a queue is below its high water mark, as that is when
`SendPacket` put it in; if it is still full without its first, the last is larger than the first.

`SessionQueueProofs`, for every finite set of sessions, all accounts, every set of limits, with and without the tolerance, and every
expiry time, from `SessionAssumption` and `ConfigAssumption` (a session has one account, `NoSession` is none of them, limits and times
are natural numbers):

* `QueueSoundCorrect`: `Spec => []QueueSound`;
* `OnePlayerCorrect`: `Spec => []OnePlayerPerAccount`;
* `PositionsCorrect`: `Spec => []PositionsShown`;
* `NoIdleSlotCorrect`: `Spec => []NoIdleSlot`;
* `ShutdownCorrect`: `Spec => []ShutdownLeavesNoPlayer`;
* `FirstComeCorrect`: `Spec => FirstComeFirstServed`, an action property;
* `AdmissionCorrect`: `Spec => AdmissionRespectsLimit`, an action property.

The inductive invariant `Inv` has these parts:

* `WorldInv`, of the record the world thread owns: sessions stand under their accounts (`Owned`) and are not deleted; a session
  outside `m_sessions` has neither flag nor character nor enumeration (`Off`), which is what makes one session per account one player
  per account; the queue has no session twice, and only flagged ones of `m_sessions`, with their positions shown;
* `Flagged`: nobody else has the flag. `KickAll` empties the list and leaves the flags, so this holds until then;
* `HandInv`: what waits in `addSessQueue` is alive and not in `m_sessions`, so that deleting a replaced session deletes nothing that is
  still to be added;
* `CurInv`: `UpdateSessions` goes over sessions that stay in `m_sessions` until it comes to them;
* `StopInv`: after `KickAll` every session is kicked or has no answered enumeration, and the last `UpdateSessions` visits each once;
* `LimitInv`: with one limit, somebody waits only when the world is full.

`RemoveQueuedPlayer` is taken apart once (what is left of the queue, who is admitted, who is told a new position), and its lemmas are
used for all four of its calls. `ActiveCount` says that the sessions in the world are those of `m_sessions` less the length of the queue, which
gives the subtraction in `GetActiveSessionCount` its meaning; `RemoveCount`, that a call lets one in at most and counts the leaver right,
found or not. `LeaveKeeps` is the removal of `UpdateSessions`, where the second call finds the session neither queued nor gone and may let in
one more; `AdmitKeeps` is `AddSession_`, where the newcomer takes the place of the session it replaces. The order of the queue is a matter of subsequences (`Sub`, `Fifo`), and the
limit of counting before and after the leaver is gone.

`DatabasePoolProofs`, for every number of connections, callers, statements and faults and every capacity of the queue, from
`PoolAssumption` and `BoundAssumption` (workers and synchronous connections are told apart, a transaction has a statement):

* `NoUseAfterCloseCorrect`: `Spec => []NoUseAfterClose`;
* `NoStrayTransactionCorrect`: `Spec => []NoStrayTransaction`, no connection is given back with a transaction open;
* `TruthfulCorrect`: `Spec => []Truthful`: what reports success is durable, once, in order and in one piece, or its COMMIT was refused and
  nothing of it is; what reports failure has left nothing;
* `WholeOperationsCorrect`: `Spec => WholeOperations`, an action property: the database grows by whole operations;
* `InOrderCorrect`: `Spec => []InOrder` under the assumption of at most one worker. With two the order is not kept, in the
  code as in the model.

The invariant has four layers, each resting on the one before. `Control` says who has which operation: what is queued is nobody's
(`QueueInv`), a synchronous connection is busy exactly while it is locked, with its caller's operation (`CallInv`), no two connections
have the same operation (`OpInv`), the place of a connection fits the kind of its operation (`PlaceInv`), and how far
`Close` has come (`CloseInv`). `SessionInv` says what the server holds back for a connection: in a transaction exactly the
statements before the one at hand, unless the connection was lost or has no handle, and nothing anywhere else. `DbInv` says
that the database holds nothing of an operation that waits, and of one that has succeeded but not yet reported everything, or nothing if
its COMMIT was refused. `OrderInv` puts what is durable before what the worker executes, and that before the queue.
A step is either outside the server (`Outside`: for a connection nothing, the begin or the end of an operation, lemma
`OutsideEffect`) or a request within an operation (`Within`), which changes one connection and appends only statements of its own
operation (`WithinDb`). Retries, errnos and reconnections are all of the second kind; operations under which a connection was lost
are excepted by `lost`, which is where `pool_loss` shows the promise to fail.

The proof of `ControlClose` needs that `Close` runs once, which its guard `closing = "no"` says: `Master::_StopDB` is the only caller
(`worldserver/Master.cpp:446`).

Only model-checked:

* `ExchangeComplete`: `MovedItems` stores items slot by slot, and what a recursion computes for every number of slots
  is an induction over data, which the installed provers cannot do;
* all liveness (`TickEnds`, `ShutdownEnds`, `SessionsExpire`, `UpdateEnds`, `DelayedHandled`, `QueuedEnds`, `LocksReleased`,
  `CloseEnds`, `OutputDrains`, `SocketFreed`, `GridsExpire`): fairness and ENABLED are beyond the prover.

## 5. Not modelled

The list with reasons is under `components` in `PROJECT.json`. In short: game rules (entities,
spells, AI, scripts, movement, collision) are numeric and have no statement of what is right other than
themselves; loading, parsing and logging keep no state worth exploring; vendored libraries are
modelled only from their use; the remaining concurrent or protocol-like components are planned.
Within the modelled components: map entry checks, instance ids, the
single opcode handlers beyond login, logout and trade, and the statistics and timers of `World::Update`.

## 6. Plan

In order of importance:

1. Map tick, sessions, packet queue, database pool, trade, sockets, grids: done as described above.
2. The save of a logout against the load of the next login: `DatabasePool` with one and with two workers,
   composed with the sessions. Abstract specification: a register per character with saves and
   loads in program order.
3. Auctions and mail: conservation of items and money over bids, expiry and delivery.
4. Battleground queue and dungeon finder: invitations and proposals against their time-outs.
5. Logon server: the order of its commands, with the proof as an oracle.

With these the theorems would grow in the same way: an inductive invariant per component, checked first, and for the register of saves
and loads a refinement like that of `MapTick`. Of the components modelled now, every invariant and action property of a passing run is
proved but `ExchangeComplete`.
