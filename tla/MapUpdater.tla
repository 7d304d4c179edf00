----------------------------- MODULE MapUpdater -----------------------------
(***************************************************************************)
(* The parallel map tick of the world server: MapManager::Update and       *)
(* MapInstanced::Update (game/Maps), the MapUpdater they hand every map to, *)
(* and the DelayExecutor thread pool with its ACE activation queue          *)
(* (shared/Threading).                                                     *)
(*                                                                         *)
(* The world thread schedules one update request per base map, waits until *)
(* pending_requests is zero and then runs the single-threaded rest of the  *)
(* tick.  A worker that updates a base map of instances schedules further  *)
(* requests itself.  m_mutex is explicit; a thread holds it from the       *)
(* increment of pending_requests to the end of schedule_update.            *)
(*                                                                         *)
(* Base maps are also created inside a tick, by the code of the maps that  *)
(* are being updated, while the world thread walks over i_maps without its *)
(* lock.                                                                   *)
(***************************************************************************)
EXTENDS Naturals, Sequences, FiniteSets

CONSTANTS
    World,      \* the world thread
    Workers,    \* the threads MapUpdater::activate starts
    BaseMaps,   \* the maps of MapManager::i_maps
    Instances,  \* the maps of the MapInstanced::m_InstancedMaps of all base maps
    ParentOf,   \* the base map an instance belongs to
    QueueCap,   \* how many requests the activation queue takes before enqueue fails
    NoThread,   \* m_mutex is free
    NoMap       \* no map at hand

ASSUME ThreadAssumption ==
    /\ IsFiniteSet(Workers)
    /\ World \notin Workers
    /\ NoThread \notin Workers \cup {World}

ASSUME MapAssumption ==
    /\ BaseMaps \cap Instances = {}
    /\ ParentOf \in [Instances -> BaseMaps]
    /\ NoMap \notin BaseMaps \cup Instances

ASSUME QueueAssumption == QueueCap \in Nat \ {0}

VARIABLES
    activated,  \* DelayExecutor::activated_
    queueOn,    \* the activation queue is in state ACTIVATED
    queue,      \* the maps of the MapUpdateRequests in the activation queue
    pending,    \* MapUpdater::pending_requests
    mutex,      \* the holder of MapUpdater::m_mutex
    loc,        \* where each thread is
    cur,        \* the map whose Update a thread runs
    req,        \* the map a thread is handing to schedule_update
    todo,       \* the maps ahead of a thread's iterators
    live,       \* the Map objects that exist
    updated,    \* history: maps whose Map::Update ran in this tick
    skipped,    \* history: maps this tick gave up on (queue full, players left, created too late)
    torn        \* history: i_maps was rebuilt under the loop of this tick

pool == <<activated, queueOn>>
sync == <<pending, mutex>>
hist == <<updated, skipped, torn>>
vars == <<pool, queue, sync, loc, cur, req, todo, live, hist>>

Threads == Workers \cup {World}
Maps    == BaseMaps \cup Instances

InstancesOf(m) == {i \in Instances : ParentOf[i] = m}

WorldLocs  == {"boot", "idle", "sched", "enq", "upd", "inst", "wait", "sleep",
               "delayed", "dwait", "dsleep", "join", "done"}
WorkerLocs == {"off", "deq", "upd", "inst", "enq", "finish", "exit"}

\* Where a worker holds a request it has taken from the queue and not reported.
BusyLocs == {"upd", "inst", "enq", "finish"}
Busy     == {w \in Workers : loc[w] \in BusyLocs}

Goto(t, l) == loc' = [loc EXCEPT ![t] = l]

Init ==
    /\ activated = FALSE
    /\ queueOn = FALSE
    /\ queue = <<>>
    /\ pending = 0
    /\ mutex = NoThread
    /\ loc = [t \in Threads |-> IF t = World THEN "boot" ELSE "off"]
    /\ cur = [t \in Threads |-> NoMap]
    /\ req = [t \in Threads |-> NoMap]
    /\ todo = [t \in Threads |-> {}]
    /\ live = {}
    /\ updated = {}
    /\ skipped = {}
    /\ torn = FALSE

-----------------------------------------------------------------------------
(* The world thread outside the parallel part of a tick. *)

\* DelayExecutor::start: the queue is activated before the threads are spawned.
ActivateQueue(threaded) == queueOn' = threaded

(***************************************************************************)
(* MapManager::Initialize.  num_threads is 0 (maps are updated in line) or *)
(* the number of Workers, which then enter DelayExecutor::svc.             *)
(***************************************************************************)
Initialize ==
    /\ loc[World] = "boot"
    /\ \E threaded \in BOOLEAN :
        /\ activated' = threaded
        /\ ActivateQueue(threaded)
        /\ loc' = [t \in Threads |-> IF t = World THEN "idle"
                                     ELSE IF threaded THEN "deq" ELSE "off"]
    /\ UNCHANGED <<queue, sync, cur, req, todo, live, hist>>

(***************************************************************************)
(* MapManager::CreateMap: base maps and instances are created on demand by *)
(* the session updates, which the world thread runs outside Update; a      *)
(* transport that leaves for another continent creates that base map at    *)
(* the end of Update, behind the loops over i_maps.                        *)
(***************************************************************************)
CreateMap(m) ==
    /\ loc[World] = "idle" \/ (loc[World] = "delayed" /\ m \in BaseMaps)
    /\ m \notin live
    /\ live' = live \cup {m} \cup (IF m \in Instances THEN {ParentOf[m]} ELSE {})
    /\ UNCHANGED <<pool, queue, sync, loc, cur, req, todo, hist>>

\* MapManager::Update: the interval timer has passed, the loop over i_maps starts.
BeginTick ==
    /\ loc[World] = "idle"
    /\ Goto(World, "sched")
    /\ todo' = [todo EXCEPT ![World] = live \cap BaseMaps]
    /\ updated' = {}
    /\ skipped' = {}
    /\ torn' = FALSE
    /\ UNCHANGED <<pool, queue, sync, cur, req, live>>

(***************************************************************************)
(* The rest of MapManager::Update: DelayedUpdate of every map and instance, *)
(* ObjectAccessor::Update, the transports, SetCurrent(0).                  *)
(***************************************************************************)
DelayedUpdate ==
    /\ loc[World] = "delayed"
    /\ Goto(World, "idle")
    /\ UNCHANGED <<pool, queue, sync, cur, req, todo, live, hist>>

-----------------------------------------------------------------------------
(* Scheduling: the loops of MapManager::Update and MapInstanced::Update. *)

\* Mutant: the request is handed over without being counted.
CountRequest_Missing == pending' = pending

CountRequest == pending' = pending + 1

\* Mutant: the iterator stays where it is.
Advance_Missing(t, m) == todo' = todo

Advance(t, m) == todo' = [todo EXCEPT ![t] = @ \ {m}]

\* MapUpdater::schedule_update: with m_mutex held, count the request and build it.
schedule_update(t, m) ==
    /\ mutex = NoThread
    /\ mutex' = t
    /\ CountRequest
    /\ req' = [req EXCEPT ![t] = m]
    /\ Advance(t, m)
    /\ Goto(t, "enq")
    /\ UNCHANGED <<pool, queue, cur, live, hist>>

ScheduleBase(m) ==
    /\ loc[World] = "sched"
    /\ activated
    /\ m \in todo[World]
    /\ schedule_update(World, m)

ScheduleInstance(t, i) ==
    /\ loc[t] = "inst"
    /\ activated
    /\ i \in todo[t] \cap Instances
    /\ schedule_update(t, i)

\* Mutant: a refused request stays counted.
Uncount_Missing == pending' = pending

\* Mutant: execute and schedule_update both take the count back.
Uncount_Twice == pending' = pending - 2

Uncount == pending' = pending - 1

(***************************************************************************)
(* DelayExecutor::execute and the rest of schedule_update.  The enqueue    *)
(* has a zero timeout: when the queue is deactivated or at its high water  *)
(* mark it fails, the request is deleted and its count taken back.         *)
(***************************************************************************)
execute(t) ==
    /\ loc[t] = "enq"
    /\ IF queueOn /\ Len(queue) < QueueCap
       THEN /\ queue' = Append(queue, req[t])
            /\ UNCHANGED <<pending, skipped>>
       ELSE /\ Uncount
            /\ skipped' = skipped \cup {req[t]}
            /\ UNCHANGED queue
    /\ mutex' = NoThread
    /\ req' = [req EXCEPT ![t] = NoMap]
    /\ Goto(t, IF t = World THEN "sched" ELSE "inst")
    /\ UNCHANGED <<pool, cur, todo, live, updated, torn>>

\* MapManager::Update without threads: the world thread updates the map itself.
UpdateInline(m) ==
    /\ loc[World] = "sched"
    /\ ~activated
    /\ m \in todo[World]
    /\ cur' = [cur EXCEPT ![World] = m]
    /\ Advance(World, m)
    /\ Goto(World, "upd")
    /\ UNCHANGED <<pool, queue, sync, req, live, hist>>

\* Mutant: the call of wait is dropped.
AfterSchedule_NoWait == "delayed"

\* Without threads there is nothing to wait for.
AfterSchedule == IF activated THEN "wait" ELSE "delayed"

EndSchedule ==
    /\ loc[World] = "sched"
    /\ todo[World] = {}
    /\ Goto(World, AfterSchedule)
    /\ UNCHANGED <<pool, queue, sync, cur, req, todo, live, hist>>

-----------------------------------------------------------------------------
(* MapUpdater::wait: with m_mutex held, sleep on m_condition while requests are
   pending.  It ends the loop over i_maps and comes first in deactivate. *)

\* Mutant: wait looks at the queue instead of the pending requests.
MustSleep_Queue == queue # <<>>

MustSleep == pending > 0

wait(from, asleep, done) ==
    /\ loc[World] = from
    /\ mutex = NoThread
    /\ Goto(World, IF MustSleep THEN asleep ELSE done)
    /\ UNCHANGED <<pool, queue, sync, cur, req, todo, live, hist>>

WaitTick == wait("wait", "sleep", "delayed")

\* A condition variable may wake its waiter without a broadcast.
SpuriousWakeup ==
    /\ loc[World] = "sleep"
    /\ Goto(World, "wait")
    /\ UNCHANGED <<pool, queue, sync, cur, req, todo, live, hist>>

-----------------------------------------------------------------------------
(* The workers: DelayExecutor::svc and MapUpdateRequest::call. *)

dequeue(w) ==
    /\ loc[w] = "deq"
    /\ queueOn
    /\ queue # <<>>
    /\ cur' = [cur EXCEPT ![w] = Head(queue)]
    /\ queue' = Tail(queue)
    /\ Goto(w, "upd")
    /\ UNCHANGED <<pool, sync, req, todo, live, hist>>

\* dequeue fails on a deactivated queue and the thread leaves svc.
Exit(w) ==
    /\ loc[w] = "deq"
    /\ ~queueOn
    /\ Goto(w, "exit")
    /\ UNCHANGED <<pool, queue, sync, cur, req, todo, live, hist>>

(***************************************************************************)
(* Map::Update of the map at hand.  MapInstanced::Update then walks the    *)
(* instances of its base map; a plain map has none.                        *)
(***************************************************************************)
UpdateMap(t) ==
    /\ loc[t] = "upd"
    /\ updated' = updated \cup {cur[t]}
    /\ todo' = [todo EXCEPT ![t] = @ \cup (live \cap InstancesOf(cur[t]))]
    /\ Goto(t, "inst")
    /\ UNCHANGED <<pool, queue, sync, cur, req, live, skipped, torn>>

\* The world thread has not left its loop over i_maps.
LoopOpen == loc[World] \in {"sched", "enq", "upd", "inst"}

\* The new map is linked in ahead of the iterator of the open loop.
InsertAhead(m) ==
    /\ LoopOpen
    /\ todo' = [todo EXCEPT ![World] = @ \cup {m}]
    /\ UNCHANGED <<skipped, torn>>

\* It is linked in behind the iterator, or the loop is over.
InsertBehind(m) ==
    /\ skipped' = skipped \cup {m}
    /\ UNCHANGED <<todo, torn>>

(***************************************************************************)
(* The insertion makes the hash table grow: the iterator of the open loop  *)
(* is invalid, and goes on through the rebuilt chain from wherever its     *)
(* node now is.  Any of the base maps may still lie ahead of it.           *)
(***************************************************************************)
InsertGrows(m) ==
    /\ LoopOpen
    /\ \E ahead \in SUBSET ((live \cup {m}) \cap BaseMaps) :
        todo' = [todo EXCEPT ![World] = (@ \cap Instances) \cup ahead]
    /\ torn' = TRUE
    /\ UNCHANGED skipped

(***************************************************************************)
(* MapManager::CreateBaseMap inside a Map::Update (GetAreaFlag for another *)
(* continent, a teleport): the insertion into i_maps is under Lock, the    *)
(* loop of MapManager::Update over i_maps is not.                          *)
(***************************************************************************)
CreateBaseMap(t, m) ==
    /\ loc[t] = "upd" \/ (t = World /\ loc[t] = "inst")
    /\ m \notin live
    /\ live' = live \cup {m}
    /\ InsertAhead(m) \/ InsertBehind(m) \/ InsertGrows(m)
    /\ UNCHANGED <<pool, queue, sync, loc, cur, req, updated>>

\* MapInstanced::Update without threads: the instance is updated in line.
UpdateInstanceInline(i) ==
    /\ loc[World] = "inst"
    /\ ~activated
    /\ i \in todo[World] \cap Instances
    /\ updated' = updated \cup {i}
    /\ Advance(World, i)
    /\ UNCHANGED <<pool, queue, sync, loc, cur, req, live, skipped, torn>>

\* Mutant: the deleted instance stays ahead of the iterator.
Erase_Missing(t, i) == todo' = todo

\* m_InstancedMaps.erase(itr++)
Erase(t, i) == todo' = [todo EXCEPT ![t] = @ \ {i}]

(***************************************************************************)
(* The instance's unload timer has run out (CanUnload) and DestroyInstance *)
(* finds no player left in it: the Map object is deleted and erased.       *)
(***************************************************************************)
DestroyInstance(t, i) ==
    /\ loc[t] = "inst"
    /\ i \in todo[t] \cap Instances
    /\ live' = live \ {i}
    /\ Erase(t, i)
    /\ UNCHANGED <<pool, queue, sync, loc, cur, req, hist>>

\* CanUnload, but players are left: DestroyInstance only advances the iterator.
KeepInstance(t, i) ==
    /\ loc[t] = "inst"
    /\ i \in todo[t] \cap Instances
    /\ skipped' = skipped \cup {i}
    /\ Advance(t, i)
    /\ UNCHANGED <<pool, queue, sync, loc, cur, req, live, updated, torn>>

\* MapInstanced::Update returns: to the loop over i_maps, or to MapUpdateRequest::call.
EndUpdate(t) ==
    /\ loc[t] = "inst"
    /\ todo[t] \cap Instances = {}
    /\ Goto(t, IF t = World THEN "sched" ELSE "finish")
    /\ UNCHANGED <<pool, queue, sync, cur, req, todo, live, hist>>

\* m_condition.broadcast(): the world thread competes for m_mutex again.
Woken(l) == CASE l = "sleep"  -> "wait"
              [] l = "dsleep" -> "dwait"
              [] OTHER        -> l

(***************************************************************************)
(* MapUpdater::update_finished, then back to the top of svc.  A finished   *)
(* update that was never counted is logged as a bug and wakes nobody.      *)
(***************************************************************************)
update_finished(w) ==
    /\ loc[w] = "finish"
    /\ mutex = NoThread
    /\ IF pending = 0
       THEN /\ Goto(w, "deq")
            /\ UNCHANGED pending
       ELSE /\ pending' = pending - 1
            /\ loc' = [loc EXCEPT ![w] = "deq", ![World] = Woken(@)]
    /\ cur' = [cur EXCEPT ![w] = NoMap]
    /\ UNCHANGED <<pool, queue, mutex, req, todo, live, hist>>

-----------------------------------------------------------------------------
(* Shutdown. *)

\* MapManager::UnloadAll: all maps are deleted first, then the updater deactivated.
UnloadAll ==
    /\ loc[World] = "idle"
    /\ live' = {}
    /\ Goto(World, IF activated THEN "dwait" ELSE "done")
    /\ UNCHANGED <<pool, queue, sync, cur, req, todo, hist>>

WaitDeactivate == wait("dwait", "dsleep", "join")

\* Mutant: the queue is left activated and its consumers asleep.
DeactivateQueue_Missing == queueOn' = queueOn

DeactivateQueue == queueOn' = FALSE

\* DelayExecutor::deactivate: refuse new work, deactivate the queue, join the threads.
deactivate ==
    /\ loc[World] = "join"
    /\ activated
    /\ activated' = FALSE
    /\ DeactivateQueue
    /\ UNCHANGED <<queue, sync, loc, cur, req, todo, live, hist>>

Join ==
    /\ loc[World] = "join"
    /\ ~activated
    /\ \A w \in Workers : loc[w] = "exit"
    /\ Goto(World, "done")
    /\ UNCHANGED <<pool, queue, sync, cur, req, todo, live, hist>>

\* The maps are unloaded and the pool is joined: the updater has stopped.
Stopped ==
    /\ loc[World] = "done"
    /\ UNCHANGED vars

-----------------------------------------------------------------------------
\* What a begun tick or a begun shutdown makes the world thread do.
TickStep ==
    \/ \E m \in BaseMaps : ScheduleBase(m) \/ UpdateInline(m)
    \/ \E i \in Instances : UpdateInstanceInline(i)
    \/ EndSchedule
    \/ WaitTick
    \/ DelayedUpdate
    \/ WaitDeactivate
    \/ deactivate
    \/ Join

\* A thread inside schedule_update or inside the Update of a map.
UpdateStep(t) ==
    \/ UpdateMap(t)
    \/ execute(t)
    \/ \E i \in Instances :
        \/ ScheduleInstance(t, i)
        \/ DestroyInstance(t, i)
        \/ KeepInstance(t, i)
    \/ EndUpdate(t)

WorkerStep(w) ==
    \/ dequeue(w)
    \/ Exit(w)
    \/ update_finished(w)

Next ==
    \/ Initialize
    \/ \E m \in Maps : CreateMap(m)
    \/ BeginTick
    \/ TickStep
    \/ SpuriousWakeup
    \/ UnloadAll
    \/ \E t \in Threads : UpdateStep(t)
    \/ \E t \in Threads, m \in BaseMaps : CreateBaseMap(t, m)
    \/ \E w \in Workers : WorkerStep(w)
    \/ Stopped

Spec == Init /\ [][Next]_vars

(***************************************************************************)
(* The operating system runs every thread that can run.  Map creation, the *)
(* start of a tick and the shutdown come from outside.                     *)
(***************************************************************************)
Fairness ==
    /\ WF_vars(TickStep)
    /\ \A t \in Threads : WF_vars(UpdateStep(t))
    /\ \A w \in Workers : WF_vars(WorkerStep(w))

FairSpec == Spec /\ Fairness

-----------------------------------------------------------------------------
TypeOK ==
    /\ activated \in BOOLEAN
    /\ queueOn \in BOOLEAN
    /\ queue \in Seq(Maps)
    /\ pending \in Nat
    /\ mutex \in Threads \cup {NoThread}
    /\ loc \in [Threads -> WorldLocs \cup WorkerLocs]
    /\ loc[World] \in WorldLocs
    /\ \A w \in Workers : loc[w] \in WorkerLocs
    /\ cur \in [Threads -> Maps \cup {NoMap}]
    /\ req \in [Threads -> Maps \cup {NoMap}]
    /\ todo \in [Threads -> SUBSET Maps]
    /\ live \in SUBSET Maps
    /\ updated \in SUBSET (Maps \cup {NoMap})
    /\ skipped \in SUBSET (Maps \cup {NoMap})
    /\ torn \in BOOLEAN

\* Where the world thread runs code that must not overlap any Map::Update.
SerialLocs == {"boot", "idle", "delayed", "dwait", "join", "done"}

(***************************************************************************)
(* The barrier of MapManager::Update: while the world thread runs code     *)
(* outside the parallel part of a tick (session updates, DelayedUpdate,    *)
(* UnloadAll, joining the pool), no request is queued and no worker is     *)
(* inside a Map::Update, those scheduled by other workers included.        *)
(***************************************************************************)
BarrierHolds == loc[World] \in SerialLocs => queue = <<>> /\ Busy = {}

(***************************************************************************)
(* "MapUpdater::update_finished BUG, report to devs" is never logged: a    *)
(* worker that reports a finished update finds it counted.                 *)
(***************************************************************************)
NoFinishBug == \A w \in Workers : loc[w] = "finish" => pending > 0

\* The maps some request in the queue, in a worker or in schedule_update refers to.
Outstanding ==
    {queue[k] : k \in DOMAIN queue}
        \cup {cur[w] : w \in Busy}
        \cup {req[t] : t \in {u \in Threads : loc[u] = "enq"}}

(***************************************************************************)
(* MapUpdateRequest holds a reference to its Map: no map is deleted by     *)
(* DestroyInstance or UnloadAll while a request refers to it.  (With the   *)
(* loop of the tick torn a base map may be updated twice, and one update   *)
(* delete an instance the other has scheduled.)                            *)
(***************************************************************************)
RequestsReferToLiveMaps == torn \/ Outstanding \subseteq live

(***************************************************************************)
(* Map::Update runs at most once per map and tick and never in two threads *)
(* at once: no map has two requests, and none has one after its update,    *)
(* maps created inside the tick included, unless i_maps grew under the     *)
(* open loop.                                                              *)
(***************************************************************************)
UpdatedOncePerTick == ~torn =>
    /\ \A j, k \in DOMAIN queue : queue[j] = queue[k] => j = k
    /\ \A w \in Busy : \A k \in DOMAIN queue : cur[w] # queue[k]
    /\ \A w, v \in Busy : cur[w] = cur[v] => w = v
    /\ \A k \in DOMAIN queue : queue[k] \notin updated
    /\ \A t \in Threads : loc[t] = "upd" => cur[t] \notin updated

(***************************************************************************)
(* A tick ends: the world thread is not left asleep on m_condition by a    *)
(* lost wakeup or by a request that was counted and never run.             *)
(***************************************************************************)
TickEnds == loc[World] = "sched" ~> loc[World] = "idle"

\* UnloadAll ends with every worker out of DelayExecutor::svc.
ShutdownEnds == loc[World] = "dwait" ~> loc[World] = "done"

-----------------------------------------------------------------------------
\* The tick of MapTick the world thread's place stands for.
Phase == CASE loc[World] \in {"sched", "enq", "upd", "inst", "wait", "sleep"} -> "updating"
           [] loc[World] = "delayed" -> "delayed"
           [] loc[World] \in {"dwait", "dsleep", "join", "done"} -> "stopped"
           [] OTHER -> "idle"

Tick == INSTANCE MapTick WITH phase <- Phase

\* The threaded updater implements the sequential tick of MapTick.
ImplementsTick == Tick!Spec

=============================================================================
