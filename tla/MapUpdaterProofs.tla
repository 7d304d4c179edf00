-------------------------- MODULE MapUpdaterProofs --------------------------
(***************************************************************************)
(* Proofs about MapUpdater for every set of workers, every set of maps and *)
(* every capacity of the activation queue: the type invariant, the barrier *)
(* of the tick, and that no finished update is missing from the count.     *)
(*                                                                         *)
(* Neither BarrierHolds nor NoFinishBug is inductive.  What makes them     *)
(* hold is the meaning of pending_requests, CountInv: it counts the queue, *)
(* the workers inside a request, and the request under construction while  *)
(* a thread holds m_mutex inside schedule_update.                          *)
(***************************************************************************)
EXTENDS MapUpdater, FiniteSetTheorems, TLAPS

\* The holder of m_mutex is the one thread inside schedule_update.
MutexInv == \A t \in Threads : loc[t] = "enq" <=> mutex = t

\* A request under construction refers to a map.
ReqInv == \A t \in Threads : loc[t] = "enq" => req[t] \in Maps

\* 1 while a counted request has not reached the queue yet.
InHand == IF mutex = NoThread THEN 0 ELSE 1

\* pending_requests counts every request from its construction to its report.
CountInv == pending = Len(queue) + Cardinality(Busy) + InHand

\* Nothing is pending while the world thread is alone or the pool is off.
SerialInv ==
    /\ loc[World] \in SerialLocs \cup {"dsleep"} => pending = 0
    /\ ~activated => pending = 0

IInv == TypeOK /\ MutexInv /\ ReqInv /\ CountInv /\ SerialInv

-----------------------------------------------------------------------------
\* The workers inside a request are finitely many.
LEMMA BusyNat == IsFiniteSet(Busy) /\ Cardinality(Busy) \in Nat
<1>1. IsFiniteSet(Busy)
  BY FS_Subset, ThreadAssumption DEF Busy
<1> QED
  BY <1>1, FS_CardinalityType

\* A worker that takes a request adds one to the busy workers.
LEMMA BusyGrows ==
    ASSUME NEW w \in Workers, w \notin Busy, Busy' = Busy \cup {w}
    PROVE  Cardinality(Busy') = Cardinality(Busy) + 1
  BY BusyNat, FS_AddElement

\* A worker that reports its request leaves one busy worker less.
LEMMA BusyShrinks ==
    ASSUME NEW w \in Workers, w \in Busy, Busy' = Busy \ {w}
    PROVE  Cardinality(Busy') = Cardinality(Busy) - 1
  BY BusyNat, FS_RemoveElement

\* A busy worker's request is counted.
LEMMA BusyCounted ==
    ASSUME IInv, NEW w \in Busy
    PROVE  pending > 0
<1>1. Cardinality(Busy) # 0
  BY BusyNat, FS_EmptySet
<1>2. Len(queue) \in Nat /\ InHand \in Nat
  BY DEF IInv, TypeOK, InHand
<1> QED
  BY <1>1, <1>2, BusyNat DEF IInv, CountInv

\* A request under construction is counted.
LEMMA HandCounted ==
    ASSUME IInv, NEW t \in Threads, loc[t] = "enq"
    PROVE  pending > 0 /\ InHand = 1 /\ mutex = t
<1>1. mutex = t /\ mutex # NoThread
  BY ThreadAssumption DEF IInv, MutexInv, Threads
<1>2. Len(queue) \in Nat
  BY DEF IInv, TypeOK
<1> QED
  BY <1>1, <1>2, BusyNat DEF IInv, CountInv, InHand

\* With nothing pending the queue is empty and no worker is busy.
LEMMA NothingPending ==
    ASSUME IInv, pending = 0
    PROVE  queue = <<>> /\ Busy = {} /\ mutex = NoThread
<1>1. Len(queue) \in Nat /\ InHand \in Nat
  BY DEF IInv, TypeOK, InHand
<1>2. Len(queue) = 0 /\ Cardinality(Busy) = 0 /\ InHand = 0
  BY <1>1, BusyNat DEF IInv, CountInv
<1>3. queue = <<>>
  BY <1>2 DEF IInv, TypeOK
<1> QED
  BY <1>2, <1>3, BusyNat, FS_EmptySet DEF InHand

-----------------------------------------------------------------------------
\* The initial states satisfy IInv.
LEMMA InitIInv == Init => IInv
<1> SUFFICES ASSUME Init PROVE IInv
  OBVIOUS
<1>1. TypeOK
  <2>1. activated \in BOOLEAN /\ queueOn \in BOOLEAN
    BY DEF Init
  <2>2. queue \in Seq(Maps) /\ pending \in Nat
    BY DEF Init
  <2>3. /\ loc \in [Threads -> WorldLocs \cup WorkerLocs]
        /\ loc[World] \in WorldLocs
        /\ \A w \in Workers : loc[w] \in WorkerLocs
    BY ThreadAssumption DEF Init, Threads, WorldLocs, WorkerLocs
  <2> QED
    BY <2>1, <2>2, <2>3 DEF Init, TypeOK
<1>2. Busy = {}
  BY ThreadAssumption DEF Init, Busy, Threads, BusyLocs
<1>3. MutexInv /\ ReqInv
  BY ThreadAssumption DEF Init, MutexInv, ReqInv, Threads
<1>4. Cardinality(Busy) = 0
  BY <1>2, FS_EmptySet
<1>5. CountInv
  BY <1>4 DEF Init, CountInv, InHand
<1>6. SerialInv
  BY DEF Init, SerialInv
<1> QED
  BY <1>1, <1>3, <1>5, <1>6 DEF IInv

\* Steps of the world thread alone: they move it, its iterator or the maps.
LEMMA WorldStepIInv ==
    ASSUME IInv,
           \/ \E m \in Maps : CreateMap(m)
           \/ BeginTick \/ DelayedUpdate \/ EndSchedule \/ WaitTick
           \/ SpuriousWakeup \/ UnloadAll \/ WaitDeactivate \/ Join \/ Stopped
           \/ \E m \in BaseMaps : UpdateInline(m)
           \/ \E i \in Instances : UpdateInstanceInline(i)
    PROVE  IInv'
<1> USE DEF IInv
<1>1. /\ loc' \in [Threads -> WorldLocs \cup WorkerLocs]
      /\ loc'[World] \in WorldLocs
      /\ loc'[World] = "enq" <=> loc[World] = "enq"
      /\ \A w \in Workers : loc'[w] = loc[w]
      /\ UNCHANGED <<pool, queue, sync, req>>
  BY ThreadAssumption DEF TypeOK, Threads, WorldLocs, WorkerLocs, Goto, pool, sync, vars, hist,
     CreateMap, BeginTick, DelayedUpdate, EndSchedule, AfterSchedule, WaitTick, wait,
     SpuriousWakeup, UnloadAll, WaitDeactivate, Join, Stopped, UpdateInline, UpdateInstanceInline
<1>2. /\ cur' \in [Threads -> Maps \cup {NoMap}]
      /\ todo' \in [Threads -> SUBSET Maps]
      /\ live' \in SUBSET Maps
      /\ updated' \in SUBSET (Maps \cup {NoMap})
      /\ skipped' \in SUBSET (Maps \cup {NoMap})
  BY ThreadAssumption, MapAssumption DEF TypeOK, Threads, Maps, Goto, pool, sync, vars, hist,
     CreateMap, BeginTick, DelayedUpdate, EndSchedule, WaitTick, wait, Advance,
     SpuriousWakeup, UnloadAll, WaitDeactivate, Join, Stopped, UpdateInline, UpdateInstanceInline
<1>9. torn' \in BOOLEAN
  <2>1. torn' = torn \/ torn' = FALSE
    BY DEF hist, vars, CreateMap, BeginTick, DelayedUpdate, EndSchedule, WaitTick, wait, SpuriousWakeup, UnloadAll,
           WaitDeactivate, Join, Stopped, UpdateInline, UpdateInstanceInline
  <2> QED
    BY <2>1, Zenon DEF TypeOK
<1>3. TypeOK'
  BY <1>1, <1>2, <1>9 DEF TypeOK, pool, sync
<1>4. MutexInv' /\ ReqInv'
  BY <1>1 DEF MutexInv, ReqInv, sync, Threads
<1>5. Busy' = Busy
  BY <1>1 DEF Busy
<1>6. CountInv'
  BY <1>1, <1>5 DEF CountInv, InHand, sync
<1>7. loc'[World] \in SerialLocs \cup {"dsleep"} => pending = 0
  BY ThreadAssumption DEF TypeOK, SerialInv, SerialLocs, Threads, Goto, pool, sync, vars, hist,
     CreateMap, BeginTick, DelayedUpdate, EndSchedule, AfterSchedule, WaitTick, wait, MustSleep,
     SpuriousWakeup, UnloadAll, WaitDeactivate, Join, Stopped, UpdateInline, UpdateInstanceInline
<1>8. SerialInv'
  BY <1>1, <1>7 DEF SerialInv, pool, sync
<1> QED
  BY <1>3, <1>4, <1>6, <1>8

\* The pool is started and stopped only while nothing is pending.
LEMMA PoolStepIInv ==
    ASSUME IInv, Initialize \/ deactivate
    PROVE  IInv'
<1> USE DEF IInv
<1>1. loc[World] \in SerialLocs
  BY DEF Initialize, deactivate, SerialLocs
<1>2. pending = 0 /\ queue = <<>> /\ Busy = {} /\ mutex = NoThread
  BY <1>1, NothingPending DEF SerialInv
<1>3. TypeOK'
  <2>1. activated' \in BOOLEAN /\ queueOn' \in BOOLEAN
    BY Zenon DEF Initialize, deactivate, ActivateQueue, DeactivateQueue
  <2>2. /\ loc' \in [Threads -> WorldLocs \cup WorkerLocs]
        /\ loc'[World] \in WorldLocs
        /\ \A w \in Workers : loc'[w] \in WorkerLocs
    BY ThreadAssumption DEF TypeOK, Initialize, deactivate, Threads, WorldLocs, WorkerLocs
  <2>3. UNCHANGED <<queue, pending, mutex, cur, req, todo, live, updated, skipped, torn>>
    BY DEF Initialize, deactivate, sync, hist
  <2> QED
    BY <2>1, <2>2, <2>3 DEF TypeOK
<1>4. /\ \A t \in Threads : loc'[t] # "enq"
      /\ \A w \in Workers : loc'[w] \notin BusyLocs
  <2>1. CASE Initialize
    BY <2>1, ThreadAssumption DEF Initialize, Threads, BusyLocs
  <2>2. CASE deactivate
    BY <2>2, <1>2, ThreadAssumption DEF deactivate, Threads, BusyLocs, Busy, MutexInv
  <2> QED
    BY <2>1, <2>2
<1>5. UNCHANGED <<queue, pending, mutex>>
  BY DEF Initialize, deactivate, sync
<1>6. MutexInv' /\ ReqInv'
  BY <1>2, <1>4, <1>5, ThreadAssumption DEF MutexInv, ReqInv, Threads
<1>7. Busy' = Busy
  BY <1>2, <1>4 DEF Busy
<1>8. CountInv'
  BY <1>5, <1>7 DEF CountInv, InHand
<1>9. SerialInv'
  BY <1>2, <1>5 DEF SerialInv
<1> QED
  BY <1>3, <1>6, <1>8, <1>9

\* schedule_update: the request is counted and m_mutex taken in one step.
LEMMA ScheduleIInv ==
    ASSUME IInv,
           NEW t \in Threads, NEW m \in Maps,
           schedule_update(t, m),
           activated,
           loc[t] = "inst" \/ (t = World /\ loc[t] = "sched")
    PROVE  IInv'
<1> USE DEF IInv
<1>1. /\ mutex = NoThread /\ mutex' = t /\ pending' = pending + 1
      /\ req' = [req EXCEPT ![t] = m]
      /\ loc' = [loc EXCEPT ![t] = "enq"]
      /\ UNCHANGED <<activated, queueOn, queue, cur, live, updated, skipped, torn>>
  BY DEF schedule_update, CountRequest, Goto, pool, hist
<1>2. TypeOK'
  BY <1>1, ThreadAssumption DEF TypeOK, Threads, WorldLocs, WorkerLocs, schedule_update, Advance
<1>3. \A u \in Threads : loc[u] # "enq"
  BY <1>1, ThreadAssumption DEF MutexInv, Threads
<1>4. MutexInv' /\ ReqInv'
  BY <1>1, <1>3 DEF MutexInv, ReqInv, TypeOK
<1>5. Busy' = Busy
  BY <1>1, ThreadAssumption DEF Busy, BusyLocs, TypeOK, Threads
<1>6. CountInv'
  BY <1>1, <1>5, BusyNat, ThreadAssumption DEF CountInv, InHand, TypeOK, Threads
<1>7. loc'[World] \notin SerialLocs \cup {"dsleep"}
  <2>1. CASE t = World
    BY <1>1, <2>1 DEF TypeOK, SerialLocs
  <2>2. CASE t # World
    <3>1. t \in Busy
      BY <2>2 DEF Busy, BusyLocs, Threads
    <3>2. pending > 0
      BY <3>1, BusyCounted
    <3> QED
      BY <1>1, <2>2, <3>2 DEF SerialInv, TypeOK
  <2> QED
    BY <2>1, <2>2
<1>8. SerialInv'
  BY <1>1, <1>7 DEF SerialInv
<1> QED
  BY <1>2, <1>4, <1>6, <1>8

\* execute: the request reaches the queue or its count is taken back.
LEMMA ExecuteIInv ==
    ASSUME IInv, NEW t \in Threads, execute(t)
    PROVE  IInv'
<1> USE DEF IInv
<1>1. /\ loc[t] = "enq" /\ mutex' = NoThread
      /\ req' = [req EXCEPT ![t] = NoMap]
      /\ loc' = [loc EXCEPT ![t] = IF t = World THEN "sched" ELSE "inst"]
      /\ UNCHANGED <<activated, queueOn, cur, todo, live, updated, torn>>
      /\ \/ /\ queue' = Append(queue, req[t])
            /\ UNCHANGED <<pending, skipped>>
         \/ /\ pending' = pending - 1
            /\ skipped' = skipped \cup {req[t]}
            /\ UNCHANGED queue
  BY DEF execute, Uncount, Goto, pool
<1>2. pending > 0 /\ InHand = 1 /\ mutex = t /\ req[t] \in Maps
  BY <1>1, HandCounted DEF ReqInv
<1>3. pending \in Nat /\ pending - 1 \in Nat
  BY <1>2 DEF TypeOK
<1>4. queue' \in Seq(Maps)
  <2>1. queue \in Seq(Maps) /\ Append(queue, req[t]) \in Seq(Maps)
    BY <1>2 DEF TypeOK
  <2> QED
    BY <1>1, <2>1
<1>13. /\ loc' \in [Threads -> WorldLocs \cup WorkerLocs]
       /\ loc'[World] \in WorldLocs
       /\ \A w \in Workers : loc'[w] \in WorkerLocs
  BY <1>1, ThreadAssumption DEF TypeOK, Threads, WorldLocs, WorkerLocs
<1>14. /\ pending' \in Nat /\ mutex' \in Threads \cup {NoThread}
       /\ req' \in [Threads -> Maps \cup {NoMap}] /\ skipped' \in SUBSET (Maps \cup {NoMap})
  BY <1>1, <1>2, <1>3 DEF TypeOK
<1>5. TypeOK'
  BY <1>1, <1>4, <1>13, <1>14 DEF TypeOK
<1>6. MutexInv' /\ ReqInv'
  BY <1>1, <1>2, ThreadAssumption DEF MutexInv, ReqInv, TypeOK, Threads
<1>7. Busy' = Busy
  BY <1>1, ThreadAssumption DEF Busy, BusyLocs, TypeOK, Threads
<1>8. Len(queue) \in Nat /\ Len(Append(queue, req[t])) = Len(queue) + 1
  BY <1>2 DEF TypeOK
<1>9. CountInv'
  BY <1>1, <1>2, <1>3, <1>7, <1>8, BusyNat DEF CountInv, InHand
<1>10. loc[World] \notin SerialLocs \cup {"dsleep"} /\ activated
  BY <1>2 DEF SerialInv
<1>11. loc'[World] \notin SerialLocs \cup {"dsleep"}
  BY <1>1, <1>10 DEF TypeOK, SerialLocs
<1>12. SerialInv'
  BY <1>1, <1>10, <1>11 DEF SerialInv
<1> QED
  BY <1>5, <1>6, <1>9, <1>12

\* Inside a Map::Update a thread moves its own iterator and deletes instances.
LEMMA UpdateIInv ==
    ASSUME IInv, NEW t \in Threads,
           \/ UpdateMap(t) \/ EndUpdate(t)
           \/ \E i \in Instances : DestroyInstance(t, i) \/ KeepInstance(t, i)
    PROVE  IInv'
<1> USE DEF IInv
<1>1. /\ loc[t] \in {"upd", "inst"}
      /\ \/ loc' = loc
         \/ loc' = [loc EXCEPT ![t] = "inst"]
         \/ loc' = [loc EXCEPT ![t] = IF t = World THEN "sched" ELSE "finish"]
      /\ UNCHANGED <<activated, queueOn, queue, pending, mutex, cur, req, torn>>
  BY DEF UpdateMap, EndUpdate, DestroyInstance, KeepInstance, Goto, pool, sync, hist
<1>2. /\ todo' \in [Threads -> SUBSET Maps]
      /\ live' \in SUBSET Maps
      /\ updated' \in SUBSET (Maps \cup {NoMap})
      /\ skipped' \in SUBSET (Maps \cup {NoMap})
  BY DEF UpdateMap, EndUpdate, DestroyInstance, KeepInstance, Advance, Erase, InstancesOf,
     TypeOK, Maps, hist
<1>3. TypeOK'
  BY <1>1, <1>2, ThreadAssumption DEF TypeOK, Threads, WorldLocs, WorkerLocs
<1>4. MutexInv' /\ ReqInv'
  BY <1>1 DEF MutexInv, ReqInv, TypeOK
<1>5. Busy' = Busy
  BY <1>1, ThreadAssumption DEF Busy, BusyLocs, TypeOK, Threads
<1>6. CountInv'
  BY <1>1, <1>5 DEF CountInv, InHand
<1>7. loc'[World] = loc[World] \/ loc'[World] \in {"inst", "sched"}
  BY <1>1 DEF TypeOK, Threads
<1>8. SerialInv'
  BY <1>1, <1>7 DEF SerialInv, SerialLocs
<1> QED
  BY <1>3, <1>4, <1>6, <1>8

\* A base map created inside an update changes the maps and the iterator of the world thread only.
LEMMA CreateIInv ==
    ASSUME IInv, NEW t \in Threads, NEW m \in BaseMaps, CreateBaseMap(t, m)
    PROVE  IInv'
<1> USE DEF IInv
<1>1. UNCHANGED <<activated, queueOn, queue, pending, mutex, loc, cur, req, updated>> /\ live' = live \cup {m}
  BY DEF CreateBaseMap, pool, sync
<1>2. todo' \in [Threads -> SUBSET Maps] /\ skipped' \in SUBSET (Maps \cup {NoMap})
  BY DEF CreateBaseMap, InsertAhead, InsertBehind, InsertGrows, TypeOK, Maps, Threads
<1>3. torn' \in BOOLEAN
  <2>1. torn' = torn \/ torn' = TRUE
    BY DEF CreateBaseMap, InsertAhead, InsertBehind, InsertGrows
  <2> QED
    BY <2>1, Zenon DEF TypeOK
<1>4. TypeOK'
  BY <1>1, <1>2, <1>3 DEF TypeOK, Maps
<1>5. MutexInv' /\ ReqInv' /\ SerialInv' /\ Busy' = Busy
  BY <1>1 DEF MutexInv, ReqInv, SerialInv, Busy
<1>6. CountInv'
  BY <1>1, <1>5 DEF CountInv, InHand
<1> QED
  BY <1>4, <1>5, <1>6

\* A worker takes a request, reports one, or leaves svc.
LEMMA WorkerIInv ==
    ASSUME IInv, NEW w \in Workers, WorkerStep(w)
    PROVE  IInv'
<1> USE DEF IInv
<1>1. CASE dequeue(w)
  <2>1. /\ loc[w] = "deq" /\ queue # <<>>
        /\ cur' = [cur EXCEPT ![w] = Head(queue)]
        /\ queue' = Tail(queue)
        /\ loc' = [loc EXCEPT ![w] = "upd"]
        /\ UNCHANGED <<activated, queueOn, pending, mutex, req, todo, live, updated, skipped, torn>>
    BY <1>1 DEF dequeue, Goto, pool, sync, hist
  <2>2. /\ Tail(queue) \in Seq(Maps) /\ Head(queue) \in Maps
        /\ Len(queue) \in Nat /\ Len(Tail(queue)) = Len(queue) - 1
    BY <2>1 DEF TypeOK
  <2>3. TypeOK'
    BY <2>1, <2>2, ThreadAssumption DEF TypeOK, Threads, WorldLocs, WorkerLocs
  <2>4. MutexInv' /\ ReqInv'
    BY <2>1 DEF MutexInv, ReqInv, TypeOK, Threads
  <2>5. w \notin Busy /\ Busy' = Busy \cup {w}
    BY <2>1 DEF Busy, BusyLocs, TypeOK, Threads
  <2>6. Cardinality(Busy') = Cardinality(Busy) + 1
    BY <2>5, BusyGrows
  <2>8. InHand' = InHand /\ InHand \in Nat
    BY <2>1 DEF InHand
  <2>9. CountInv'
    BY <2>1, <2>2, <2>6, <2>8, BusyNat DEF CountInv
  <2>7. SerialInv'
    BY <2>1, ThreadAssumption DEF SerialInv, TypeOK, Threads
  <2> QED
    BY <2>3, <2>4, <2>7, <2>9
<1>2. CASE Exit(w)
  <2>1. /\ loc[w] = "deq"
        /\ loc' = [loc EXCEPT ![w] = "exit"]
        /\ UNCHANGED <<activated, queueOn, queue, pending, mutex, cur, req, todo, live, updated, skipped, torn>>
    BY <1>2 DEF Exit, Goto, pool, sync, hist
  <2>2. TypeOK'
    BY <2>1, ThreadAssumption DEF TypeOK, Threads, WorldLocs, WorkerLocs
  <2>3. MutexInv' /\ ReqInv'
    BY <2>1 DEF MutexInv, ReqInv, TypeOK, Threads
  <2>4. Busy' = Busy
    BY <2>1 DEF Busy, BusyLocs, TypeOK, Threads
  <2>5. CountInv'
    BY <2>1, <2>4 DEF CountInv, InHand
  <2>6. SerialInv'
    BY <2>1, ThreadAssumption DEF SerialInv, TypeOK, Threads
  <2> QED
    BY <2>2, <2>3, <2>5, <2>6
<1>3. CASE update_finished(w)
  <2>1. w \in Busy
    BY <1>3 DEF update_finished, Busy, BusyLocs
  <2>2. pending > 0
    BY <2>1, BusyCounted
  <2>3. /\ loc[w] = "finish" /\ mutex = NoThread
        /\ pending' = pending - 1
        /\ cur' = [cur EXCEPT ![w] = NoMap]
        /\ loc' = [loc EXCEPT ![w] = "deq", ![World] = Woken(@)]
        /\ UNCHANGED <<activated, queueOn, queue, mutex, req, todo, live, updated, skipped, torn>>
    BY <1>3, <2>2 DEF update_finished, pool, hist, TypeOK
  <2>4. loc[World] \notin SerialLocs \cup {"dsleep"} /\ activated
    BY <2>2 DEF SerialInv
  <2>5. /\ Woken(loc[World]) = IF loc[World] = "sleep" THEN "wait" ELSE loc[World]
        /\ loc'[w] = "deq"
        /\ loc'[World] = Woken(loc[World])
        /\ loc' \in [Threads -> WorldLocs \cup WorkerLocs]
        /\ \A v \in Workers \ {w} : loc'[v] = loc[v]
    BY <2>3, <2>4, ThreadAssumption DEF Woken, TypeOK, Threads, SerialLocs, WorldLocs, WorkerLocs
  <2>6. TypeOK'
    BY <2>2, <2>3, <2>5, ThreadAssumption DEF TypeOK, Threads, WorldLocs, WorkerLocs
  <2>7. MutexInv' /\ ReqInv'
    BY <2>3, <2>5 DEF MutexInv, ReqInv, Threads
  <2>8. Busy' = Busy \ {w}
    BY <2>5 DEF Busy, BusyLocs
  <2>9. Cardinality(Busy') = Cardinality(Busy) - 1
    BY <2>1, <2>8, BusyShrinks
  <2>11. Len(queue) \in Nat /\ InHand' = InHand /\ InHand \in Nat
    BY <2>3 DEF InHand, TypeOK
  <2>12. CountInv'
    BY <2>3, <2>9, <2>11, BusyNat DEF CountInv
  <2>10. SerialInv'
    BY <2>3, <2>4, <2>5 DEF SerialInv, SerialLocs
  <2> QED
    BY <2>6, <2>7, <2>10, <2>12
<1> QED
  BY <1>1, <1>2, <1>3 DEF WorkerStep

\* Every step keeps IInv.
LEMMA NextIInv == IInv /\ [Next]_vars => IInv'
<1> SUFFICES ASSUME IInv, [Next]_vars PROVE IInv'
  OBVIOUS
<1>1. CASE UNCHANGED vars
  BY <1>1 DEF vars, pool, sync, hist, IInv, TypeOK, MutexInv, ReqInv, CountInv, InHand, Busy, SerialInv
<1>2. CASE Initialize \/ deactivate
  BY <1>2, PoolStepIInv
<1>3. CASE \E t \in Threads : UpdateStep(t)
  <2> PICK t \in Threads : UpdateStep(t)
    BY <1>3
  <2>1. CASE execute(t)
    BY <2>1, ExecuteIInv
  <2>2. CASE \E i \in Instances : ScheduleInstance(t, i)
    <3> PICK i \in Instances : ScheduleInstance(t, i)
      BY <2>2
    <3>1. i \in Maps /\ schedule_update(t, i) /\ activated /\ loc[t] = "inst"
      BY DEF ScheduleInstance, Maps
    <3> QED
      BY <3>1, ScheduleIInv
  <2> QED
    BY <2>1, <2>2, UpdateIInv DEF UpdateStep
<1>4. CASE \E w \in Workers : WorkerStep(w)
  BY <1>4, WorkerIInv
<1>5. CASE \E m \in BaseMaps : ScheduleBase(m)
  BY <1>5, ScheduleIInv DEF ScheduleBase, Maps, Threads
<1>6. CASE \/ \E m \in Maps : CreateMap(m)
           \/ BeginTick \/ DelayedUpdate \/ EndSchedule \/ WaitTick
           \/ SpuriousWakeup \/ UnloadAll \/ WaitDeactivate \/ Join \/ Stopped
           \/ \E m \in BaseMaps : UpdateInline(m)
           \/ \E i \in Instances : UpdateInstanceInline(i)
  BY <1>6, WorldStepIInv
<1>7. CASE \E t \in Threads, m \in BaseMaps : CreateBaseMap(t, m)
  BY <1>7, CreateIInv
<1> QED
  BY <1>1, <1>2, <1>3, <1>4, <1>5, <1>6, <1>7 DEF Next, TickStep

\* The inductive invariant holds in every behaviour.
THEOREM Invariance == Spec => []IInv
  BY InitIInv, NextIInv, PTL DEF Spec

\* The state of the updater keeps its type: in particular pending_requests never underflows.
THEOREM TypeCorrect == Spec => []TypeOK
<1>1. IInv => TypeOK
  BY DEF IInv
<1> QED
  BY <1>1, Invariance, PTL

(***************************************************************************)
(* The barrier of MapManager::Update holds for any number of workers and   *)
(* maps and whatever the activation queue refuses.                         *)
(***************************************************************************)
THEOREM BarrierCorrect == Spec => []BarrierHolds
<1>1. IInv => BarrierHolds
  BY NothingPending DEF IInv, SerialInv, BarrierHolds
<1> QED
  BY <1>1, Invariance, PTL

\* A finished update is always counted: the BUG line of update_finished is dead code.
THEOREM FinishCounted == Spec => []NoFinishBug
<1>1. IInv => NoFinishBug
  BY BusyCounted DEF NoFinishBug, Busy, BusyLocs
<1> QED
  BY <1>1, Invariance, PTL

=============================================================================
