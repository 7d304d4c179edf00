--------------------------- MODULE MapTickProofs ---------------------------
(***************************************************************************)
(* MapUpdater implements MapTick, for every set of workers and of maps and *)
(* every capacity of the activation queue; on the way, requests refer to   *)
(* live maps and a map is updated once per tick.                           *)
(*                                                                         *)
(* TickInv follows a map from the iterator of MapManager::Update or        *)
(* MapInstanced::Update through schedule_update, the queue and a worker to *)
(* its Map::Update: at every moment one of them holds it, and one only.    *)
(* It holds until i_maps grows under the loop of a tick; BaseInv survives  *)
(* that, and gives TickInv back when the next tick begins.  LoopInv says   *)
(* so, and with IInv of MapUpdaterProofs it is inductive.                  *)
(***************************************************************************)
EXTENDS MapUpdaterProofs

\* The maps in the queue; what a thread has at hand to schedule or update, alone and with what its iterators reach.
queued == {queue[k] : k \in DOMAIN queue}
hand   == [t \in Threads |-> IF loc[t] = "enq" THEN {req[t]} ELSE IF loc[t] = "upd" THEN {cur[t]} ELSE {}]
hold   == [t \in Threads |-> todo[t] \cup hand[t]]

\* The threads inside the Update of their map, Map::Update done.
walking == {t \in Threads : loc[t] \in {"inst", "finish"} \/ (t # World /\ loc[t] = "enq")}

\* Nobody holds a map twice, and no two hold the same map.
DisjointInv ==
    /\ \A j, k \in DOMAIN queue : queue[j] = queue[k] => j = k
    /\ \A t \in Threads : todo[t] \cap hand[t] = {}
    /\ \A t \in Threads : hold[t] \cap queued = {}
    /\ \A t, u \in Threads : t # u => hold[t] \cap hold[u] = {}

\* What is held is alive and waits for its update; an instance is held only after the update of its base map.
FreshInv ==
    /\ queued \subseteq live \ updated
    /\ \A t \in Threads : hold[t] \subseteq live \ updated
    /\ \A i \in Instances \cap (queued \cup updated) : ParentOf[i] \in updated
    /\ \A t \in Threads : \A i \in Instances \cap hold[t] : ParentOf[i] \in updated

\* The map whose instances a thread walks is alive and updated, and no other worker's.
CurInv ==
    /\ \A t \in walking : cur[t] \in live \cap updated
    /\ \A w, v \in Busy : cur[w] = cur[v] => w = v

\* An iterator is ahead of something only inside its loop.
TodoInv ==
    /\ \A w \in Workers : todo[w] \subseteq Instances /\ (todo[w] # {} => loc[w] \in {"inst", "enq"})
    /\ todo[World] # {} => loc[World] \in {"sched", "enq", "upd", "inst"}
    /\ loc[World] # "inst" => todo[World] \subseteq BaseMaps
    /\ loc[World] \in {"upd", "inst"} => ~activated

\* Where the world thread is before the barrier of a tick.
TickLocs == {"sched", "enq", "upd", "inst", "wait", "sleep"}

\* No live map is forgotten: it is dealt with, held, or an instance whose base map is still to be updated.
CoverInv ==
    /\ \A i \in live \cap Instances : ParentOf[i] \in live
    /\ loc[World] \in TickLocs =>
         \A m \in live : \/ m \in updated \cup skipped \cup queued
                         \/ \E t \in Threads : m \in hold[t]
                         \/ m \in Instances /\ ParentOf[m] \notin updated

TickInv == DisjointInv /\ FreshInv /\ CurInv /\ TodoInv /\ CoverInv

\* What a torn tick leaves standing.
ParentInv == \A i \in live \cap Instances : ParentOf[i] \in live
BaseInv   == TodoInv /\ ParentInv

\* A base map that does not exist has not been updated in this tick.
BornInv == loc[World] \in TickLocs => BaseMaps \cap updated \subseteq live

LoopInv == BaseInv /\ (~torn => TickInv /\ BornInv)
-----------------------------------------------------------------------------
\* The types of what the threads hold.
LEMMA HoldTypes ==
  ASSUME TypeOK
  PROVE  /\ loc \in [Threads -> WorldLocs \cup WorkerLocs]
         /\ cur \in [Threads -> Maps \cup {NoMap}]
         /\ req \in [Threads -> Maps \cup {NoMap}]
         /\ todo \in [Threads -> SUBSET Maps]
         /\ hand \in [Threads -> SUBSET (Maps \cup {NoMap})]
         /\ hold \in [Threads -> SUBSET (Maps \cup {NoMap})]
         /\ live \subseteq Maps
         /\ queue \in Seq(Maps)
         /\ \A w \in Workers : loc[w] \in WorkerLocs
  BY DEF TypeOK, hand, hold


\* schedule_update: the map goes from the thread's iterator into its hand.
LEMMA ScheduleTick ==
  ASSUME IInv, TickInv, NEW t \in Threads, NEW m \in todo[t],
         schedule_update(t, m), loc[t] = "inst" \/ (t = World /\ loc[t] = "sched"), activated
  PROVE  TickInv'
<1> USE HoldTypes, ThreadAssumption DEF IInv
<1>1. /\ req' = [req EXCEPT ![t] = m]
      /\ loc' = [loc EXCEPT ![t] = "enq"]
      /\ todo' = [todo EXCEPT ![t] = @ \ {m}]
      /\ UNCHANGED <<activated, queueOn, queue, cur, live, updated, skipped>>
  BY DEF schedule_update, Advance, Goto, pool, hist
<1>2. hand' = [hand EXCEPT ![t] = {m}] /\ hand[t] = {}
  BY <1>1 DEF hand
<1>3. hold' = hold
  BY <1>1, <1>2 DEF hold
<1>4. queued' = queued
  BY <1>1 DEF queued
<1>5. DisjointInv'
  BY <1>1, <1>2, <1>3, <1>4 DEF TickInv, DisjointInv
<1>6. FreshInv'
  BY <1>1, <1>3, <1>4 DEF TickInv, FreshInv
<1>7. walking' \subseteq walking /\ Busy' = Busy
  BY <1>1 DEF walking, Threads, Busy, BusyLocs
<1>8. CurInv'
  BY <1>1, <1>7 DEF TickInv, CurInv
<1>9. TodoInv'
  BY <1>1 DEF TickInv, TodoInv, Threads
<1>10. CoverInv'
  BY <1>1, <1>3, <1>4 DEF TickInv, CoverInv, TickLocs, Threads
<1> QED
  BY <1>5, <1>6, <1>8, <1>9, <1>10 DEF TickInv

\* Map::Update, and MapInstanced::Update starts its walk: the instances were held by nobody, since their base
\* map was not updated.
LEMMA UpdateMapTick ==
  ASSUME IInv, TickInv, NEW t \in Threads, UpdateMap(t)
  PROVE  TickInv'
<1> USE HoldTypes, ThreadAssumption DEF IInv
<1> DEFINE N == live \cap InstancesOf(cur[t])
<1>1. /\ loc[t] = "upd" /\ loc' = [loc EXCEPT ![t] = "inst"]
      /\ updated' = updated \cup {cur[t]}
      /\ todo' = [todo EXCEPT ![t] = @ \cup N]
      /\ UNCHANGED <<activated, queueOn, queue, cur, req, live, skipped>>
  BY DEF UpdateMap, Goto, pool
<1>2. hand' = [hand EXCEPT ![t] = {}] /\ hand[t] = {cur[t]}
  BY <1>1 DEF hand
<1>3. hold' = [hold EXCEPT ![t] = todo[t] \cup N] /\ hold[t] = todo[t] \cup {cur[t]}
  BY <1>1, <1>2, ZenonT(30) DEF hold
<1>4. queued' = queued
  BY <1>1 DEF queued
<1>5. cur[t] \in live \ updated /\ cur[t] \in Maps /\ cur[t] \notin todo[t] /\ cur[t] \notin queued
      /\ \A u \in Threads : u # t => cur[t] \notin hold[u]
  BY <1>2, <1>3 DEF TickInv, FreshInv, DisjointInv
<1>6. \A i \in N : i \in live /\ i \in Instances /\ ParentOf[i] = cur[t]
  BY DEF InstancesOf
<1>7. \A i \in N : i \notin updated /\ i \notin queued /\ \A u \in Threads : i \notin hold[u]
  BY <1>5, <1>6 DEF TickInv, FreshInv
<1>8. cur[t] \notin N
  BY <1>5, <1>7, <1>3
<1>15. \A i \in live \cap Instances : ParentOf[i] = cur[t] => i \in N
  BY DEF InstancesOf
<1> HIDE DEF N
<1>9. DisjointInv'
  BY <1>1, <1>2, <1>3, <1>4, <1>7 DEF TickInv, DisjointInv
<1>10. FreshInv'
  BY <1>1, <1>3, <1>4, <1>5, <1>6, <1>7, <1>8 DEF TickInv, FreshInv
<1>11. walking' = walking \cup {t} /\ Busy' = Busy
  BY <1>1 DEF walking, Busy, BusyLocs, Threads
<1>12. CurInv'
  BY <1>1, <1>5, <1>11 DEF TickInv, CurInv
<1>13. TodoInv'
  BY <1>1, <1>6 DEF TickInv, TodoInv, Threads
<1>14. CoverInv'
  <2>1. ASSUME NEW m \in live, loc[World] \in TickLocs
        PROVE  \/ m \in updated' \cup skipped \cup queued
               \/ \E u \in Threads : m \in hold'[u]
               \/ m \in Instances /\ ParentOf[m] \notin updated'
    <3>1. CASE m = cur[t] \/ m \in N
      BY <1>1, <1>3, <3>1
    <3>2. CASE m \notin N /\ \E u \in Threads : m \in hold[u]
      BY <1>1, <1>3, <3>2
    <3>3. CASE m \in Instances /\ ParentOf[m] \notin updated
      BY <1>1, <1>3, <1>15, <3>3
    <3> QED
      BY <1>1, <2>1, <3>1, <3>2, <3>3 DEF TickInv, CoverInv
  <2>2. loc'[World] \in TickLocs => loc[World] \in TickLocs
    BY <1>1 DEF TickLocs, Threads
  <2> QED
    BY <1>1, <1>4, <2>1, <2>2 DEF TickInv, CoverInv
<1> QED
  BY <1>9, <1>10, <1>12, <1>13, <1>14 DEF TickInv

\* A request put into the queue for a map that is not in it.
LEMMA AppendDistinct ==
  ASSUME NEW q \in Seq(Maps), NEW m \in Maps,
         \A j, k \in DOMAIN q : q[j] = q[k] => j = k,
         \A k \in DOMAIN q : q[k] # m
  PROVE  /\ \A j, k \in DOMAIN Append(q, m) : Append(q, m)[j] = Append(q, m)[k] => j = k
         /\ {Append(q, m)[k] : k \in DOMAIN Append(q, m)} = {q[k] : k \in DOMAIN q} \cup {m}
<1>1. /\ DOMAIN q = 1..Len(q) /\ Len(q) \in Nat
      /\ DOMAIN Append(q, m) = 1..Len(q) + 1
      /\ \A k \in 1..Len(q) : Append(q, m)[k] = q[k]
      /\ Append(q, m)[Len(q) + 1] = m
  OBVIOUS
<1>2. \A k \in 1..Len(q) + 1 : k \in 1..Len(q) \/ k = Len(q) + 1
  BY <1>1
<1>3. \A j, k \in DOMAIN Append(q, m) : Append(q, m)[j] = Append(q, m)[k] => j = k
  BY <1>1, <1>2
<1>4. {Append(q, m)[k] : k \in DOMAIN Append(q, m)} = {q[k] : k \in DOMAIN q} \cup {m}
  BY <1>1, <1>2
<1> QED
  BY <1>3, <1>4

\* The first request is taken from the queue.
LEMMA TailDistinct ==
  ASSUME NEW q \in Seq(Maps), q # <<>>,
         \A j, k \in DOMAIN q : q[j] = q[k] => j = k
  PROVE  /\ \A j, k \in DOMAIN Tail(q) : Tail(q)[j] = Tail(q)[k] => j = k
         /\ {Tail(q)[k] : k \in DOMAIN Tail(q)} = {q[k] : k \in DOMAIN q} \ {Head(q)}
         /\ Head(q) \in {q[k] : k \in DOMAIN q}
<1>1. /\ DOMAIN q = 1..Len(q) /\ Len(q) \in Nat \ {0}
      /\ DOMAIN Tail(q) = 1..Len(q) - 1
      /\ \A k \in 1..Len(q) - 1 : Tail(q)[k] = q[k + 1]
      /\ Head(q) = q[1]
  OBVIOUS
<1>2. \A k \in 1..Len(q) : k = 1 \/ (k - 1 \in 1..Len(q) - 1 /\ (k - 1) + 1 = k)
  BY <1>1
<1>3. \A k \in 1..Len(q) - 1 : k + 1 \in 1..Len(q) /\ k + 1 # 1
  BY <1>1
<1>4. \A j, k \in DOMAIN Tail(q) : Tail(q)[j] = Tail(q)[k] => j = k
  BY <1>1, <1>3
<1>5. {Tail(q)[k] : k \in DOMAIN Tail(q)} = {q[k] : k \in DOMAIN q} \ {Head(q)}
  <2>1. ASSUME NEW k \in DOMAIN Tail(q)
        PROVE  Tail(q)[k] \in {q[j] : j \in DOMAIN q} \ {Head(q)}
    BY <1>1, <1>3
  <2>2. ASSUME NEW k \in DOMAIN q, q[k] # Head(q)
        PROVE  q[k] \in {Tail(q)[j] : j \in DOMAIN Tail(q)}
    <3>1. k - 1 \in DOMAIN Tail(q) /\ Tail(q)[k - 1] = q[k]
      BY <1>1, <1>2, <2>2
    <3> QED
      BY <3>1
  <2> QED
    BY <2>1, <2>2
<1>6. Head(q) \in {q[k] : k \in DOMAIN q}
  <2>1. 1 \in DOMAIN q
    BY <1>1
  <2> QED
    BY <1>1, <2>1
<1> QED
  BY <1>4, <1>5, <1>6

\* execute: the map goes from the hand into the queue, or is given up.
LEMMA ExecuteTick ==
  ASSUME IInv, TickInv, NEW t \in Threads, execute(t)
  PROVE  TickInv'
<1> USE HoldTypes, ThreadAssumption DEF IInv
<1> DEFINE r == req[t]
<1>1. /\ loc[t] = "enq"
      /\ req' = [req EXCEPT ![t] = NoMap]
      /\ loc' = [loc EXCEPT ![t] = IF t = World THEN "sched" ELSE "inst"]
      /\ UNCHANGED <<activated, queueOn, cur, todo, live, updated>>
      /\ \/ queue' = Append(queue, r) /\ skipped' = skipped
         \/ queue' = queue /\ skipped' = skipped \cup {r}
  BY DEF execute, Goto, pool
<1>2. hand' = [hand EXCEPT ![t] = {}] /\ hand[t] = {r}
  BY <1>1 DEF hand
<1>3. r \in Maps
  BY <1>1 DEF ReqInv
<1> HIDE DEF r
<1>4. hold' = [hold EXCEPT ![t] = todo[t]] /\ hold[t] = todo[t] \cup {r}
  BY <1>1, <1>2, ZenonT(30) DEF hold
<1>5. /\ r \in live \ updated /\ r \notin todo[t] /\ r \notin queued
      /\ \A u \in Threads : u # t => r \notin hold[u]
      /\ r \in Instances => ParentOf[r] \in updated
  BY <1>2, <1>4 DEF TickInv, FreshInv, DisjointInv
<1>6. /\ \A j, k \in DOMAIN queue' : queue'[j] = queue'[k] => j = k
      /\ \/ queued' = queued \cup {r} /\ skipped' = skipped
         \/ queued' = queued /\ skipped' = skipped \cup {r}
  <2>1. /\ queue \in Seq(Maps)
        /\ \A j, k \in DOMAIN queue : queue[j] = queue[k] => j = k
        /\ \A k \in DOMAIN queue : queue[k] # r
    BY <1>5 DEF queued, TickInv, DisjointInv
  <2>2. CASE queue' = Append(queue, r) /\ skipped' = skipped
    <3>1. /\ \A j, k \in DOMAIN Append(queue, r) : Append(queue, r)[j] = Append(queue, r)[k] => j = k
          /\ {Append(queue, r)[k] : k \in DOMAIN Append(queue, r)} = queued \cup {r}
      BY <1>3, <2>1, AppendDistinct DEF queued
    <3>2. queued' = {queue'[k] : k \in DOMAIN queue'}
      BY DEF queued
    <3> QED
      BY <2>2, <3>1, <3>2
  <2>3. CASE queue' = queue /\ skipped' = skipped \cup {r}
    BY <2>1, <2>3 DEF queued
  <2> QED
    BY <1>1, <2>2, <2>3
<1>7. DisjointInv'
  BY <1>1, <1>2, <1>4, <1>5, <1>6 DEF TickInv, DisjointInv
<1>8. FreshInv'
  BY <1>1, <1>4, <1>5, <1>6 DEF TickInv, FreshInv
<1>9. walking' = walking /\ Busy' = Busy
  BY <1>1 DEF walking, Threads, Busy, BusyLocs
<1>10. CurInv'
  BY <1>1, <1>9 DEF TickInv, CurInv
<1>11. TodoInv'
  BY <1>1 DEF TickInv, TodoInv, Threads
<1>12. CoverInv'
  BY <1>1, <1>4, <1>6 DEF TickInv, CoverInv, TickLocs, Threads
<1> QED
  BY <1>7, <1>8, <1>10, <1>11, <1>12 DEF TickInv

\* MapManager::Update without threads: the map goes from the iterator into the hand.
LEMMA InlineTick ==
  ASSUME IInv, TickInv, NEW m \in BaseMaps, UpdateInline(m)
  PROVE  TickInv'
<1> USE HoldTypes, ThreadAssumption DEF IInv, Threads
<1>1. /\ loc[World] = "sched" /\ ~activated /\ m \in todo[World]
      /\ cur' = [cur EXCEPT ![World] = m]
      /\ loc' = [loc EXCEPT ![World] = "upd"]
      /\ todo' = [todo EXCEPT ![World] = @ \ {m}]
      /\ UNCHANGED <<activated, queueOn, queue, req, live, updated, skipped>>
  BY DEF UpdateInline, Advance, Goto, pool, hist
<1>2. hand' = [hand EXCEPT ![World] = {m}] /\ hand[World] = {}
  BY <1>1 DEF hand
<1>3. hold' = hold
  BY <1>1, <1>2 DEF hold
<1>4. queued' = queued
  BY <1>1 DEF queued
<1>5. DisjointInv'
  BY <1>1, <1>2, <1>3, <1>4 DEF TickInv, DisjointInv
<1>6. FreshInv'
  BY <1>1, <1>3, <1>4 DEF TickInv, FreshInv
<1>7. walking' = walking /\ Busy' = Busy /\ World \notin walking /\ World \notin Busy
  BY <1>1 DEF walking, Busy, BusyLocs
<1>8. walking \subseteq Threads /\ Busy \subseteq Threads
  BY DEF walking, Busy
<1>9. CurInv'
  BY <1>1, <1>7, <1>8 DEF TickInv, CurInv
<1>10. TodoInv'
  BY <1>1 DEF TickInv, TodoInv
<1>11. CoverInv'
  BY <1>1, <1>3, <1>4 DEF TickInv, CoverInv, TickLocs
<1> QED
  BY <1>5, <1>6, <1>9, <1>10, <1>11 DEF TickInv

\* MapInstanced::Update deals with an instance without handing it over.
LEMMA InstanceTick ==
  ASSUME IInv, TickInv, NEW t \in Threads, NEW i \in Instances,
         DestroyInstance(t, i) \/ KeepInstance(t, i) \/ (t = World /\ UpdateInstanceInline(i))
  PROVE  TickInv'
<1> USE HoldTypes, ThreadAssumption DEF IInv
<1>1. /\ loc[t] = "inst" /\ i \in todo[t]
      /\ todo' = [todo EXCEPT ![t] = @ \ {i}]
      /\ UNCHANGED <<activated, queueOn, queue, loc, cur, req>>
      /\ \/ live' = live \ {i} /\ updated' = updated /\ skipped' = skipped
         \/ live' = live /\ updated' = updated /\ skipped' = skipped \cup {i}
         \/ live' = live /\ updated' = updated \cup {i} /\ skipped' = skipped
  BY DEF DestroyInstance, KeepInstance, UpdateInstanceInline, Erase, Advance, pool, hist
<1>2. hand' = hand /\ hand[t] = {}
  BY <1>1 DEF hand
<1>3. hold' = [hold EXCEPT ![t] = @ \ {i}] /\ i \in hold[t]
  BY <1>1, <1>2, ZenonT(30) DEF hold
<1>4. queued' = queued
  BY <1>1 DEF queued
<1>5. /\ i \in live \ updated /\ i \notin queued
      /\ \A u \in Threads : u # t => i \notin hold[u]
      /\ ParentOf[i] \in updated /\ ParentOf[i] # i
  BY <1>3, MapAssumption DEF TickInv, FreshInv, DisjointInv
<1>6. DisjointInv'
  BY <1>1, <1>2, <1>3, <1>4 DEF TickInv, DisjointInv
<1>7. FreshInv'
  BY <1>1, <1>3, <1>4, <1>5 DEF TickInv, FreshInv
<1>8. walking' = walking /\ Busy' = Busy
  BY <1>1 DEF walking, Busy, BusyLocs
<1>9. CurInv'
  BY <1>1, <1>5, <1>8 DEF TickInv, CurInv
<1>10. TodoInv'
  BY <1>1 DEF TickInv, TodoInv, Threads
<1>11. CoverInv'
  BY <1>1, <1>3, <1>4, <1>5, MapAssumption DEF TickInv, CoverInv
<1> QED
  BY <1>6, <1>7, <1>9, <1>10, <1>11 DEF TickInv

\* A worker takes the map from the queue into its hand.
LEMMA DequeueTick ==
  ASSUME IInv, TickInv, NEW w \in Workers, dequeue(w)
  PROVE  TickInv'
<1> USE HoldTypes, ThreadAssumption DEF IInv, Threads
<1> DEFINE h == Head(queue)
<1>1. /\ loc[w] = "deq" /\ queue # <<>>
      /\ cur' = [cur EXCEPT ![w] = h]
      /\ queue' = Tail(queue)
      /\ loc' = [loc EXCEPT ![w] = "upd"]
      /\ UNCHANGED <<activated, queueOn, req, todo, live, updated, skipped>>
  BY DEF dequeue, Goto, pool, hist
<1>2. /\ \A j, k \in DOMAIN queue' : queue'[j] = queue'[k] => j = k
      /\ queued' = queued \ {h} /\ h \in queued
  <2>1. /\ queue \in Seq(Maps)
        /\ \A j, k \in DOMAIN queue : queue[j] = queue[k] => j = k
    BY DEF TickInv, DisjointInv
  <2>2. /\ \A j, k \in DOMAIN Tail(queue) : Tail(queue)[j] = Tail(queue)[k] => j = k
        /\ {Tail(queue)[k] : k \in DOMAIN Tail(queue)} = queued \ {h} /\ h \in queued
    BY <1>1, <2>1, TailDistinct DEF queued
  <2>3. queued' = {queue'[k] : k \in DOMAIN queue'}
    BY DEF queued
  <2> QED
    BY <1>1, <2>2, <2>3
<1> HIDE DEF h
<1>3. hand' = [hand EXCEPT ![w] = {h}] /\ hand[w] = {}
  BY <1>1 DEF hand
<1>4. hold' = [hold EXCEPT ![w] = {h}] /\ hold[w] = {} /\ todo[w] = {}
  BY <1>1, <1>3, ZenonT(30) DEF hold, TickInv, TodoInv
<1>5. /\ h \in live \ updated
      /\ \A u \in Threads : h \notin hold[u]
      /\ h \in Instances => ParentOf[h] \in updated
  BY <1>2 DEF TickInv, FreshInv, DisjointInv
<1>6. DisjointInv'
  BY <1>1, <1>2, <1>3, <1>4, <1>5 DEF TickInv, DisjointInv
<1>7. FreshInv'
  BY <1>1, <1>2, <1>4, <1>5 DEF TickInv, FreshInv
<1>8. walking' = walking /\ w \notin walking /\ Busy' = Busy \cup {w} /\ w \notin Busy
  BY <1>1 DEF walking, Busy, BusyLocs
<1>9. \A v \in Busy : v \in Threads /\ (v \in walking \/ cur[v] \in hold[v])
  BY DEF Busy, BusyLocs, walking, hold, hand
<1>10. \A v \in Busy : cur[v] # h
  BY <1>5, <1>9 DEF TickInv, CurInv
<1>11. walking \subseteq Threads
  BY DEF walking
<1>12. CurInv'
  BY <1>1, <1>8, <1>9, <1>10, <1>11 DEF TickInv, CurInv
<1>13. TodoInv'
  BY <1>1, <1>4 DEF TickInv, TodoInv
<1>14. CoverInv'
  BY <1>1, <1>2, <1>4 DEF TickInv, CoverInv
<1> QED
  BY <1>6, <1>7, <1>12, <1>13, <1>14 DEF TickInv

\* update_finished: nothing is held that was not held before.
LEMMA FinishTick ==
  ASSUME IInv, TickInv, NEW w \in Workers, update_finished(w)
  PROVE  TickInv'
<1> USE HoldTypes, ThreadAssumption DEF IInv, Threads
<1>1. /\ loc[w] = "finish"
      /\ cur' = [cur EXCEPT ![w] = NoMap]
      /\ UNCHANGED <<activated, queueOn, queue, req, todo, live, updated, skipped>>
      /\ loc' \in [Threads -> WorldLocs \cup WorkerLocs]
      /\ loc'[w] = "deq"
      /\ \A v \in Workers : v # w => loc'[v] = loc[v]
      /\ loc'[World] = Woken(loc[World]) \/ loc'[World] = loc[World]
  <2>1. TypeOK'
    BY WorkerIInv DEF WorkerStep
  <2> QED
    BY <2>1 DEF update_finished, Goto, pool, hist, TypeOK
<1>2. \/ loc'[World] = loc[World]
      \/ loc[World] = "sleep" /\ loc'[World] = "wait"
      \/ loc[World] = "dsleep" /\ loc'[World] = "dwait"
  BY <1>1 DEF Woken
<1>3. hand' = hand
  BY <1>1, <1>2 DEF hand
<1>4. hold' = hold /\ queued' = queued
  BY <1>1, <1>3 DEF hold, queued
<1>5. walking' = walking \ {w} /\ Busy' = Busy \ {w} /\ walking \subseteq Threads /\ Busy \subseteq Threads
  BY <1>1, <1>2 DEF walking, Busy, BusyLocs
<1>6. DisjointInv'
  BY <1>1, <1>3, <1>4 DEF TickInv, DisjointInv
<1>7. FreshInv'
  BY <1>1, <1>4 DEF TickInv, FreshInv
<1>8. CurInv'
  BY <1>1, <1>5 DEF TickInv, CurInv
<1>9. TodoInv'
  BY <1>1, <1>2 DEF TickInv, TodoInv
<1>10. CoverInv'
  BY <1>1, <1>2, <1>4 DEF TickInv, CoverInv, TickLocs
<1> QED
  BY <1>6, <1>7, <1>8, <1>9, <1>10 DEF TickInv

\* The walk over the instances ends with none left.
LEMMA EndUpdateTick ==
  ASSUME IInv, TickInv, NEW t \in Threads, EndUpdate(t)
  PROVE  TickInv'
<1> USE HoldTypes, ThreadAssumption DEF IInv, Threads
<1>1. /\ loc[t] = "inst" /\ todo[t] \cap Instances = {}
      /\ loc' = [loc EXCEPT ![t] = IF t = World THEN "sched" ELSE "finish"]
      /\ UNCHANGED <<activated, queueOn, queue, cur, req, todo, live, updated, skipped>>
  BY DEF EndUpdate, Goto, pool, hist
<1>2. hand' = hand
  BY <1>1 DEF hand
<1>3. hold' = hold /\ queued' = queued
  BY <1>1, <1>2 DEF hold, queued
<1>4. walking' \subseteq walking /\ Busy' = Busy
  BY <1>1 DEF walking, Busy, BusyLocs
<1>5. DisjointInv'
  BY <1>1, <1>2, <1>3 DEF TickInv, DisjointInv
<1>6. FreshInv'
  BY <1>1, <1>3 DEF TickInv, FreshInv
<1>7. CurInv'
  BY <1>1, <1>4 DEF TickInv, CurInv
<1>8. TodoInv'
  BY <1>1 DEF TickInv, TodoInv, Maps
<1>9. CoverInv'
  BY <1>1, <1>3 DEF TickInv, CoverInv, TickLocs
<1> QED
  BY <1>5, <1>6, <1>7, <1>8, <1>9 DEF TickInv

\* While the world thread is alone nobody holds a map.
LEMMA Quiet ==
  ASSUME IInv, BaseInv, loc[World] \in SerialLocs
  PROVE  /\ queue = <<>> /\ queued = {} /\ Busy = {} /\ walking = {}
         /\ \A t \in Threads : todo[t] = {} /\ hand[t] = {} /\ hold[t] = {}
         /\ \A t \in Threads : loc[t] \notin {"enq", "upd"}
<1> USE HoldTypes, ThreadAssumption DEF IInv
<1>1. queue = <<>> /\ Busy = {} /\ mutex = NoThread
  BY NothingPending DEF SerialInv
<1>2. queued = {}
  BY <1>1 DEF queued
<1>3. \A t \in Threads : loc[t] \notin {"enq", "upd", "inst", "finish"}
  BY <1>1 DEF Busy, BusyLocs, Threads, SerialLocs
<1>4. \A t \in Threads : todo[t] = {}
  BY <1>3 DEF BaseInv, TodoInv, Threads, SerialLocs
<1>5. walking = {}
  BY <1>3 DEF walking
<1>6. \A t \in Threads : hand[t] = {}
  BY <1>3 DEF hand
<1>7. \A t \in Threads : hold[t] = {}
  BY <1>4, <1>6 DEF hold
<1> QED
  BY <1>1, <1>2, <1>3, <1>4, <1>5, <1>6, <1>7

\* A tick begins: the world thread holds every live base map, and every instance waits for its base map.
LEMMA BeginTickTick ==
  ASSUME IInv, BaseInv, BeginTick
  PROVE  TickInv'
<1> USE HoldTypes, ThreadAssumption DEF IInv, Threads
<1>1. /\ loc[World] = "idle"
      /\ loc' = [loc EXCEPT ![World] = "sched"]
      /\ todo' = [todo EXCEPT ![World] = live \cap BaseMaps]
      /\ updated' = {} /\ skipped' = {}
      /\ UNCHANGED <<activated, queueOn, queue, cur, req, live>>
  BY DEF BeginTick, Goto, pool
<1>2. /\ queue = <<>> /\ queued = {} /\ Busy = {} /\ walking = {}
      /\ \A t \in Threads : todo[t] = {} /\ hand[t] = {} /\ hold[t] = {}
      /\ \A t \in Threads : loc[t] \notin {"enq", "upd"}
  BY <1>1, Quiet DEF SerialLocs
<1>3. hand' = hand /\ hold' = [hold EXCEPT ![World] = live \cap BaseMaps] /\ queued' = queued
  <2>1. hand' = hand /\ queued' = queued
    BY <1>1, <1>2 DEF hand, queued
  <2>2. hold' = [hold EXCEPT ![World] = live \cap BaseMaps]
    BY <1>1, <1>2, <2>1 DEF hold
  <2> QED
    BY <2>1, <2>2
<1>4. walking' = {} /\ Busy' = {}
  BY <1>1, <1>2 DEF walking, Busy, BusyLocs
<1>5. DisjointInv'
  BY <1>1, <1>2, <1>3 DEF DisjointInv
<1>6. FreshInv'
  BY <1>1, <1>2, <1>3, MapAssumption DEF FreshInv
<1>7. CurInv'
  BY <1>4 DEF CurInv
<1>8. TodoInv'
  BY <1>1, <1>2 DEF TodoInv
<1>9. CoverInv'
  <2>1. \A m \in live : m \in hold'[World] \/ m \in Instances
    BY <1>1, <1>3 DEF Maps
  <2> QED
    BY <1>1, <2>1 DEF BaseInv, ParentInv, CoverInv
<1> QED
  BY <1>5, <1>6, <1>7, <1>8, <1>9 DEF TickInv

\* Maps are created and deleted, and the pool is started, only while nobody holds a map.
LEMMA QuietTick ==
  ASSUME IInv, TickInv, Initialize \/ UnloadAll \/ \E m \in Maps : CreateMap(m)
  PROVE  TickInv'
<1> USE HoldTypes, ThreadAssumption DEF IInv, Threads
<1>0. BaseInv
  BY DEF TickInv, CoverInv, BaseInv, ParentInv
<1>1. /\ loc[World] \in SerialLocs
      /\ \A t \in Threads : loc'[t] = loc[t] \/ loc'[t] \in {"idle", "delayed", "deq", "off", "dwait", "done"}
      /\ loc'[World] \in {"idle", "delayed", "dwait", "done"}
      /\ UNCHANGED <<queue, cur, req, todo, updated, skipped>>
      /\ \A i \in live' \cap Instances : ParentOf[i] \in live'
  <2>1. CASE Initialize
    BY <2>1 DEF Initialize, SerialLocs, hist, TickInv, CoverInv
  <2>2. CASE UnloadAll
    BY <1>0, <2>2, Quiet DEF UnloadAll, Goto, SerialLocs, hist
  <2>3. CASE \E m \in Maps : CreateMap(m)
    BY <2>3, MapAssumption DEF CreateMap, SerialLocs, hist, TickInv, CoverInv
  <2> QED
    BY <2>1, <2>2, <2>3
<1>2. /\ queue = <<>> /\ queued = {} /\ Busy = {} /\ walking = {}
      /\ \A t \in Threads : todo[t] = {} /\ hand[t] = {} /\ hold[t] = {}
      /\ \A t \in Threads : loc[t] \notin {"enq", "upd"}
  BY <1>0, <1>1, Quiet
<1>3. hand' = hand /\ queued' = queued
  BY <1>1, <1>2 DEF hand, queued
<1>4. hold' = hold
  BY <1>1, <1>3 DEF hold
<1>5. walking' = {} /\ Busy' = {}
  BY <1>1, <1>2 DEF walking, Busy, BusyLocs
<1>6. DisjointInv'
  BY <1>1, <1>2, <1>3, <1>4 DEF DisjointInv
<1>7. FreshInv'
  BY <1>1, <1>2, <1>3, <1>4 DEF TickInv, FreshInv
<1>8. CurInv'
  BY <1>5 DEF CurInv
<1>9. TodoInv'
  BY <1>1, <1>2 DEF TodoInv
<1>10. CoverInv'
  BY <1>1 DEF CoverInv, TickLocs
<1> QED
  BY <1>6, <1>7, <1>8, <1>9, <1>10 DEF TickInv

\* Steps that only move the world thread, or let a worker leave.
LEMMA MoveTick ==
  ASSUME IInv, TickInv,
         \/ EndSchedule \/ WaitTick \/ SpuriousWakeup \/ DelayedUpdate \/ WaitDeactivate \/ deactivate
         \/ Join \/ (\E w \in Workers : Exit(w)) \/ UNCHANGED vars
  PROVE  TickInv'
<1> USE HoldTypes, ThreadAssumption DEF IInv, Threads
<1>1. /\ UNCHANGED <<queue, cur, req, todo, live, updated, skipped>>
      /\ activated' = activated \/ activated' = FALSE
      /\ loc' \in [Threads -> WorldLocs \cup WorkerLocs]
      /\ \A w \in Workers : loc'[w] = loc[w] \/ (loc[w] = "deq" /\ loc'[w] = "exit")
      /\ \/ loc'[World] = loc[World]
         \/ /\ loc[World] \notin {"enq", "upd", "inst", "finish"} /\ todo[World] = {}
            /\ loc'[World] \in {"wait", "delayed", "sleep", "idle", "dsleep", "join", "done"}
            /\ loc'[World] \in TickLocs => loc[World] \in TickLocs
  BY DEF EndSchedule, AfterSchedule, WaitTick, wait, SpuriousWakeup, DelayedUpdate, WaitDeactivate, deactivate, Join,
         Exit, vars, pool, sync, hist, Goto, TickLocs, WorldLocs, WorkerLocs, TickInv, TodoInv, TypeOK
<1>2. hand' = hand /\ queued' = queued
  BY <1>1 DEF hand, queued
<1>3. hold' = hold
  BY <1>1, <1>2 DEF hold
<1>4. walking' = walking /\ Busy' = Busy
  BY <1>1 DEF walking, Busy, BusyLocs
<1>5. DisjointInv'
  BY <1>1, <1>2, <1>3 DEF TickInv, DisjointInv
<1>6. FreshInv'
  BY <1>1, <1>2, <1>3 DEF TickInv, FreshInv
<1>7. CurInv'
  BY <1>1, <1>4 DEF TickInv, CurInv
<1>8. TodoInv'
  BY <1>1 DEF TickInv, TodoInv
<1>9. CoverInv'
  BY <1>1, <1>2, <1>3 DEF TickInv, CoverInv
<1> QED
  BY <1>5, <1>6, <1>7, <1>8, <1>9 DEF TickInv

\* A thread inside an update finds the world thread before its barrier.
LEMMA InsideTick ==
  ASSUME IInv, NEW t \in Threads, loc[t] \in {"upd", "inst", "enq", "finish"}
  PROVE  loc[World] \in TickLocs
<1>1. CASE t = World
  BY <1>1 DEF IInv, TypeOK, WorldLocs, TickLocs
<1>2. CASE t # World
  <2>1. pending > 0
    BY <1>2, BusyCounted DEF Busy, BusyLocs, Threads
  <2> QED
    BY <2>1 DEF IInv, TypeOK, SerialInv, SerialLocs, WorldLocs, TickLocs
<1> QED
  BY <1>1, <1>2

\* A base map created inside a tick is held by the loop it came in time for, or given up.
LEMMA CreateTick ==
  ASSUME IInv, TickInv, BornInv, NEW t \in Threads, NEW m \in BaseMaps, CreateBaseMap(t, m), ~torn'
  PROVE  TickInv'
<1> USE HoldTypes, ThreadAssumption DEF IInv, Threads
<1>1. /\ m \notin live /\ live' = live \cup {m} /\ m \notin Instances
      /\ UNCHANGED <<activated, queue, loc, cur, req, updated>>
      /\ \/ todo' = [todo EXCEPT ![World] = @ \cup {m}] /\ LoopOpen /\ skipped' = skipped
         \/ todo' = todo /\ skipped' = skipped \cup {m}
  BY MapAssumption DEF CreateBaseMap, InsertAhead, InsertBehind, InsertGrows, pool
<1>2. loc[World] \in TickLocs
  BY InsideTick DEF CreateBaseMap
<1>3. m \notin updated /\ m \notin queued /\ \A u \in Threads : m \notin hold[u] /\ m \notin hand[u]
  BY <1>1, <1>2 DEF BornInv, TickInv, FreshInv, hold
<1>4. hand' = hand /\ queued' = queued /\ walking' = walking /\ Busy' = Busy
  BY <1>1 DEF hand, queued, walking, Busy
<1>5. \/ hold' = [hold EXCEPT ![World] = @ \cup {m}] /\ skipped' = skipped
      \/ hold' = hold /\ skipped' = skipped \cup {m}
  <2>1. CASE todo' = [todo EXCEPT ![World] = @ \cup {m}] /\ skipped' = skipped
    <3>1. hold' = [u \in Threads |-> todo'[u] \cup hand[u]]
      BY <1>4 DEF hold
    <3>2. hold = [u \in Threads |-> todo[u] \cup hand[u]]
      BY DEF hold
    <3> QED
      BY <2>1, <3>1, <3>2
  <2>2. CASE todo' = todo /\ skipped' = skipped \cup {m}
    BY <1>4, <2>2 DEF hold
  <2> QED
    BY <1>1, <2>1, <2>2
<1>6. DisjointInv'
  BY <1>1, <1>3, <1>4, <1>5 DEF TickInv, DisjointInv
<1>7. FreshInv'
  BY <1>1, <1>3, <1>4, <1>5 DEF TickInv, FreshInv
<1>8. CurInv'
  BY <1>1, <1>4 DEF TickInv, CurInv
<1>9. TodoInv'
  BY <1>1 DEF TickInv, TodoInv, LoopOpen
<1>10. CoverInv'
  BY <1>1, <1>4, <1>5 DEF TickInv, CoverInv
<1> QED
  BY <1>6, <1>7, <1>8, <1>9, <1>10 DEF TickInv

\* The initial states satisfy TickInv.
LEMMA InitTick == Init => TickInv
<1> SUFFICES ASSUME Init PROVE TickInv
  OBVIOUS
<1> USE ThreadAssumption DEF Init, Threads
<1>1. queued = {} /\ Busy = {} /\ walking = {}
  BY DEF queued, Busy, BusyLocs, walking
<1>2. \A t \in Threads : todo[t] = {} /\ hand[t] = {}
  BY DEF hand
<1>3. \A t \in Threads : hold[t] = {}
  BY <1>2 DEF hold
<1> QED
  BY <1>1, <1>2, <1>3 DEF TickInv, DisjointInv, FreshInv, CurInv, TodoInv, CoverInv, TickLocs

\* Every step of a tick whose table stays whole keeps TickInv.
LEMMA NextTick == IInv /\ TickInv /\ BornInv /\ [Next]_vars /\ ~torn' => TickInv'
<1> SUFFICES ASSUME IInv, TickInv, BornInv, [Next]_vars, ~torn' PROVE TickInv'
  OBVIOUS
<1>1. CASE \E t \in Threads : UpdateStep(t)
  <2> PICK t \in Threads : UpdateStep(t)
    BY <1>1
  <2>1. CASE \E i \in Instances : ScheduleInstance(t, i)
    BY <2>1, ScheduleTick DEF ScheduleInstance
  <2> QED
    BY <2>1, ExecuteTick, UpdateMapTick, InstanceTick, EndUpdateTick DEF UpdateStep
<1>2. CASE \E w \in Workers : WorkerStep(w)
  BY <1>2, DequeueTick, FinishTick, MoveTick DEF WorkerStep
<1>3. CASE TickStep
  <2>0. World \in Threads
    BY DEF Threads
  <2>1. CASE \E m \in BaseMaps : ScheduleBase(m)
    BY <2>0, <2>1, ScheduleTick DEF ScheduleBase
  <2>2. CASE \E m \in BaseMaps : UpdateInline(m)
    BY <2>2, InlineTick
  <2>3. CASE \E i \in Instances : UpdateInstanceInline(i)
    BY <2>0, <2>3, InstanceTick
  <2> QED
    BY <1>3, <2>1, <2>2, <2>3, MoveTick DEF TickStep
<1>4. CASE BeginTick
  BY <1>4, BeginTickTick DEF TickInv, CoverInv, BaseInv, ParentInv
<1>5. CASE \E t \in Threads, m \in BaseMaps : CreateBaseMap(t, m)
  BY <1>5, CreateTick
<1> QED
  BY <1>1, <1>2, <1>3, <1>4, <1>5, QuietTick, MoveTick DEF Next, Stopped

\* Every step of such a tick updates live maps only, and none deletes a base map before the tick is over.
LEMMA NextBorn == IInv /\ TickInv /\ BornInv /\ [Next]_vars => BornInv'
<1> SUFFICES ASSUME IInv, TickInv, BornInv, [Next]_vars, loc'[World] \in TickLocs
             PROVE  BaseMaps \cap updated' \subseteq live'
  BY DEF BornInv
<1> USE HoldTypes, ThreadAssumption, MapAssumption DEF IInv, Threads
<1>1. CASE BeginTick
  BY <1>1 DEF BeginTick
<1>2. CASE \E t \in Threads : UpdateMap(t)
  <2> PICK t \in Threads : UpdateMap(t)
    BY <1>2
  <2>1. loc[World] \in TickLocs
    BY InsideTick DEF UpdateMap
  <2>2. cur[t] \in live
    BY DEF UpdateMap, TickInv, FreshInv, hold, hand
  <2> QED
    BY <2>1, <2>2 DEF UpdateMap, BornInv
<1>3. CASE \E t \in Threads : execute(t) \/ EndUpdate(t)
                              \/ \E i \in Instances : ScheduleInstance(t, i) \/ DestroyInstance(t, i) \/ KeepInstance(t, i)
  <2> PICK t \in Threads : execute(t) \/ EndUpdate(t)
                           \/ \E i \in Instances : ScheduleInstance(t, i) \/ DestroyInstance(t, i) \/ KeepInstance(t, i)
    BY <1>3
  <2>1. loc[t] \in {"enq", "inst"} /\ updated' = updated /\ live \cap BaseMaps \subseteq live'
    BY DEF execute, EndUpdate, ScheduleInstance, schedule_update, DestroyInstance, KeepInstance, hist
  <2>2. loc[World] \in TickLocs
    BY <2>1, InsideTick
  <2> QED
    BY <2>1, <2>2 DEF BornInv
<1>4. CASE \E w \in Workers : WorkerStep(w)
  <2>1. updated' = updated /\ live' = live /\ (loc'[World] = loc[World] \/ loc'[World] = Woken(loc[World]))
    BY <1>4 DEF WorkerStep, dequeue, Exit, update_finished, Goto, hist
  <2>2. loc[World] \in TickLocs
    BY <2>1 DEF Woken, TickLocs
  <2> QED
    BY <2>1, <2>2 DEF BornInv
<1>5. CASE \E t \in Threads, m \in BaseMaps : CreateBaseMap(t, m)
  BY <1>5 DEF CreateBaseMap, BornInv
<1>6. CASE \E i \in Instances : UpdateInstanceInline(i)
  BY <1>6 DEF UpdateInstanceInline, BornInv
<1>7. CASE (\E m \in BaseMaps : ScheduleBase(m) \/ UpdateInline(m)) \/ EndSchedule \/ WaitTick \/ SpuriousWakeup
           \/ UNCHANGED vars
  <2>1. updated' = updated /\ live' = live /\ loc[World] \in TickLocs
    BY <1>7 DEF ScheduleBase, schedule_update, UpdateInline, EndSchedule, WaitTick, wait, SpuriousWakeup, vars, hist,
                TickLocs
  <2> QED
    BY <2>1 DEF BornInv
<1>8. ASSUME DelayedUpdate \/ WaitDeactivate \/ deactivate \/ Join \/ Initialize \/ UnloadAll \/ \E m \in Maps : CreateMap(m)
      PROVE  FALSE
  BY <1>8 DEF DelayedUpdate, WaitDeactivate, wait, deactivate, Join, Initialize, UnloadAll, CreateMap, Goto, TickLocs
<1> QED
  BY <1>1, <1>2, <1>3, <1>4, <1>5, <1>6, <1>7, <1>8 DEF Next, TickStep, UpdateStep, Stopped

\* Every step keeps BaseInv, in a torn tick too.
LEMMA NextBase == IInv /\ BaseInv /\ [Next]_vars => BaseInv'
<1> SUFFICES ASSUME IInv, BaseInv, [Next]_vars PROVE BaseInv'
  OBVIOUS
<1> USE HoldTypes, ThreadAssumption, MapAssumption DEF IInv, Threads, BaseInv
<1>1. CASE \E t \in Threads : UpdateStep(t)
  <2> PICK t \in Threads : UpdateStep(t)
    BY <1>1
  <2>1. CASE UpdateMap(t)
    BY <2>1 DEF UpdateMap, Goto, pool, TodoInv, ParentInv, InstancesOf
  <2>2. CASE execute(t)
    BY <2>2 DEF execute, Goto, pool, TodoInv, ParentInv
  <2>3. CASE \E i \in Instances : ScheduleInstance(t, i)
    BY <2>3 DEF ScheduleInstance, schedule_update, Advance, Goto, pool, TodoInv, ParentInv
  <2>4. CASE \E i \in Instances : DestroyInstance(t, i) \/ KeepInstance(t, i)
    BY <2>4 DEF DestroyInstance, KeepInstance, Advance, Erase, pool, TodoInv, ParentInv
  <2>5. CASE EndUpdate(t)
    BY <2>5 DEF EndUpdate, Goto, pool, TodoInv, ParentInv, Maps
  <2> QED
    BY <2>1, <2>2, <2>3, <2>4, <2>5 DEF UpdateStep
<1>2. CASE \E w \in Workers : WorkerStep(w)
  <2> PICK w \in Workers : WorkerStep(w)
    BY <1>2
  <2>1. /\ UNCHANGED <<activated, todo, live>>
        /\ loc'[World] = loc[World] \/ loc'[World] = Woken(loc[World])
        /\ \A v \in Workers : loc'[v] = loc[v] \/ loc[v] \in {"deq", "finish"}
    BY DEF WorkerStep, dequeue, Exit, update_finished, Goto, pool
  <2> QED
    BY <2>1 DEF Woken, TodoInv, ParentInv
<1>3. CASE \E t \in Threads, m \in BaseMaps : CreateBaseMap(t, m)
  <2> PICK t \in Threads, m \in BaseMaps : CreateBaseMap(t, m)
    BY <1>3
  <2>1. live' = live \cup {m} /\ m \notin Instances /\ UNCHANGED <<activated, loc>>
    BY DEF CreateBaseMap, pool
  <2>2. /\ \A w \in Workers : todo'[w] = todo[w]
        /\ todo'[World] = todo[World] \/ LoopOpen
        /\ todo'[World] \subseteq todo[World] \cup BaseMaps
    BY DEF CreateBaseMap, InsertAhead, InsertBehind, InsertGrows
  <2> QED
    BY <2>1, <2>2 DEF TodoInv, ParentInv, LoopOpen
<1>4. CASE \E m \in BaseMaps : ScheduleBase(m) \/ UpdateInline(m)
  BY <1>4 DEF ScheduleBase, schedule_update, UpdateInline, Advance, Goto, pool, TodoInv, ParentInv
<1>5. CASE \E i \in Instances : UpdateInstanceInline(i)
  BY <1>5 DEF UpdateInstanceInline, Advance, pool, TodoInv, ParentInv
<1>6. CASE BeginTick
  BY <1>6 DEF BeginTick, Goto, pool, TodoInv, ParentInv
<1>7. CASE UnloadAll \/ \E m \in Maps : CreateMap(m)
  BY <1>7 DEF UnloadAll, CreateMap, Goto, pool, TodoInv, ParentInv
<1>8. CASE Initialize
  <2>1. loc'[World] = "idle" /\ UNCHANGED <<todo, live>> /\ \A t \in Threads : todo[t] = {}
    BY <1>8, Quiet DEF Initialize, SerialLocs
  <2> QED
    BY <2>1 DEF TodoInv, ParentInv
<1>9. CASE EndSchedule \/ WaitTick \/ SpuriousWakeup \/ DelayedUpdate \/ WaitDeactivate \/ deactivate \/ Join
           \/ UNCHANGED vars
  <2>1. /\ UNCHANGED <<todo, live>> /\ \A w \in Workers : loc'[w] = loc[w]
        /\ activated' = activated \/ activated' = FALSE
        /\ loc'[World] = loc[World] \/ (todo[World] = {} /\ loc'[World] \notin {"upd", "inst"})
    BY <1>9 DEF EndSchedule, AfterSchedule, WaitTick, wait, SpuriousWakeup, DelayedUpdate, WaitDeactivate, deactivate,
           Join, vars, pool, Goto, TodoInv
  <2> QED
    BY <2>1 DEF TodoInv, ParentInv
<1> QED
  BY <1>1, <1>2, <1>3, <1>4, <1>5, <1>6, <1>7, <1>8, <1>9 DEF Next, TickStep, Stopped

\* Only a creation inside the tick tears it, and only the start of a tick makes the table whole again.
LEMMA TornKept ==
  ASSUME [Next]_vars, ~BeginTick, ~\E t \in Threads, m \in BaseMaps : CreateBaseMap(t, m)
  PROVE  torn' = torn
<1>1. CASE TickStep
  BY <1>1 DEF TickStep, ScheduleBase, schedule_update, UpdateInline, UpdateInstanceInline, EndSchedule, WaitTick,
              WaitDeactivate, wait, DelayedUpdate, deactivate, Join, hist
<1>2. CASE \E t \in Threads : UpdateStep(t)
  BY <1>2 DEF UpdateStep, UpdateMap, execute, ScheduleInstance, schedule_update, DestroyInstance, KeepInstance,
              EndUpdate, hist
<1>3. CASE \E w \in Workers : WorkerStep(w)
  BY <1>3 DEF WorkerStep, dequeue, Exit, update_finished, hist
<1>4. CASE Initialize \/ SpuriousWakeup \/ UnloadAll \/ UNCHANGED vars \/ \E m \in Maps : CreateMap(m)
  BY <1>4 DEF Initialize, SpuriousWakeup, UnloadAll, CreateMap, vars, hist
<1> QED
  BY <1>1, <1>2, <1>3, <1>4 DEF Next, Stopped

LEMMA TornLasts == torn /\ [Next]_vars => torn' \/ BeginTick
<1>1. ASSUME NEW t \in Threads, NEW m \in BaseMaps, CreateBaseMap(t, m), torn PROVE torn'
  BY <1>1 DEF CreateBaseMap, InsertAhead, InsertBehind, InsertGrows
<1> QED
  BY <1>1, TornKept

\* Every step keeps LoopInv.
LEMMA NextLoop == IInv /\ LoopInv /\ [Next]_vars => LoopInv'
<1> SUFFICES ASSUME IInv, LoopInv, [Next]_vars PROVE LoopInv'
  OBVIOUS
<1>1. BaseInv'
  BY NextBase DEF LoopInv
<1>2. ASSUME ~torn' PROVE TickInv' /\ BornInv'
  <2>1. CASE ~torn
    BY <1>2, <2>1, NextTick, NextBorn DEF LoopInv
  <2>2. CASE BeginTick
    <3>1. TickInv'
      BY <2>2, BeginTickTick DEF LoopInv
    <3>2. BornInv'
      BY <2>2 DEF BeginTick, BornInv
    <3> QED
      BY <3>1, <3>2
  <2> QED
    BY <1>2, <2>1, <2>2, TornLasts
<1> QED
  BY <1>1, <1>2 DEF LoopInv

\* Both invariants hold in every reachable state.
LEMMA TickInvariance == Spec => [](IInv /\ LoopInv)
<1>1. Init => IInv /\ LoopInv
  BY InitIInv, InitTick DEF LoopInv, BaseInv, ParentInv, TickInv, CoverInv, BornInv, Init
<1>2. (IInv /\ LoopInv) /\ [Next]_vars => (IInv /\ LoopInv)'
  BY NextIInv, NextLoop
<1> QED
  BY <1>1, <1>2, PTL DEF Spec

(***************************************************************************)
(* A MapUpdateRequest never refers to a deleted map, whatever instances    *)
(* are destroyed by the threads that walk over them and whatever base maps *)
(* are created, unless i_maps grew under the loop of this tick.            *)
(***************************************************************************)
THEOREM LiveMapsCorrect == Spec => []RequestsReferToLiveMaps
<1>1. IInv /\ LoopInv => RequestsReferToLiveMaps
  <2> SUFFICES ASSUME IInv, TickInv, ~torn PROVE RequestsReferToLiveMaps
    BY DEF LoopInv, RequestsReferToLiveMaps
  <2> USE HoldTypes DEF IInv
  <2>1. {queue[k] : k \in DOMAIN queue} \subseteq live
    BY DEF TickInv, FreshInv, queued
  <2>2. \A t \in Threads : loc[t] = "enq" => req[t] \in live
    BY DEF TickInv, FreshInv, hold, hand
  <2>3. \A w \in Busy : cur[w] \in live
    BY ThreadAssumption DEF TickInv, FreshInv, CurInv, Busy, BusyLocs, walking, hold, hand, Threads
  <2> QED
    BY <2>1, <2>2, <2>3 DEF RequestsReferToLiveMaps, Outstanding
<1> QED
  BY <1>1, TickInvariance, PTL

(***************************************************************************)
(* No map is updated twice in a tick or by two threads at once, unless     *)
(* i_maps grew under the loop of this tick.                                *)
(***************************************************************************)
THEOREM OncePerTickCorrect == Spec => []UpdatedOncePerTick
<1>1. IInv /\ LoopInv => UpdatedOncePerTick
  <2> SUFFICES ASSUME IInv, TickInv, ~torn PROVE UpdatedOncePerTick
    BY DEF LoopInv, UpdatedOncePerTick
  <2> USE HoldTypes DEF IInv
  <2>1. \A k \in DOMAIN queue : queue[k] \in queued /\ queue[k] \notin updated
    BY DEF TickInv, FreshInv, queued
  <2>2. \A w \in Busy : cur[w] \in updated \/ cur[w] \in hold[w]
    BY ThreadAssumption DEF TickInv, CurInv, Busy, BusyLocs, walking, hold, hand, Threads
  <2>3. \A w \in Busy : cur[w] \notin queued
    BY <2>2 DEF TickInv, DisjointInv, FreshInv, Busy, Threads
  <2>4. \A t \in Threads : loc[t] = "upd" => cur[t] \notin updated
    BY DEF TickInv, FreshInv, hold, hand
  <2> QED
    BY <2>1, <2>3, <2>4 DEF TickInv, DisjointInv, CurInv, UpdatedOncePerTick
<1> QED
  BY <1>1, TickInvariance, PTL

-----------------------------------------------------------------------------
(* The refinement. *)

\* What a thread does inside an update is an Update, a Skip or a Destroy of the tick, or nothing.
LEMMA UpdateRefines ==
  ASSUME IInv, TickInv, NEW t \in Threads, UpdateStep(t), torn' = torn
  PROVE  [Tick!Next]_(Tick!vars)
<1> USE HoldTypes, ThreadAssumption DEF IInv
<1>1. loc[t] \in {"upd", "inst", "enq"}
  BY DEF UpdateStep, UpdateMap, execute, ScheduleInstance, DestroyInstance, KeepInstance, EndUpdate
<1>2. loc[World] \in TickLocs
  BY <1>1, InsideTick
<1>3. loc'[World] \in TickLocs
  BY <1>2 DEF UpdateStep, UpdateMap, execute, ScheduleInstance, schedule_update, DestroyInstance, KeepInstance,
              EndUpdate, Goto, TickLocs, Threads
<1>4. Phase = "updating" /\ Phase' = "updating"
  BY <1>2, <1>3 DEF Phase, TickLocs
<1>5. CASE UpdateMap(t)
  <2>1. cur[t] \in live \ updated /\ cur[t] \in BaseMaps \cup Instances
    BY <1>5 DEF UpdateMap, TickInv, FreshInv, hold, hand, Maps
  <2>2. updated' = updated \cup {cur[t]} /\ UNCHANGED <<live, skipped>>
    BY <1>5 DEF UpdateMap
  <2>3. Tick!Update(cur[t])
    BY <1>4, <2>1, <2>2 DEF Tick!Update
  <2> QED
    BY <2>1, <2>3 DEF Tick!Next
<1>6. CASE execute(t)
  <2>1. req[t] \in live \ updated /\ req[t] \in BaseMaps \cup Instances
    BY <1>6 DEF execute, TickInv, FreshInv, hold, hand, Maps
  <2>2. UNCHANGED <<live, updated>> /\ (skipped' = skipped \/ skipped' = skipped \cup {req[t]})
    BY <1>6 DEF execute
  <2>3. Tick!Skip(req[t]) \/ UNCHANGED Tick!vars
    BY <1>4, <2>1, <2>2 DEF Tick!Skip, Tick!vars
  <2> QED
    BY <2>1, <2>3 DEF Tick!Next
<1>7. CASE \E i \in Instances : DestroyInstance(t, i) \/ KeepInstance(t, i)
  <2> PICK i \in Instances : DestroyInstance(t, i) \/ KeepInstance(t, i)
    BY <1>7
  <2>1. i \in live \ updated
    BY DEF DestroyInstance, KeepInstance, TickInv, FreshInv, hold
  <2>2. Tick!Destroy(i) \/ Tick!Skip(i)
    BY <1>4, <2>1 DEF DestroyInstance, KeepInstance, hist, Tick!Destroy, Tick!Skip
  <2> QED
    BY <2>2 DEF Tick!Next
<1>8. CASE EndUpdate(t) \/ \E i \in Instances : ScheduleInstance(t, i)
  BY <1>4, <1>8 DEF EndUpdate, ScheduleInstance, schedule_update, hist, Tick!vars
<1> QED
  BY <1>5, <1>6, <1>7, <1>8 DEF UpdateStep

\* At the barrier every live map is dealt with.
LEMMA AtBarrier ==
  ASSUME IInv, TickInv, pending = 0, loc[World] \in {"sched", "wait"}, todo[World] = {}
  PROVE  \A m \in live : Tick!Covered(m)
<1> USE HoldTypes, ThreadAssumption DEF IInv, Threads
<1>1. queue = <<>> /\ Busy = {} /\ mutex = NoThread
  BY NothingPending
<1>2. queued = {}
  BY <1>1 DEF queued
<1>3. \A t \in Threads : loc[t] \notin {"enq", "upd", "inst"}
  BY <1>1 DEF Busy, BusyLocs
<1>4. \A t \in Threads : todo[t] = {} /\ hand[t] = {}
  BY <1>3 DEF TickInv, TodoInv, hand
<1>5. \A t \in Threads : hold[t] = {}
  BY <1>4 DEF hold
<1>6. \A m \in live : m \in updated \cup skipped \/ (m \in Instances /\ ParentOf[m] \notin updated)
  BY <1>2, <1>5 DEF TickInv, CoverInv, TickLocs
<1>7. \A m \in live \cap Instances : ParentOf[m] \in live /\ ParentOf[m] \notin Instances
  BY MapAssumption DEF TickInv, CoverInv
<1> QED
  BY <1>6, <1>7 DEF Tick!Covered

\* What the world thread does inside a tick.
LEMMA WorldRefines ==
  ASSUME IInv, TickInv, torn' = torn,
         \/ \E m \in BaseMaps : ScheduleBase(m) \/ UpdateInline(m)
         \/ \E i \in Instances : UpdateInstanceInline(i)
         \/ EndSchedule \/ WaitTick
  PROVE  [Tick!Next]_(Tick!vars)
<1> USE HoldTypes, ThreadAssumption DEF IInv, Threads
<1>1. CASE \E m \in BaseMaps : ScheduleBase(m) \/ UpdateInline(m)
  <2>1. UNCHANGED <<live, updated, skipped>> /\ loc[World] = "sched" /\ loc'[World] \in {"enq", "upd"}
    BY <1>1 DEF ScheduleBase, schedule_update, UpdateInline, Goto, hist
  <2> QED
    BY <2>1 DEF Phase, Tick!vars
<1>2. CASE \E i \in Instances : UpdateInstanceInline(i)
  <2> PICK i \in Instances : UpdateInstanceInline(i)
    BY <1>2
  <2>1. i \in live \ updated
    BY DEF UpdateInstanceInline, TickInv, FreshInv, hold
  <2>2. /\ updated' = updated \cup {i} /\ UNCHANGED <<live, skipped>>
        /\ loc[World] = "inst" /\ loc' = loc
    BY DEF UpdateInstanceInline
  <2>3. Tick!Update(i)
    BY <2>1, <2>2 DEF Tick!Update, Phase
  <2> QED
    BY <2>3 DEF Tick!Next
<1>3. CASE EndSchedule
  <2>1. /\ UNCHANGED <<live, updated, skipped>> /\ loc[World] = "sched" /\ todo[World] = {}
        /\ IF activated THEN loc'[World] = "wait" ELSE loc'[World] = "delayed"
    BY <1>3 DEF EndSchedule, AfterSchedule, Goto, hist
  <2>2. CASE activated
    BY <2>1, <2>2 DEF Phase, Tick!vars
  <2>3. CASE ~activated
    <3>1. \A m \in live : Tick!Covered(m)
      BY <2>1, <2>3, AtBarrier DEF SerialInv
    <3>2. Tick!Barrier
      BY <2>1, <2>3, <3>1 DEF Phase, Tick!Barrier
    <3> QED
      BY <3>2 DEF Tick!Next
  <2> QED
    BY <2>2, <2>3
<1>4. CASE WaitTick
  <2>1. /\ UNCHANGED <<live, updated, skipped>> /\ loc[World] = "wait" /\ todo[World] = {} /\ pending \in Nat
        /\ IF pending > 0 THEN loc'[World] = "sleep" ELSE loc'[World] = "delayed"
    BY <1>4 DEF WaitTick, wait, MustSleep, Goto, hist, TickInv, TodoInv, TypeOK
  <2>2. CASE pending > 0
    BY <2>1, <2>2 DEF Phase, Tick!vars
  <2>3. CASE pending = 0
    <3>1. \A m \in live : Tick!Covered(m)
      BY <2>1, <2>3, AtBarrier
    <3>2. Tick!Barrier
      BY <2>1, <2>3, <3>1 DEF Phase, Tick!Barrier
    <3> QED
      BY <3>2 DEF Tick!Next
  <2> QED
    BY <2>1, <2>2, <2>3
<1> QED
  BY <1>1, <1>2, <1>3, <1>4

\* What a worker does between two updates is nothing to the tick.
LEMMA WorkerRefines ==
  ASSUME IInv, NEW w \in Workers, WorkerStep(w), torn' = torn
  PROVE  [Tick!Next]_(Tick!vars)
<1> USE HoldTypes, ThreadAssumption DEF IInv, Threads
<1>1. UNCHANGED <<live, updated, skipped>>
  BY DEF WorkerStep, dequeue, Exit, update_finished, hist
<1>2. loc'[World] = loc[World] \/ loc'[World] = Woken(loc[World])
  BY DEF WorkerStep, dequeue, Exit, update_finished, Goto
<1>3. Phase' = Phase
  BY <1>2 DEF Phase, Woken
<1> QED
  BY <1>1, <1>3 DEF Tick!vars

\* What the world thread does outside a tick.
LEMMA OutsideRefines ==
  ASSUME IInv, BeginTick \/ torn' = torn,
         \/ Initialize \/ (\E m \in Maps : CreateMap(m)) \/ BeginTick \/ SpuriousWakeup \/ DelayedUpdate \/ UnloadAll
         \/ WaitDeactivate \/ deactivate \/ Join \/ UNCHANGED vars
  PROVE  [Tick!Next]_(Tick!vars)
<1> USE HoldTypes, ThreadAssumption DEF IInv, Threads
<1>1. CASE Initialize \/ SpuriousWakeup \/ UNCHANGED vars
  <2>1. UNCHANGED <<live, updated, skipped, torn>>
    BY <1>1 DEF Initialize, SpuriousWakeup, vars, hist
  <2>2. \/ loc[World] = "boot" /\ loc'[World] = "idle"
        \/ loc[World] = "sleep" /\ loc'[World] = "wait"
        \/ loc' = loc
    BY <1>1 DEF Initialize, SpuriousWakeup, Goto, vars
  <2> QED
    BY <2>1, <2>2 DEF Phase, Tick!vars
<1>2. CASE \E m \in Maps : CreateMap(m)
  <2>1. /\ loc' = loc /\ UNCHANGED <<updated, skipped, torn>> /\ live \subseteq live'
        /\ \/ loc[World] = "idle" /\ live' \subseteq BaseMaps \cup Instances
           \/ loc[World] = "delayed" /\ live' \subseteq live \cup BaseMaps
    BY <1>2, MapAssumption DEF CreateMap, Maps, hist
  <2>3. Tick!Create
    BY <2>1 DEF Phase, Tick!Create
  <2> QED
    BY <2>3 DEF Tick!Next
<1>3. CASE BeginTick
  <2>1. /\ loc[World] = "idle" /\ loc'[World] = "sched"
        /\ updated' = {} /\ skipped' = {} /\ torn' = FALSE /\ live' = live
    BY <1>3 DEF BeginTick, Goto
  <2>2. Tick!Begin
    BY <2>1 DEF Phase, Tick!Begin
  <2> QED
    BY <2>2 DEF Tick!Next
<1>4. CASE UnloadAll
  <2>1. /\ loc[World] = "idle" /\ loc'[World] \in {"dwait", "done"}
        /\ live' = {} /\ UNCHANGED <<updated, skipped, torn>>
    BY <1>4 DEF UnloadAll, Goto, hist
  <2>2. Tick!Stop
    BY <2>1 DEF Phase, Tick!Stop
  <2> QED
    BY <2>2 DEF Tick!Next
<1>5. CASE DelayedUpdate
  <2>1. UNCHANGED <<live, updated, skipped, torn>> /\ loc[World] = "delayed" /\ loc'[World] = "idle"
    BY <1>5 DEF DelayedUpdate, Goto, hist
  <2>2. Tick!Finish
    BY <2>1 DEF Phase, Tick!Finish
  <2> QED
    BY <2>2 DEF Tick!Next
<1>6. CASE WaitDeactivate \/ deactivate \/ Join
  <2>1. /\ UNCHANGED <<live, updated, skipped, torn>>
        /\ loc[World] \in {"dwait", "dsleep", "join", "done"} /\ loc'[World] \in {"dwait", "dsleep", "join", "done"}
    BY <1>6 DEF WaitDeactivate, wait, deactivate, Join, Goto, hist
  <2> QED
    BY <2>1 DEF Phase, Tick!vars
<1> QED
  BY <1>1, <1>2, <1>3, <1>4, <1>5, <1>6

\* A base map created inside a tick, with the table whole before.
LEMMA CreateRefines ==
  ASSUME IInv, NEW t \in Threads, NEW m \in BaseMaps, CreateBaseMap(t, m), ~torn
  PROVE  [Tick!Next]_(Tick!vars)
<1>1. loc[World] \in TickLocs /\ loc' = loc
  BY InsideTick DEF CreateBaseMap
<1>2. Phase = "updating" /\ Phase' = "updating"
  BY <1>1 DEF Phase, TickLocs
<1>3. Tick!CreateLate(m) \/ Tick!Tear(m)
  <2>1. CASE InsertAhead(m) \/ InsertBehind(m)
    BY <1>2, <2>1 DEF CreateBaseMap, InsertAhead, InsertBehind, Tick!CreateLate
  <2>2. CASE InsertGrows(m)
    BY <1>2, <2>2 DEF CreateBaseMap, InsertGrows, Tick!Tear
  <2> QED
    BY <2>1, <2>2 DEF CreateBaseMap
<1> QED
  BY <1>3 DEF Tick!Next

\* The rest of a torn tick is open: the world thread can only go on or reach DelayedUpdate.
LEMMA AstrayRefines ==
  ASSUME IInv, torn, torn', loc[World] \in TickLocs, [Next]_vars
  PROVE  [Tick!Next]_(Tick!vars)
<1> USE HoldTypes, ThreadAssumption DEF IInv, Threads
<1>1. loc'[World] \in TickLocs \cup {"delayed"}
  <2>1. CASE TickStep
    BY <2>1 DEF TickStep, ScheduleBase, schedule_update, UpdateInline, UpdateInstanceInline, EndSchedule, AfterSchedule,
                WaitTick, WaitDeactivate, wait, DelayedUpdate, deactivate, Join, Goto, TickLocs
  <2>2. CASE \E t \in Threads : UpdateStep(t)
    BY <2>2 DEF UpdateStep, UpdateMap, execute, ScheduleInstance, schedule_update, DestroyInstance, KeepInstance,
                EndUpdate, Goto, TickLocs
  <2>3. CASE \E w \in Workers : WorkerStep(w)
    BY <2>3 DEF WorkerStep, dequeue, Exit, update_finished, Woken, Goto, TickLocs
  <2>4. CASE Initialize \/ BeginTick \/ SpuriousWakeup \/ UnloadAll \/ UNCHANGED vars \/ (\E m \in Maps : CreateMap(m))
             \/ \E t \in Threads, m \in BaseMaps : CreateBaseMap(t, m)
    BY <2>4 DEF Initialize, BeginTick, SpuriousWakeup, UnloadAll, CreateMap, CreateBaseMap, vars, Goto, TickLocs
  <2> QED
    BY <2>1, <2>2, <2>3, <2>4 DEF Next, Stopped
<1>2. Phase = "updating" /\ Phase' \in {"updating", "delayed"}
  BY <1>1 DEF Phase, TickLocs
<1>3. Tick!Astray
  BY <1>2, Zenon DEF Tick!Astray, TypeOK
<1> QED
  BY <1>3 DEF Tick!Next

\* Every step is a step of MapTick or leaves its variables alone.
LEMMA NextRefines == IInv /\ LoopInv /\ [Next]_vars => [Tick!Next]_(Tick!vars)
<1> SUFFICES ASSUME IInv, LoopInv, [Next]_vars PROVE [Tick!Next]_(Tick!vars)
  OBVIOUS
<1>1. CASE BeginTick
  BY <1>1, OutsideRefines
<1>2. CASE ~torn /\ \E t \in Threads, m \in BaseMaps : CreateBaseMap(t, m)
  BY <1>2, CreateRefines
<1>3. CASE ~torn /\ ~BeginTick /\ ~\E t \in Threads, m \in BaseMaps : CreateBaseMap(t, m)
  <2>1. torn' = torn /\ TickInv
    BY <1>3, TornKept DEF LoopInv
  <2> QED
    BY <1>3, <2>1, UpdateRefines, WorldRefines, WorkerRefines, OutsideRefines DEF Next, TickStep, Stopped
<1>4. CASE torn /\ ~BeginTick /\ loc[World] \in TickLocs
  BY <1>4, TornLasts, AstrayRefines
<1>5. CASE torn /\ ~BeginTick /\ loc[World] \notin TickLocs
  <2>1. /\ ~\E t \in Threads : UpdateStep(t)
        /\ ~\E t \in Threads, m \in BaseMaps : CreateBaseMap(t, m)
    BY <1>5, InsideTick DEF UpdateStep, UpdateMap, execute, ScheduleInstance, DestroyInstance, KeepInstance, EndUpdate,
                            CreateBaseMap
  <2>2. ~\/ \E m \in BaseMaps : ScheduleBase(m) \/ UpdateInline(m)
         \/ \E i \in Instances : UpdateInstanceInline(i)
         \/ EndSchedule \/ WaitTick
    BY <1>5 DEF ScheduleBase, UpdateInline, UpdateInstanceInline, EndSchedule, WaitTick, wait, TickLocs
  <2>3. torn' = torn
    BY <1>5, <2>1, TornKept
  <2> QED
    BY <2>1, <2>2, <2>3, WorkerRefines, OutsideRefines DEF Next, TickStep, Stopped
<1> QED
  BY <1>1, <1>2, <1>3, <1>4, <1>5

(***************************************************************************)
(* The threaded updater implements the sequential tick: live maps are      *)
(* updated one by one and at most once, and DelayedUpdate starts only when *)
(* each live map, those created inside the tick included, is updated,      *)
(* given up, or an instance of a base map that was given up.  A creation   *)
(* that makes i_maps grow under the loop ends the promise for that tick    *)
(* and for that tick only.                                                 *)
(***************************************************************************)
THEOREM TickImplemented == Spec => ImplementsTick
<1>1. Init => Tick!Init
  BY DEF Init, Phase, Tick!Init, Threads
<1> QED
  BY <1>1, NextRefines, TickInvariance, PTL DEF Spec, ImplementsTick, Tick!Spec
=============================================================================
