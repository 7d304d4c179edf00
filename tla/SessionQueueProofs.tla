------------------------- MODULE SessionQueueProofs -------------------------
(***************************************************************************)
(* The proofs about SessionQueue: its invariants, and what a step may do   *)
(* to the queue.                                                           *)
(*                                                                         *)
(* The operators of the model map a world to a world, so most of the work  *)
(* is in lemmas about them: RemoveQueuedPlayer, SetField, KickPlayer,      *)
(* Replaced and AddQueuedPlayer each keep WorldInv and say what becomes of *)
(* the queue, of m_sessions and of the number of sessions in the world.    *)
(* LeaveKeeps and AdmitKeeps put them together for the two handlers that   *)
(* call several of them, and the actions follow.                           *)
(***************************************************************************)
EXTENDS SessionQueue, FiniteSetTheorems, TLAPS

Fields ==
    [inQueue : BOOLEAN, open : BOOLEAN, forceExit : BOOLEAN, expireTime : Nat,
     player : {"none", "loading", "refused", "inworld", "leaving"},
     chars : {"unknown", "asked", "known"}, pos : Nat]

Worlds ==
    [sessions : [Accounts -> Sessions \cup {NoSession}],
     queue    : Seq(Sessions),
     alive    : SUBSET Sessions,
     sess     : [Sessions -> Fields]]

Distinct(q) == \A j, k \in DOMAIN q : q[j] = q[k] => j = k

\* m_sessions has a session under its account.
Owned(w) == \A a \in Accounts : w.sessions[a] # NoSession => AccountOf[w.sessions[a]] = a

\* A session that m_sessions has not, or not any more, has done nothing but connect.
Off(w) == \A s \in Sessions \ Online(w) : /\ ~w.sess[s].inQueue
                                          /\ w.sess[s].player = "none"
                                          /\ w.sess[s].chars = "unknown"

\* A client that waits has no character.
Waits(w) == \A s \in Sessions : w.sess[s].inQueue => w.sess[s].player = "none"

Queued(w) == \A k \in DOMAIN w.queue : w.queue[k] \in Online(w) /\ w.sess[w.queue[k]].inQueue

Shown(w) == \A k \in DOMAIN w.queue : w.sess[w.queue[k]].pos = k

\* Who has m_inQueue set waits.
Flagged(w) == \A s \in Sessions : w.sess[s].inQueue => Listed(w.queue, s)

WorldInv(w) ==
    /\ w \in Worlds
    /\ Owned(w)
    /\ Online(w) \subseteq w.alive
    /\ Off(w)
    /\ Waits(w)
    /\ Distinct(w.queue)
    /\ Queued(w)
    /\ Shown(w)

\* Somebody waits only when n sessions or more are in the world.
Full(w, n) == w.queue # <<>> => n > 0 /\ GetActiveSessionCount(w) >= n

\* addSessQueue and the sessions to come are not in m_sessions.
HandInv ==
    /\ unborn \subseteq Sessions \ world.alive
    /\ addSessQueue \in Seq(Sessions)
    /\ Distinct(addSessQueue)
    /\ \A k \in DOMAIN addSessQueue : addSessQueue[k] \in world.alive \ Online(world)

\* The sessions of m_sessions stay while UpdateSessions goes over them.
CurInv ==
    /\ phase \in {"idle", "adding", "updating", "stopped", "gone"}
    /\ todo \subseteq Online(world)
    /\ cur \in Online(world) \cup {NoSession}
    /\ cur \notin todo
    /\ phase # "updating" => cur = NoSession /\ todo = {}

(***************************************************************************)
(* After KickAll a session is on its way out or has come too late to log a *)
(* character in: its enumeration is not answered before its Update ends.   *)
(***************************************************************************)
Kicked(f)  == ~f.open /\ f.forceExit
Unasked(f) == f.player = "none" /\ f.chars = "unknown"
TooLate(f) == f.player \in {"none", "refused"} /\ f.chars \in {"unknown", "asked"}

StopInv ==
    /\ stopping \in BOOLEAN
    /\ stopping => phase # "idle"
    /\ phase \in {"stopped", "gone"} => stopping
    /\ stopping => \A s \in Online(world) :
            /\ phase = "adding" \/ s \in todo => Kicked(world.sess[s]) \/ Unasked(world.sess[s])
            /\ s = cur => Kicked(world.sess[s]) \/ TooLate(world.sess[s])
            /\ phase # "adding" /\ s \notin todo /\ s # cur => ~InWorld(world.sess[s])

\* Nobody waits while there is room.
LimitInv ==
    /\ limit \in Limits
    /\ Limits = {limit} => Full(world, limit)

Inv ==
    /\ WorldInv(world)
    /\ ~stopping => Flagged(world)
    /\ HandInv
    /\ CurInv
    /\ StopInv
    /\ LimitInv
-----------------------------------------------------------------------------
(* Queues. *)

\* What CHOOSE finds in a queue.
LEMMA PosFacts ==
  ASSUME NEW q, NEW s
  PROVE  /\ Listed(q, s) => QueuePos(q, s) \in DOMAIN q /\ q[QueuePos(q, s)] = s
         /\ Distinct(q) => \A k \in DOMAIN q : q[k] = s => QueuePos(q, s) = k
<1>1. Listed(q, s) => QueuePos(q, s) \in DOMAIN q /\ q[QueuePos(q, s)] = s
  BY Zenon DEF Listed, QueuePos
<1>2. ASSUME Distinct(q), NEW k \in DOMAIN q, q[k] = s PROVE QueuePos(q, s) = k
  <2>1. Listed(q, s)
    BY <1>2 DEF Listed
  <2> QED BY <1>1, <1>2, <2>1, Zenon DEF Distinct
<1> QED BY <1>1, <1>2

\* p has some elements of q, in the order of q.
Sub(p, q) ==
    /\ \A i \in DOMAIN p : \E a \in DOMAIN q : p[i] = q[a]
    /\ \A i, j \in DOMAIN p : i < j => \E a, b \in DOMAIN q : a < b /\ p[i] = q[a] /\ p[j] = q[b]

\* Nobody left the queue, except s, before everyone ahead had left it.
Fifo(p, q, s) == \A a, b \in DOMAIN q : a < b /\ Listed(p, q[a]) => Listed(p, q[b]) \/ q[b] = s

\* A part of a queue without repetitions has none.
LEMMA SubDistinct ==
  ASSUME NEW p \in Seq(Sessions), NEW q \in Seq(Sessions), Sub(p, q), Distinct(q)
  PROVE  Distinct(p)
<1>1. SUFFICES ASSUME NEW i \in DOMAIN p, NEW j \in DOMAIN p, p[i] = p[j], i < j PROVE FALSE
  <2>1. \A i, j \in DOMAIN p : i < j \/ j < i \/ i = j
    OBVIOUS
  <2> QED BY <1>1, <2>1 DEF Distinct
<1>2. PICK a \in DOMAIN q, b \in DOMAIN q : a < b /\ p[i] = q[a] /\ p[j] = q[b]
  BY <1>1 DEF Sub
<1>3. a = b
  BY <1>1, <1>2 DEF Distinct
<1> QED BY <1>2, <1>3

\* A part of a part.
LEMMA SubTrans ==
  ASSUME NEW o \in Seq(Sessions), NEW p \in Seq(Sessions), NEW q \in Seq(Sessions), Sub(o, p), Sub(p, q)
  PROVE  Sub(o, q)
<1>1. ASSUME NEW i \in DOMAIN o PROVE \E a \in DOMAIN q : o[i] = q[a]
  BY DEF Sub
<1>2. ASSUME NEW i \in DOMAIN o, NEW j \in DOMAIN o, i < j
      PROVE  \E a, b \in DOMAIN q : a < b /\ o[i] = q[a] /\ o[j] = q[b]
  <2>1. PICK c \in DOMAIN p, d \in DOMAIN p : c < d /\ o[i] = p[c] /\ o[j] = p[d]
    BY <1>2 DEF Sub
  <2> QED BY <2>1 DEF Sub
<1> QED BY <1>1, <1>2 DEF Sub

\* Whoever is in the part is behind whom it was behind.
LEMMA SubOrder ==
  ASSUME NEW p \in Seq(Sessions), NEW q \in Seq(Sessions), Sub(p, q), Distinct(q),
         NEW i \in DOMAIN p, NEW j \in DOMAIN p, NEW a \in DOMAIN q, NEW b \in DOMAIN q,
         p[i] = q[a], p[j] = q[b], a < b
  PROVE  i < j
<1>1. SUFFICES ASSUME ~(i < j) PROVE FALSE
  OBVIOUS
<1>2. i # j
  BY DEF Distinct
<1>3. j < i
  BY <1>1, <1>2
<1>4. PICK c \in DOMAIN q, d \in DOMAIN q : c < d /\ p[j] = q[c] /\ p[i] = q[d]
  BY <1>3 DEF Sub
<1>5. c = b /\ d = a
  BY <1>4 DEF Distinct
<1> QED BY <1>4, <1>5

\* First in, first out, twice.
LEMMA FifoTrans ==
  ASSUME NEW o \in Seq(Sessions), NEW p \in Seq(Sessions), NEW q \in Seq(Sessions), NEW s,
         Sub(o, p), Sub(p, q), Distinct(q), Fifo(o, p, s), Fifo(p, q, s)
  PROVE  Fifo(o, q, s)
<1>1. SUFFICES ASSUME NEW a \in DOMAIN q, NEW b \in DOMAIN q, a < b, Listed(o, q[a]), q[b] # s
               PROVE  Listed(o, q[b])
  BY DEF Fifo
<1>2. PICK i \in DOMAIN p : p[i] = q[a]
  BY <1>1 DEF Sub, Listed
<1>3. Listed(p, q[b])
  BY <1>1, <1>2 DEF Fifo, Listed
<1>4. PICK j \in DOMAIN p : p[j] = q[b]
  BY <1>3 DEF Listed
<1>5. i < j
  BY <1>1, <1>2, <1>4, SubOrder
<1> QED BY <1>1, <1>2, <1>4, <1>5 DEF Fifo

\* m_QueuedPlayer.erase: those behind move up by one place.
LEMMA EraseFacts ==
  ASSUME NEW q \in Seq(Sessions), NEW k \in DOMAIN q, NEW e, e = EraseAt(q, k)
  PROVE  /\ e \in Seq(Sessions)
         /\ Len(e) = Len(q) - 1
         /\ \A i \in DOMAIN e : i < k => i \in DOMAIN q /\ e[i] = q[i]
         /\ \A i \in DOMAIN e : ~(i < k) => i + 1 \in DOMAIN q /\ e[i] = q[i + 1]
         /\ \A i \in DOMAIN q : i < k => i \in DOMAIN e /\ e[i] = q[i]
         /\ \A i \in DOMAIN q : i > k => i - 1 \in DOMAIN e /\ e[i - 1] = q[i]
<1>1. Len(q) \in Nat /\ Len(q) - 1 \in Nat /\ DOMAIN q = 1 .. Len(q)
  OBVIOUS
<1>2. DOMAIN e = 1 .. Len(q) - 1 /\ \A i \in DOMAIN e : e[i] = IF i < k THEN q[i] ELSE q[i + 1]
  BY DEF EraseAt
<1>3. \A i \in 1 .. Len(q) - 1 : i \in 1 .. Len(q) /\ i + 1 \in 1 .. Len(q)
  BY <1>1
<1>4. \A i \in DOMAIN e : e[i] \in Sessions
  BY <1>1, <1>2, <1>3
<1>5. e = [i \in 1 .. Len(q) - 1 |-> e[i]]
  BY <1>2 DEF EraseAt
<1>6. e \in Seq(Sessions) /\ Len(e) = Len(q) - 1
  BY <1>1, <1>2, <1>4, <1>5
<1>7. \A i \in DOMAIN e : i < k => i \in DOMAIN q /\ e[i] = q[i]
  BY <1>1, <1>2, <1>3
<1>8. \A i \in DOMAIN e : ~(i < k) => i + 1 \in DOMAIN q /\ e[i] = q[i + 1]
  BY <1>1, <1>2, <1>3
<1>9. \A i \in DOMAIN q : i < k => i \in DOMAIN e
  BY <1>1, <1>2
<1>10. \A i \in DOMAIN q : i > k => i - 1 \in DOMAIN e /\ ~(i - 1 < k) /\ i - 1 + 1 = i
  BY <1>1, <1>2
<1> QED BY <1>6, <1>7, <1>8, <1>9, <1>10

\* m_QueuedPlayer.pop_front.
LEMMA TailFacts ==
  ASSUME NEW q \in Seq(Sessions), q # <<>>, NEW e, e = Tail(q)
  PROVE  /\ e \in Seq(Sessions)
         /\ Len(e) = Len(q) - 1
         /\ Head(q) = q[1] /\ 1 \in DOMAIN q
         /\ \A i \in DOMAIN e : i + 1 \in DOMAIN q /\ e[i] = q[i + 1]
         /\ \A i \in DOMAIN q : i = 1 \/ (i - 1 \in DOMAIN e /\ e[i - 1] = q[i])
<1>1. Len(q) \in Nat /\ Len(q) # 0 /\ DOMAIN q = 1 .. Len(q)
  OBVIOUS
<1>2. /\ e \in Seq(Sessions)
      /\ Len(e) = Len(q) - 1
      /\ Head(q) = q[1] /\ 1 \in DOMAIN q
      /\ \A i \in DOMAIN e : i + 1 \in DOMAIN q /\ e[i] = q[i + 1]
  OBVIOUS
<1>3. \A i \in DOMAIN q : i = 1 \/ (i - 1 \in DOMAIN e /\ i - 1 + 1 = i)
  BY <1>1, <1>2
<1> QED BY <1>2, <1>3
-----------------------------------------------------------------------------
(* RemoveQueuedPlayer.  Its parts have the names they have there. *)

Rest(w, s)    == IF Listed(w.queue, s) THEN EraseAt(w.queue, QueuePos(w.queue, s)) ELSE w.queue
Accepts(w, s) == Rest(w, s) # <<>> /\ MayAccept(CountWithout(GetActiveSessionCount(w), Listed(w.queue, s)))
Left(w, s)    == IF Accepts(w, s) THEN Tail(Rest(w, s)) ELSE Rest(w, s)
First(w, s)   == FirstMoved(Accepts(w, s), Listed(w.queue, s), QueuePos(w.queue, s), Left(w, s))
Moved(w, s, t) == Listed(Left(w, s), t) /\ QueuePos(Left(w, s), t) >= First(w, s)

Removed(w, s, t)  == Listed(w.queue, s) /\ t = s
Admitted(w, s, t) == Accepts(w, s) /\ t = Head(Rest(w, s))

After(w, s) == [t \in Sessions |-> Notified(w.sess[t], Removed(w, s, t), Admitted(w, s, t),
                                            Moved(w, s, t), QueuePos(Left(w, s), t))]

\* RemoveQueuedPlayer, put together again.
LEMMA RemoveParts ==
  ASSUME NEW w, NEW s
  PROVE  RemoveQueuedPlayer(w, s) = [w EXCEPT !.queue = Left(w, s), !.sess = After(w, s)]
  BY Zenon DEF RemoveQueuedPlayer, After, Moved, First, Removed, Admitted, Left, Accepts, Rest

\* The queue without s.
LEMMA RestFacts ==
  ASSUME NEW w, w.queue \in Seq(Sessions), Distinct(w.queue), NEW s
  PROVE  /\ Rest(w, s) \in Seq(Sessions)
         /\ Sub(Rest(w, s), w.queue)
         /\ Len(Rest(w, s)) = Len(w.queue) - (IF Listed(w.queue, s) THEN 1 ELSE 0)
         /\ \A k \in DOMAIN w.queue : Listed(Rest(w, s), w.queue[k]) <=> w.queue[k] # s
         /\ Fifo(Rest(w, s), w.queue, s)
         /\ \A i \in DOMAIN Rest(w, s) :
                (Listed(w.queue, s) => i < QueuePos(w.queue, s)) => i \in DOMAIN w.queue /\ Rest(w, s)[i] = w.queue[i]
<1> DEFINE q == w.queue
           r == Rest(w, s)
           k == QueuePos(q, s)
<1>1. CASE ~Listed(q, s)
  <2>1. r = q
    BY <1>1 DEF Rest
  <2>2. \A i \in DOMAIN q : Listed(q, q[i]) /\ q[i] # s
    BY <1>1 DEF Listed
  <2>3. Sub(q, q)
    BY DEF Sub
  <2>4. Fifo(q, q, s)
    BY <2>2 DEF Fifo
  <2> HIDE DEF r, q
  <2>5. Len(r) = Len(q) - 0
    BY <2>1 DEF q
  <2> QED BY <1>1, <2>1, <2>2, <2>3, <2>4, <2>5 DEF q, r
<1>2. CASE Listed(q, s)
  <2>1. k \in DOMAIN q /\ q[k] = s
    BY <1>2, PosFacts
  <2>2. r = EraseAt(q, k)
    BY <1>2 DEF Rest
  <2> HIDE DEF r, k
  <2>3. q \in Seq(Sessions) /\ Distinct(q)
    OBVIOUS
  <2> HIDE DEF q
  <2>4. /\ r \in Seq(Sessions)
        /\ Len(r) = Len(q) - 1
        /\ \A i \in DOMAIN r : i < k => i \in DOMAIN q /\ r[i] = q[i]
        /\ \A i \in DOMAIN r : ~(i < k) => i + 1 \in DOMAIN q /\ r[i] = q[i + 1]
        /\ \A i \in DOMAIN q : i < k => i \in DOMAIN r /\ r[i] = q[i]
        /\ \A i \in DOMAIN q : i > k => i - 1 \in DOMAIN r /\ r[i - 1] = q[i]
    BY <2>1, <2>2, <2>3, EraseFacts
  <2>5. \A i \in DOMAIN q : i \in Nat
    BY <2>3
  <2>6. \A i \in DOMAIN r : i \in Nat
    BY <2>4
  <2>7. \A i \in DOMAIN r : r[i] # s
    <3>1. SUFFICES ASSUME NEW i \in DOMAIN r, r[i] = s PROVE FALSE
      OBVIOUS
    <3>2. CASE i < k
      BY <2>1, <2>3, <2>4, <2>5, <3>1, <3>2 DEF Distinct
    <3>3. CASE ~(i < k)
      <4>1. i + 1 = k
        BY <2>1, <2>3, <2>4, <3>1, <3>3 DEF Distinct
      <4> QED BY <2>1, <2>5, <2>6, <3>3, <4>1
    <3> QED BY <3>2, <3>3
  <2>8. \A i \in DOMAIN q : Listed(r, q[i]) <=> q[i] # s
    <3>1. SUFFICES ASSUME NEW i \in DOMAIN q, q[i] # s PROVE Listed(r, q[i])
      BY <2>7 DEF Listed
    <3>2. i # k
      BY <2>1, <3>1
    <3>3. i < k \/ i > k
      BY <2>1, <2>5, <3>2
    <3> QED BY <2>4, <3>3 DEF Listed
  <2>9. Sub(r, q)
    <3>1. \A i \in DOMAIN r : \E a \in DOMAIN q : r[i] = q[a]
      BY <2>4
    <3>2. ASSUME NEW i \in DOMAIN r, NEW j \in DOMAIN r, i < j
          PROVE  \E a, b \in DOMAIN q : a < b /\ r[i] = q[a] /\ r[j] = q[b]
      <4>0. i \in Nat /\ j \in Nat /\ k \in Nat
        BY <2>1, <2>5, <2>6
      <4>1. CASE j < k
        <5>1. i < k
          BY <3>2, <4>0, <4>1
        <5> QED BY <2>4, <3>2, <4>1, <5>1
      <4>2. CASE i < k /\ ~(j < k)
        <5>1. i < j + 1
          BY <3>2, <4>0
        <5> QED BY <2>4, <4>2, <5>1
      <4>3. CASE ~(i < k)
        <5>1. ~(j < k) /\ i + 1 < j + 1
          BY <3>2, <4>0, <4>3
        <5> QED BY <2>4, <4>3, <5>1
      <4> QED BY <4>1, <4>2, <4>3
    <3> QED BY <3>1, <3>2 DEF Sub
  <2>10. Fifo(r, q, s)
    BY <2>8 DEF Fifo
  <2>11. r \in Seq(Sessions) /\ Len(r) = Len(q) - (IF Listed(q, s) THEN 1 ELSE 0)
    BY <1>2, <2>4
  <2>12. \A i \in DOMAIN r : (Listed(q, s) => i < k) => i \in DOMAIN q /\ r[i] = q[i]
    BY <1>2, <2>4
  <2> QED BY <2>8, <2>9, <2>10, <2>11, <2>12 DEF q, r, k
<1> QED BY <1>1, <1>2

\* The queue the call leaves.
LEMMA LeftFacts ==
  ASSUME NEW w, w.queue \in Seq(Sessions), Distinct(w.queue), NEW s
  PROVE  /\ Left(w, s) \in Seq(Sessions)
         /\ Sub(Left(w, s), w.queue)
         /\ Distinct(Left(w, s))
         /\ Len(Left(w, s)) = Len(w.queue) - (IF Listed(w.queue, s) THEN 1 ELSE 0) - (IF Accepts(w, s) THEN 1 ELSE 0)
         /\ \A k \in DOMAIN w.queue :
                Listed(Left(w, s), w.queue[k]) <=> ~Removed(w, s, w.queue[k]) /\ ~Admitted(w, s, w.queue[k])
         /\ Fifo(Left(w, s), w.queue, s)
         /\ Accepts(w, s) => Listed(w.queue, Head(Rest(w, s))) /\ Head(Rest(w, s)) # s
         /\ \A i \in DOMAIN Left(w, s) : i < First(w, s) => i \in DOMAIN w.queue /\ Left(w, s)[i] = w.queue[i]
<1> DEFINE q == w.queue
           r == Rest(w, s)
           e == Left(w, s)
<1>1. /\ r \in Seq(Sessions)
      /\ Sub(r, q)
      /\ Len(r) = Len(q) - (IF Listed(q, s) THEN 1 ELSE 0)
      /\ \A k \in DOMAIN q : Listed(r, q[k]) <=> q[k] # s
      /\ Fifo(r, q, s)
      /\ \A i \in DOMAIN r : (Listed(q, s) => i < QueuePos(q, s)) => i \in DOMAIN q /\ r[i] = q[i]
  BY RestFacts
<1>2. Distinct(r)
  BY <1>1, SubDistinct
<1>3. \A k \in DOMAIN q : q[k] # s <=> ~Removed(w, s, q[k])
  BY DEF Removed, Listed
<1>4. q \in Seq(Sessions) /\ Distinct(q) /\ Len(q) \in Nat
  OBVIOUS
<1> HIDE DEF q, r
<1>5. CASE ~Accepts(w, s)
  <2>1. e = r
    BY <1>5 DEF Left, r
  <2> HIDE DEF e
  <2>2. \A k \in DOMAIN q : Listed(e, q[k]) <=> ~Removed(w, s, q[k]) /\ ~Admitted(w, s, q[k])
    BY <1>1, <1>3, <1>5, <2>1 DEF Admitted
  <2>3. \A i \in DOMAIN e : i < First(w, s) => i \in DOMAIN q /\ e[i] = q[i]
    <3>1. SUFFICES ASSUME NEW i \in DOMAIN r, i < First(w, s) PROVE Listed(q, s) => i < QueuePos(q, s)
      BY <1>1, <2>1
    <3>2. Listed(q, s) => First(w, s) = QueuePos(q, s)
      BY <1>5 DEF First, FirstMoved, q
    <3> QED BY <3>1, <3>2
  <2>4. Len(e) = Len(q) - (IF Listed(q, s) THEN 1 ELSE 0) - (IF Accepts(w, s) THEN 1 ELSE 0)
    BY <1>1, <1>4, <1>5, <2>1
  <2> QED BY <1>1, <1>2, <1>5, <2>1, <2>2, <2>3, <2>4 DEF q, r, e
<1>6. CASE Accepts(w, s)
  <2>1. e = Tail(r) /\ r # <<>>
    BY <1>6 DEF Left, Accepts, r
  <2> HIDE DEF e
  <2>2. /\ e \in Seq(Sessions)
        /\ Len(e) = Len(r) - 1
        /\ Head(r) = r[1] /\ 1 \in DOMAIN r
        /\ \A i \in DOMAIN e : i + 1 \in DOMAIN r /\ e[i] = r[i + 1]
        /\ \A i \in DOMAIN r : i = 1 \/ (i - 1 \in DOMAIN e /\ e[i - 1] = r[i])
    BY <1>1, <2>1, TailFacts
  <2>3. Sub(e, r)
    <3>1. \A i, j \in DOMAIN e : i < j => i + 1 < j + 1
      BY <2>2
    <3> QED BY <2>2, <3>1 DEF Sub
  <2>4. Sub(e, q)
    BY <1>1, <1>4, <2>2, <2>3, SubTrans
  <2>5. Distinct(e)
    BY <1>4, <2>2, <2>4, SubDistinct
  <2>6. \A i \in DOMAIN r : Listed(e, r[i]) <=> r[i] # Head(r)
    <3>1. ASSUME NEW i \in DOMAIN r, r[i] # Head(r) PROVE Listed(e, r[i])
      BY <2>2, <3>1 DEF Listed
    <3>2. ASSUME NEW i \in DOMAIN e, e[i] = Head(r) PROVE FALSE
      <4>1. i + 1 = 1
        BY <1>2, <2>2, <3>2 DEF Distinct
      <4>2. i \in Nat /\ i > 0
        BY <2>2
      <4> QED BY <4>1, <4>2
    <3> QED BY <3>1, <3>2 DEF Listed
  <2>7. Fifo(e, r, s)
    <3>1. ASSUME NEW a \in DOMAIN r, NEW b \in DOMAIN r, a < b PROVE Listed(e, r[b])
      <4>1. a \in Nat /\ b \in Nat /\ a >= 1
        BY <1>1
      <4>2. b # 1
        BY <3>1, <4>1
      <4> QED BY <2>2, <4>2 DEF Listed
    <3> QED BY <3>1 DEF Fifo
  <2>8. Fifo(e, q, s)
    BY <1>1, <1>4, <2>2, <2>3, <2>7, FifoTrans
  <2>9. Listed(q, Head(r)) /\ Head(r) # s
    <3>1. PICK a \in DOMAIN q : r[1] = q[a]
      BY <1>1, <2>2 DEF Sub
    <3>2. Listed(r, q[a])
      BY <2>2, <3>1 DEF Listed
    <3> QED BY <1>1, <2>2, <3>1, <3>2 DEF Listed
  <2>10. \A k \in DOMAIN q : Listed(e, q[k]) <=> ~Removed(w, s, q[k]) /\ ~Admitted(w, s, q[k])
    <3>1. ASSUME NEW k \in DOMAIN q PROVE Listed(e, q[k]) <=> q[k] # s /\ q[k] # Head(r)
      <4>1. CASE q[k] = s
        <5>1. ~Listed(r, q[k])
          BY <1>1, <4>1
        <5>2. ~Listed(e, q[k])
          BY <2>2, <5>1 DEF Listed
        <5> QED BY <4>1, <5>2
      <4>2. CASE q[k] # s
        <5>1. PICK i \in DOMAIN r : r[i] = q[k]
          BY <1>1, <4>2 DEF Listed
        <5> QED BY <2>6, <4>2, <5>1
      <4> QED BY <4>1, <4>2
    <3> QED BY <1>3, <1>6, <3>1 DEF Admitted, r
  <2>11. \A i \in DOMAIN e : ~(i < First(w, s))
    <3>1. First(w, s) = 1
      BY <1>6 DEF First, FirstMoved
    <3>2. \A i \in DOMAIN e : ~(i < 1)
      BY <2>2
    <3> QED BY <3>1, <3>2
  <2>12. Len(e) = Len(q) - (IF Listed(q, s) THEN 1 ELSE 0) - (IF Accepts(w, s) THEN 1 ELSE 0)
    BY <1>1, <1>4, <1>6, <2>2
  <2> QED BY <2>2, <2>4, <2>5, <2>8, <2>9, <2>10, <2>11, <2>12 DEF q, r, e
<1> QED BY <1>5, <1>6
-----------------------------------------------------------------------------
(* What the operators do to a world. *)

\* Where the positions are sent again from.
LEMMA FirstIsNat ==
  ASSUME NEW w, w.queue \in Seq(Sessions), Distinct(w.queue), NEW s
  PROVE  First(w, s) \in Nat
<1>1. Len(Left(w, s)) \in Nat
  BY LeftFacts
<1>2. Listed(w.queue, s) => QueuePos(w.queue, s) \in Nat
  BY PosFacts
<1> QED BY <1>1, <1>2 DEF First, FirstMoved

\* RemoveQueuedPlayer changes the queue, and of the sessions the flag and the position.
LEMMA RemoveEffect ==
  ASSUME NEW w \in Worlds, Distinct(w.queue), NEW s \in Sessions, NEW v, v = RemoveQueuedPlayer(w, s)
  PROVE  /\ v \in Worlds
         /\ v.sessions = w.sessions
         /\ v.alive = w.alive
         /\ v.queue = Left(w, s)
         /\ \A t \in Sessions :
                /\ v.sess[t].open = w.sess[t].open
                /\ v.sess[t].forceExit = w.sess[t].forceExit
                /\ v.sess[t].player = w.sess[t].player
                /\ v.sess[t].chars = w.sess[t].chars
                /\ v.sess[t].inQueue <=> w.sess[t].inQueue /\ ~Removed(w, s, t) /\ ~Admitted(w, s, t)
                /\ Moved(w, s, t) => v.sess[t].pos = QueuePos(Left(w, s), t)
                /\ ~Moved(w, s, t) /\ ~Admitted(w, s, t) => v.sess[t].pos = w.sess[t].pos
<1>1. w.queue \in Seq(Sessions) /\ w.sess \in [Sessions -> Fields]
  BY DEF Worlds
<1>2. v = [w EXCEPT !.queue = Left(w, s), !.sess = After(w, s)]
  BY RemoveParts
<1>3. Left(w, s) \in Seq(Sessions)
  BY <1>1, LeftFacts
<1>4. ASSUME NEW t \in Sessions
      PROVE  /\ After(w, s)[t] \in Fields
             /\ After(w, s)[t].open = w.sess[t].open
             /\ After(w, s)[t].forceExit = w.sess[t].forceExit
             /\ After(w, s)[t].player = w.sess[t].player
             /\ After(w, s)[t].chars = w.sess[t].chars
             /\ After(w, s)[t].inQueue <=> w.sess[t].inQueue /\ ~Removed(w, s, t) /\ ~Admitted(w, s, t)
             /\ Moved(w, s, t) => After(w, s)[t].pos = QueuePos(Left(w, s), t)
             /\ ~Moved(w, s, t) /\ ~Admitted(w, s, t) => After(w, s)[t].pos = w.sess[t].pos
  <2>1. /\ Removed(w, s, t) \in BOOLEAN
        /\ Admitted(w, s, t) \in BOOLEAN
        /\ Moved(w, s, t) \in BOOLEAN
    BY DEF Removed, Admitted, Moved
  <2>2. Moved(w, s, t) => QueuePos(Left(w, s), t) \in Nat
    BY <1>3, PosFacts DEF Moved
  <2>3. After(w, s)[t] = Notified(w.sess[t], Removed(w, s, t), Admitted(w, s, t),
                                  Moved(w, s, t), QueuePos(Left(w, s), t))
    BY Zenon DEF After
  <2>4. w.sess[t] \in Fields
    BY <1>1
  <2>5. PICK f, removed, admitted, moved, p, g :
            /\ f = w.sess[t]
            /\ removed = Removed(w, s, t)
            /\ admitted = Admitted(w, s, t)
            /\ moved = Moved(w, s, t)
            /\ p = QueuePos(Left(w, s), t)
            /\ g = After(w, s)[t]
    BY Zenon
  <2>6. /\ f \in Fields /\ removed \in BOOLEAN /\ admitted \in BOOLEAN /\ moved \in BOOLEAN
        /\ moved => p \in Nat
        /\ g = Notified(f, removed, admitted, moved, p)
    BY <2>1, <2>2, <2>3, <2>4, <2>5, Zenon
  <2>7. /\ g \in Fields
        /\ g.open = f.open
        /\ g.forceExit = f.forceExit
        /\ g.player = f.player
        /\ g.chars = f.chars
        /\ g.inQueue <=> f.inQueue /\ ~removed /\ ~admitted
        /\ moved => g.pos = p
        /\ ~moved /\ ~admitted => g.pos = f.pos
    BY <2>6 DEF Notified, Fields
  <2>8. /\ g.inQueue <=> w.sess[t].inQueue /\ ~Removed(w, s, t) /\ ~Admitted(w, s, t)
        /\ Moved(w, s, t) => g.pos = QueuePos(Left(w, s), t)
        /\ ~Moved(w, s, t) /\ ~Admitted(w, s, t) => g.pos = w.sess[t].pos
    BY <2>5, <2>7, Zenon
  <2> QED BY <2>5, <2>7, <2>8, Zenon
<1>5. DOMAIN After(w, s) = Sessions /\ After(w, s) = [t \in Sessions |-> After(w, s)[t]]
  BY Zenon DEF After
<1>6. After(w, s) \in [Sessions -> Fields]
  BY <1>4, <1>5
<1>7. /\ v \in Worlds
      /\ v.sessions = w.sessions
      /\ v.alive = w.alive
      /\ v.queue = Left(w, s)
      /\ v.sess = After(w, s)
  BY <1>2, <1>3, <1>6 DEF Worlds
<1> QED BY <1>4, <1>7

\* The calls keep the invariant of the world.
LEMMA RemoveKeeps ==
  ASSUME NEW w, WorldInv(w), NEW s \in Sessions, NEW v, v = RemoveQueuedPlayer(w, s)
  PROVE  /\ WorldInv(v)
         /\ Online(v) = Online(w)
         /\ Flagged(w) => Flagged(v)
         /\ ~Listed(v.queue, s)
<1>1. /\ w \in Worlds
      /\ w.queue \in Seq(Sessions)
      /\ Distinct(w.queue)
  BY DEF WorldInv, Worlds
<1>2. /\ v \in Worlds
      /\ v.sessions = w.sessions
      /\ v.alive = w.alive
      /\ v.queue = Left(w, s)
      /\ \A t \in Sessions :
            /\ v.sess[t].player = w.sess[t].player
            /\ v.sess[t].chars = w.sess[t].chars
            /\ v.sess[t].inQueue <=> w.sess[t].inQueue /\ ~Removed(w, s, t) /\ ~Admitted(w, s, t)
            /\ Moved(w, s, t) => v.sess[t].pos = QueuePos(Left(w, s), t)
            /\ ~Moved(w, s, t) /\ ~Admitted(w, s, t) => v.sess[t].pos = w.sess[t].pos
  BY <1>1, RemoveEffect
<1>3. /\ v.queue \in Seq(Sessions)
      /\ Sub(v.queue, w.queue)
      /\ Distinct(v.queue)
      /\ \A k \in DOMAIN w.queue :
            Listed(v.queue, w.queue[k]) <=> ~Removed(w, s, w.queue[k]) /\ ~Admitted(w, s, w.queue[k])
      /\ \A i \in DOMAIN v.queue : i < First(w, s) => i \in DOMAIN w.queue /\ v.queue[i] = w.queue[i]
  <2>1. /\ Left(w, s) \in Seq(Sessions)
        /\ Sub(Left(w, s), w.queue)
        /\ Distinct(Left(w, s))
        /\ \A k \in DOMAIN w.queue :
              Listed(Left(w, s), w.queue[k]) <=> ~Removed(w, s, w.queue[k]) /\ ~Admitted(w, s, w.queue[k])
        /\ \A i \in DOMAIN Left(w, s) : i < First(w, s) => i \in DOMAIN w.queue /\ Left(w, s)[i] = w.queue[i]
    BY <1>1, LeftFacts, ZenonT(30)
  <2>2. v.queue = Left(w, s)
    BY <1>2
  <2> QED BY <2>1, <2>2, Zenon
<1>4. Online(v) = Online(w)
  BY <1>2 DEF Online
<1>5. \A i \in DOMAIN v.queue : /\ Listed(w.queue, v.queue[i])
                                /\ ~Removed(w, s, v.queue[i])
                                /\ ~Admitted(w, s, v.queue[i])
  <2>1. SUFFICES ASSUME NEW i \in DOMAIN v.queue
                 PROVE  /\ Listed(w.queue, v.queue[i])
                        /\ ~Removed(w, s, v.queue[i])
                        /\ ~Admitted(w, s, v.queue[i])
    BY Zenon
  <2>2. PICK a \in DOMAIN w.queue : v.queue[i] = w.queue[a]
    BY <1>3 DEF Sub
  <2>3. Listed(v.queue, w.queue[a])
    BY <2>2 DEF Listed
  <2> QED BY <1>3, <2>2, <2>3 DEF Listed
<1>6. \A i \in DOMAIN v.queue : v.queue[i] \in Sessions
  BY <1>3
<1>7. Off(v) /\ Waits(v)
  BY <1>2, <1>4 DEF WorldInv, Off, Waits
<1>8. Queued(v)
  <2>1. SUFFICES ASSUME NEW i \in DOMAIN v.queue PROVE v.queue[i] \in Online(v) /\ v.sess[v.queue[i]].inQueue
    BY DEF Queued
  <2>2. v.queue[i] \in Online(w) /\ w.sess[v.queue[i]].inQueue
    BY <1>5 DEF WorldInv, Queued, Listed
  <2> QED BY <1>2, <1>4, <1>5, <1>6, <2>2
<1>9. Shown(v)
  <2>1. SUFFICES ASSUME NEW i \in DOMAIN v.queue PROVE v.sess[v.queue[i]].pos = i
    BY DEF Shown
  <2>2. QueuePos(v.queue, v.queue[i]) = i /\ Listed(v.queue, v.queue[i])
    BY <1>3, PosFacts DEF Listed
  <2>3. First(w, s) \in Nat /\ i \in Nat
    BY <1>1, <1>3, FirstIsNat
  <2>4. Moved(w, s, v.queue[i]) <=> i >= First(w, s)
    BY <1>2, <2>2 DEF Moved
  <2>5. CASE i >= First(w, s)
    BY <1>2, <1>6, <2>2, <2>4, <2>5
  <2>6. CASE i < First(w, s)
    <3>1. v.queue[i] = w.queue[i] /\ i \in DOMAIN w.queue
      BY <1>3, <2>6
    <3>2. w.sess[v.queue[i]].pos = i
      BY <3>1 DEF WorldInv, Shown
    <3>3. ~Moved(w, s, v.queue[i])
      BY <2>3, <2>4, <2>6
    <3> QED BY <1>2, <1>5, <1>6, <3>2, <3>3
  <2> QED BY <2>3, <2>5, <2>6
<1>10. WorldInv(v)
  <2>1. Owned(v)
    BY <1>2 DEF WorldInv, Owned
  <2> QED BY <1>2, <1>3, <1>4, <1>7, <1>8, <1>9, <2>1 DEF WorldInv
<1>11. ASSUME Flagged(w) PROVE Flagged(v)
  <2>1. SUFFICES ASSUME NEW t \in Sessions, v.sess[t].inQueue PROVE Listed(v.queue, t)
    BY DEF Flagged
  <2>2. Listed(w.queue, t) /\ ~Removed(w, s, t) /\ ~Admitted(w, s, t)
    BY <1>2, <1>11, <2>1 DEF Flagged
  <2> QED BY <1>3, <2>2 DEF Listed
<1>12. ~Listed(v.queue, s)
  BY <1>5 DEF Removed, Listed
<1> QED BY <1>4, <1>10, <1>11, <1>12

\* One session changes.
LEMMA SetFieldEffect ==
  ASSUME NEW w \in Worlds, NEW s \in Sessions, NEW f \in Fields, NEW v, v = SetField(w, s, f)
  PROVE  /\ v \in Worlds
         /\ v.sessions = w.sessions
         /\ v.alive = w.alive
         /\ v.queue = w.queue
         /\ v.sess[s] = f
         /\ \A t \in Sessions : t # s => v.sess[t] = w.sess[t]
<1> DEFINE g == [w.sess EXCEPT ![s] = f]
<1>1. w.sess \in [Sessions -> Fields]
  BY DEF Worlds
<1>2. g \in [Sessions -> Fields] /\ g[s] = f /\ \A t \in Sessions : t # s => g[t] = w.sess[t]
  BY <1>1
<1>3. v = [w EXCEPT !.sess = g]
  BY DEF SetField
<1> HIDE DEF g
<1> QED BY <1>2, <1>3 DEF Worlds

\* A session whose flag and position stay changes nothing for the others.
LEMMA SetFieldKeeps ==
  ASSUME NEW w, WorldInv(w), NEW s \in Sessions, NEW f \in Fields, NEW v, v = SetField(w, s, f),
         f.inQueue = w.sess[s].inQueue, f.pos = w.sess[s].pos, f.inQueue => f.player = "none",
         s \in Online(w) \/ (f.player = w.sess[s].player /\ f.chars = w.sess[s].chars)
  PROVE  /\ WorldInv(v)
         /\ Online(v) = Online(w)
         /\ v.sessions = w.sessions
         /\ v.queue = w.queue
         /\ v.alive = w.alive
         /\ v.sess[s] = f
         /\ \A t \in Sessions : t # s => v.sess[t] = w.sess[t]
         /\ Flagged(w) => Flagged(v)
<1>1. w \in Worlds
  BY DEF WorldInv
<1>2. /\ v \in Worlds
      /\ v.sessions = w.sessions
      /\ v.alive = w.alive
      /\ v.queue = w.queue
      /\ v.sess[s] = f
      /\ \A t \in Sessions : t # s => v.sess[t] = w.sess[t]
  BY <1>1, SetFieldEffect
<1>3. Online(v) = Online(w)
  BY <1>2 DEF Online
<1>4. \A t \in Sessions : v.sess[t].inQueue = w.sess[t].inQueue /\ v.sess[t].pos = w.sess[t].pos
  BY <1>2
<1>5. Off(v)
  BY <1>2, <1>3 DEF WorldInv, Off
<1>6. Waits(v)
  BY <1>2 DEF WorldInv, Waits
<1>7. \A k \in DOMAIN w.queue : w.queue[k] \in Sessions
  BY <1>1 DEF Worlds
<1>8. Queued(v) /\ Shown(v)
  BY <1>2, <1>3, <1>4, <1>7 DEF WorldInv, Queued, Shown
<1>9. Flagged(w) => Flagged(v)
  BY <1>2, <1>4 DEF Flagged
<1>10. Owned(v)
  BY <1>2 DEF WorldInv, Owned
<1> QED BY <1>2, <1>3, <1>5, <1>6, <1>8, <1>9, <1>10 DEF WorldInv
-----------------------------------------------------------------------------
(* The number of sessions in the world. *)

\* m_sessions is finite.
LEMMA OnlineFinite ==
  ASSUME NEW w
  PROVE  IsFiniteSet(Online(w)) /\ Cardinality(Online(w)) \in Nat
<1>1. Online(w) \in SUBSET Sessions
  BY DEF Online
<1>2. IsFiniteSet(Online(w))
  BY <1>1, SessionAssumption, FS_Subset
<1> QED BY <1>2, FS_CardinalityType

\* GetActiveSessionCount counts those of m_sessions that do not wait.
LEMMA ActiveCount ==
  ASSUME NEW w, WorldInv(w)
  PROVE  /\ IsFiniteSet(Active(w))
         /\ Cardinality(Active(w)) \in Nat
         /\ GetActiveSessionCount(w) = Cardinality(Active(w))
         /\ Len(w.queue) \in Nat
<1> DEFINE q == w.queue
           R == {t \in Sessions : Listed(q, t)}
<1>1. q \in Seq(Sessions) /\ Distinct(q) /\ \A k \in DOMAIN q : q[k] \in Online(w)
  BY DEF WorldInv, Worlds, Queued
<1>2. Len(q) \in Nat /\ DOMAIN q = 1 .. Len(q)
  BY <1>1
<1>3. R \subseteq Online(w)
  BY <1>1 DEF Listed
<1>4. q \in [1 .. Len(q) -> R]
  BY <1>1, <1>2 DEF Listed
<1>5. \A t \in R : \E k \in 1 .. Len(q) : q[k] = t
  BY <1>2 DEF Listed
<1>6. q \in Bijection(1 .. Len(q), R)
  BY <1>1, <1>2, <1>4, <1>5 DEF Bijection, Injection, Surjection, IsInjective, Distinct
<1>7. Cardinality(R) = Len(q)
  BY <1>2, <1>6, FS_CountingElements DEF ExistsBijection
<1>8. Active(w) = Online(w) \ R /\ Online(w) \cap R = R
  BY <1>3 DEF Active, Online
<1> HIDE DEF R, q
<1>9. IsFiniteSet(Active(w)) /\ Cardinality(Active(w)) = Cardinality(Online(w)) - Len(q)
  <2>1. /\ IsFiniteSet(Online(w) \ R)
        /\ Cardinality(Online(w) \ R) = Cardinality(Online(w)) - Cardinality(Online(w) \cap R)
    BY OnlineFinite, FS_Difference
  <2> QED BY <1>7, <1>8, <2>1
<1>10. Cardinality(Active(w)) \in Nat
  BY <1>9, FS_CardinalityType
<1> QED BY <1>2, <1>9, <1>10 DEF GetActiveSessionCount, q

\* One call lets at most one session in, and only when there is room after s has left.
LEMMA RemoveCount ==
  ASSUME NEW w, WorldInv(w), NEW s \in Online(w), NEW v, v = RemoveQueuedPlayer(w, s), limit \in Nat
  PROVE  /\ GetActiveSessionCount(v) = GetActiveSessionCount(w) + (IF Listed(w.queue, s) THEN 1 ELSE 0)
                                                                + (IF Accepts(w, s) THEN 1 ELSE 0)
         /\ Accepts(w, s) => limit = 0 \/ GetActiveSessionCount(v) <= limit + 1
         /\ Full(w, limit) => Full(v, limit) /\ (v.queue # <<>> => GetActiveSessionCount(v) > limit)
<1> DEFINE n == GetActiveSessionCount(w)
           m == GetActiveSessionCount(v)
           found == Listed(w.queue, s)
<1>1. w \in Worlds /\ w.queue \in Seq(Sessions) /\ Distinct(w.queue) /\ s \in Sessions
  BY DEF WorldInv, Worlds, Online
<1>2. v.queue = Left(w, s) /\ v.sessions = w.sessions
  BY <1>1, RemoveEffect
<1>3. Online(v) = Online(w)
  BY <1>2 DEF Online
<1>4. Len(Left(w, s)) = Len(w.queue) - (IF found THEN 1 ELSE 0) - (IF Accepts(w, s) THEN 1 ELSE 0)
  BY <1>1, LeftFacts
<1>5. Len(w.queue) \in Nat /\ Cardinality(Online(w)) \in Nat
  BY <1>1, OnlineFinite
<1>6. m = n + (IF found THEN 1 ELSE 0) + (IF Accepts(w, s) THEN 1 ELSE 0)
  <2>1. Len(v.queue) = Len(w.queue) - (IF found THEN 1 ELSE 0) - (IF Accepts(w, s) THEN 1 ELSE 0)
    BY <1>2, <1>4
  <2>2. n = Cardinality(Online(w)) - Len(w.queue) /\ m = Cardinality(Online(w)) - Len(v.queue)
    BY <1>3 DEF GetActiveSessionCount
  <2> HIDE DEF m, n
  <2>3. PICK a \in Nat, b \in Nat : a = (IF found THEN 1 ELSE 0) /\ b = (IF Accepts(w, s) THEN 1 ELSE 0)
    OBVIOUS
  <2>4. m = n + a + b
    <3>1. Len(v.queue) = Len(w.queue) - a - b
      BY <2>1, <2>3
    <3> QED BY <1>5, <2>2, <3>1
  <2> QED BY <2>3, <2>4
<1>7. n \in Nat /\ (~found => n # 0)
  <2>1. n = Cardinality(Active(w)) /\ IsFiniteSet(Active(w)) /\ n \in Nat
    BY ActiveCount
  <2>2. ~found => s \in Active(w)
    BY DEF Active
  <2> QED BY <2>1, <2>2, FS_EmptySet
<1>8. Accepts(w, s) => limit = 0 \/ CountWithout(n, found) < limit
  BY DEF Accepts, MayAccept
<1>9. Accepts(w, s) => limit = 0 \/ m <= limit + 1
  <2> HIDE DEF m, n, found
  <2> QED BY <1>6, <1>7, <1>8 DEF CountWithout
<1>10. ASSUME Full(w, limit), v.queue # <<>> PROVE limit > 0 /\ m > limit
  <2>1. Rest(w, s) # <<>>
    <3>1. CASE Accepts(w, s)
      BY <3>1 DEF Accepts
    <3>2. CASE ~Accepts(w, s)
      BY <1>2, <1>10, <3>2 DEF Left
    <3> QED BY <3>1, <3>2
  <2>2. w.queue # <<>>
    <3>1. Sub(Left(w, s), w.queue) /\ Left(w, s) \in Seq(Sessions)
      BY <1>1, LeftFacts
    <3>2. 1 \in DOMAIN Left(w, s)
      BY <1>2, <1>10, <3>1
    <3> QED BY <3>1, <3>2 DEF Sub
  <2>3. limit > 0 /\ n >= limit
    BY <1>10, <2>2 DEF Full
  <2>4. ~Accepts(w, s) => ~(CountWithout(n, found) < limit)
    BY <2>1 DEF Accepts, MayAccept
  <2> HIDE DEF m, n, found
  <2> QED BY <1>6, <1>7, <2>3, <2>4 DEF CountWithout
<1>11. ASSUME Full(w, limit) PROVE Full(v, limit) /\ (v.queue # <<>> => m > limit)
  <2>1. m \in Nat
    BY <1>6, <1>7
  <2> QED BY <1>10, <1>11, <2>1 DEF Full
<1> QED BY <1>6, <1>9, <1>11
-----------------------------------------------------------------------------
(* Kicks, deletions and new sessions. *)

\* The constructor's values.
LEMMA FreshFields ==
  /\ Fresh \in Fields
  /\ ~Fresh.inQueue
  /\ Fresh.player = "none"
  /\ Fresh.chars = "unknown"
  BY ConfigAssumption DEF Fresh, Fields

\* KickPlayer closes the socket and asks for the removal.
LEMMA KickFields ==
  ASSUME NEW f \in Fields, NEW g, g = [f EXCEPT !.open = FALSE, !.forceExit = TRUE]
  PROVE  /\ g \in Fields
         /\ Kicked(g)
         /\ g.inQueue = f.inQueue
         /\ g.pos = f.pos
         /\ g.player = f.player
         /\ g.chars = f.chars
  BY DEF Fields, Kicked

\* A kick changes nothing but that.
LEMMA KickKeeps ==
  ASSUME NEW w, WorldInv(w), NEW s \in Sessions, NEW v, v = KickPlayer(w, s)
  PROVE  /\ WorldInv(v)
         /\ Online(v) = Online(w)
         /\ v.sessions = w.sessions
         /\ v.queue = w.queue
         /\ v.alive = w.alive
         /\ Kicked(v.sess[s])
         /\ v.sess[s].player = w.sess[s].player
         /\ v.sess[s].chars = w.sess[s].chars
         /\ \A t \in Sessions : t # s => v.sess[t] = w.sess[t]
         /\ Flagged(w) => Flagged(v)
<1>1. w.sess[s] \in Fields
  BY DEF WorldInv, Worlds
<1>2. PICK g : g = [w.sess[s] EXCEPT !.open = FALSE, !.forceExit = TRUE]
  BY Zenon
<1>3. /\ g \in Fields
      /\ Kicked(g)
      /\ g.inQueue = w.sess[s].inQueue
      /\ g.pos = w.sess[s].pos
      /\ g.player = w.sess[s].player
      /\ g.chars = w.sess[s].chars
  BY <1>1, <1>2, KickFields
<1>4. v = SetField(w, s, g)
  BY <1>2, Zenon DEF KickPlayer
<1>5. g.inQueue => g.player = "none"
  BY <1>3 DEF WorldInv, Waits
<1>6. /\ WorldInv(v)
      /\ Online(v) = Online(w)
      /\ v.sessions = w.sessions
      /\ v.queue = w.queue
      /\ v.alive = w.alive
      /\ v.sess[s] = g
      /\ \A t \in Sessions : t # s => v.sess[t] = w.sess[t]
      /\ Flagged(w) => Flagged(v)
  BY <1>3, <1>4, <1>5, SetFieldKeeps
<1> QED BY <1>3, <1>6

\* The account's entry in m_sessions.
LEMMA OnlineIs ==
  ASSUME NEW w, NEW s \in Online(w)
  PROVE  /\ s \in Sessions
         /\ w.sessions[AccountOf[s]] = s
         /\ \A t \in Online(w) : AccountOf[t] = AccountOf[s] => t = s
  BY DEF Online

\* n, or nobody, in the place of s.
Replaced(w, s, n) == [Delete(w, s) EXCEPT !.sessions[AccountOf[s]] = n]

(***************************************************************************)
(* A session that no longer waits is deleted, and n, a session of the same *)
(* account that has not entered yet, or nobody, takes its place.           *)
(***************************************************************************)
LEMMA ReplaceKeeps ==
  ASSUME NEW w, WorldInv(w), NEW s \in Online(w), ~Listed(w.queue, s), NEW n,
         n = NoSession \/ (n \in w.alive \ Online(w) /\ AccountOf[n] = AccountOf[s]),
         NEW v, v = Replaced(w, s, n)
  PROVE  /\ WorldInv(v)
         /\ Online(v) = (Online(w) \ {s}) \cup ({n} \cap Sessions)
         /\ v.queue = w.queue
         /\ v.alive = w.alive \ {s}
         /\ \A t \in Sessions : t # s => v.sess[t] = w.sess[t]
         /\ Flagged(w) => Flagged(v)
<1>1. /\ w \in Worlds
      /\ w.sessions \in [Accounts -> Sessions \cup {NoSession}]
      /\ w.queue \in Seq(Sessions)
      /\ w.alive \subseteq Sessions
      /\ w.sess \in [Sessions -> Fields]
  BY DEF WorldInv, Worlds
<1>2. s \in Sessions /\ w.sessions[AccountOf[s]] = s /\ AccountOf[s] \in Accounts
  BY OnlineIs, SessionAssumption
<1>3. n \in Sessions \cup {NoSession} /\ n # s
  BY <1>1, <1>2, SessionAssumption
<1>4. PICK m, g : m = [w.sessions EXCEPT ![AccountOf[s]] = n] /\ g = [w.sess EXCEPT ![s] = Fresh]
  BY Zenon
<1>5. v = [w EXCEPT !.alive = w.alive \ {s}, !.sess = g, !.sessions = m]
  BY <1>1, <1>4 DEF Replaced, Delete, Worlds
<1>6. /\ m \in [Accounts -> Sessions \cup {NoSession}]
      /\ m[AccountOf[s]] = n
      /\ \A a \in Accounts : a # AccountOf[s] => m[a] = w.sessions[a]
  BY <1>1, <1>2, <1>3, <1>4
<1>7. g \in [Sessions -> Fields] /\ g[s] = Fresh /\ \A t \in Sessions : t # s => g[t] = w.sess[t]
  BY <1>1, <1>2, <1>4, FreshFields
<1>8. /\ v \in Worlds
      /\ v.sessions = m
      /\ v.queue = w.queue
      /\ v.alive = w.alive \ {s}
      /\ v.sess = g
  BY <1>1, <1>5, <1>6, <1>7 DEF Worlds
<1>9. \A t \in Sessions : t \in Online(v) <=> (t \in Online(w) /\ t # s) \/ t = n
  <2>1. SUFFICES ASSUME NEW t \in Sessions PROVE m[AccountOf[t]] = t <=> (w.sessions[AccountOf[t]] = t /\ t # s) \/ t = n
    BY <1>8 DEF Online
  <2>2. AccountOf[t] \in Accounts
    BY SessionAssumption
  <2>3. CASE AccountOf[t] = AccountOf[s]
    BY <1>2, <1>3, <1>6, <2>3
  <2>4. CASE AccountOf[t] # AccountOf[s]
    <3>1. t # s /\ t # n
      BY <2>4, SessionAssumption
    <3> QED BY <1>6, <2>2, <2>4, <3>1
  <2> QED BY <2>3, <2>4
<1>10. Online(v) = (Online(w) \ {s}) \cup ({n} \cap Sessions)
  <2>1. Online(v) \subseteq Sessions /\ Online(w) \subseteq Sessions
    BY DEF Online
  <2> QED BY <1>9, <2>1
<1>11. Online(v) \subseteq v.alive
  BY <1>3, <1>8, <1>10, SessionAssumption DEF WorldInv
<1>12. Off(v)
  <2>1. SUFFICES ASSUME NEW t \in Sessions \ Online(v)
                 PROVE  ~v.sess[t].inQueue /\ v.sess[t].player = "none" /\ v.sess[t].chars = "unknown"
    BY DEF Off
  <2>2. CASE t = s
    BY <1>7, <1>8, <2>2, FreshFields
  <2>3. CASE t # s
    <3>1. t \notin Online(w)
      BY <1>10, <2>3
    <3> QED BY <1>7, <1>8, <2>3, <3>1 DEF WorldInv, Off
  <2> QED BY <2>2, <2>3
<1>13. Waits(v)
  BY <1>7, <1>8, FreshFields DEF WorldInv, Waits
<1>14. \A k \in DOMAIN w.queue : w.queue[k] \in Online(w) /\ w.queue[k] # s /\ w.queue[k] \in Sessions
  BY <1>1 DEF WorldInv, Queued, Listed
<1>15. Queued(v) /\ Shown(v) /\ Distinct(v.queue)
  BY <1>7, <1>8, <1>10, <1>14 DEF WorldInv, Queued, Shown
<1>16. Flagged(w) => Flagged(v)
  BY <1>7, <1>8, FreshFields DEF Flagged
<1>17. Owned(v)
  BY <1>6, <1>8 DEF WorldInv, Owned
<1> QED BY <1>7, <1>8, <1>10, <1>11, <1>12, <1>13, <1>15, <1>16, <1>17 DEF WorldInv

\* A session whose account has no other enters m_sessions.
LEMMA EnterKeeps ==
  ASSUME NEW w, WorldInv(w), NEW s \in w.alive \ Online(w), w.sessions[AccountOf[s]] = NoSession,
         NEW v, v = [w EXCEPT !.sessions[AccountOf[s]] = s]
  PROVE  /\ WorldInv(v)
         /\ Online(v) = Online(w) \cup {s}
         /\ v.queue = w.queue
         /\ v.alive = w.alive
         /\ v.sess = w.sess
<1>1. /\ w \in Worlds
      /\ w.sessions \in [Accounts -> Sessions \cup {NoSession}]
      /\ w.alive \subseteq Sessions
  BY DEF WorldInv, Worlds
<1>2. s \in Sessions /\ AccountOf[s] \in Accounts
  BY <1>1, SessionAssumption
<1>3. PICK m : m = [w.sessions EXCEPT ![AccountOf[s]] = s]
  BY Zenon
<1>4. v = [w EXCEPT !.sessions = m]
  BY <1>1, <1>3 DEF Worlds
<1>5. /\ m \in [Accounts -> Sessions \cup {NoSession}]
      /\ m[AccountOf[s]] = s
      /\ \A a \in Accounts : a # AccountOf[s] => m[a] = w.sessions[a]
  BY <1>1, <1>2, <1>3
<1>6. /\ v \in Worlds
      /\ v.sessions = m
      /\ v.queue = w.queue
      /\ v.alive = w.alive
      /\ v.sess = w.sess
  BY <1>1, <1>4, <1>5 DEF Worlds
<1>7. \A t \in Sessions : t \in Online(v) <=> t \in Online(w) \/ t = s
  <2>1. SUFFICES ASSUME NEW t \in Sessions PROVE m[AccountOf[t]] = t <=> w.sessions[AccountOf[t]] = t \/ t = s
    BY <1>6 DEF Online
  <2>2. AccountOf[t] \in Accounts
    BY SessionAssumption
  <2>3. CASE AccountOf[t] = AccountOf[s]
    BY <1>2, <1>5, <2>3, SessionAssumption
  <2>4. CASE AccountOf[t] # AccountOf[s]
    BY <1>5, <2>2, <2>4
  <2> QED BY <2>3, <2>4
<1>8. Online(v) = Online(w) \cup {s}
  <2>1. Online(v) \subseteq Sessions /\ Online(w) \subseteq Sessions
    BY DEF Online
  <2> QED BY <1>2, <1>7, <2>1
<1>9. Off(v) /\ Waits(v) /\ Queued(v) /\ Shown(v)
  BY <1>6, <1>8 DEF WorldInv, Off, Waits, Queued, Shown
<1>10. Owned(v)
  BY <1>5, <1>6 DEF WorldInv, Owned
<1> QED BY <1>6, <1>8, <1>9, <1>10 DEF WorldInv

\* AddQueuedPlayer puts s at the end and tells it so.
LEMMA AddQueuedKeeps ==
  ASSUME NEW w, WorldInv(w), NEW s \in Online(w), ~Listed(w.queue, s), w.sess[s].player = "none",
         NEW v, v = AddQueuedPlayer(w, s)
  PROVE  /\ WorldInv(v)
         /\ Online(v) = Online(w)
         /\ v.queue = Append(w.queue, s)
         /\ v.alive = w.alive
         /\ \A t \in Sessions : /\ v.sess[t].open = w.sess[t].open
                                /\ v.sess[t].forceExit = w.sess[t].forceExit
                                /\ v.sess[t].player = w.sess[t].player
                                /\ v.sess[t].chars = w.sess[t].chars
         /\ Flagged(w) => Flagged(v)
<1>1. /\ w \in Worlds
      /\ w.queue \in Seq(Sessions)
      /\ w.sess \in [Sessions -> Fields]
      /\ s \in Sessions
      /\ w.sess[s] \in Fields
  BY DEF WorldInv, Worlds, Online
<1>2. PICK q, f, g : /\ q = Append(w.queue, s)
                     /\ f = [w.sess[s] EXCEPT !.inQueue = TRUE, !.pos = QueuePos(q, s)]
                     /\ g = [w.sess EXCEPT ![s] = f]
  BY Zenon
<1>3. /\ q \in Seq(Sessions)
      /\ Len(q) = Len(w.queue) + 1
      /\ Len(q) \in DOMAIN q /\ q[Len(q)] = s
      /\ \A k \in DOMAIN w.queue : k \in DOMAIN q /\ q[k] = w.queue[k]
      /\ \A k \in DOMAIN q : k = Len(q) \/ k \in DOMAIN w.queue
  BY <1>1, <1>2
<1>4. Distinct(q)
  BY <1>3 DEF WorldInv, Distinct, Listed
<1>5. QueuePos(q, s) = Len(q) /\ Len(q) \in Nat
  BY <1>3, <1>4, PosFacts
<1>6. /\ f \in Fields
      /\ f.inQueue
      /\ f.pos = Len(q)
      /\ f.open = w.sess[s].open
      /\ f.forceExit = w.sess[s].forceExit
      /\ f.player = w.sess[s].player
      /\ f.chars = w.sess[s].chars
  BY <1>1, <1>2, <1>5 DEF Fields
<1>7. g \in [Sessions -> Fields] /\ g[s] = f /\ \A t \in Sessions : t # s => g[t] = w.sess[t]
  BY <1>1, <1>2, <1>6
<1>8. v = [w EXCEPT !.queue = q, !.sess = g]
  <2>1. v = [w EXCEPT !.queue = q, !.sess[s] = f]
    BY <1>2, Zenon DEF AddQueuedPlayer, PushBack
  <2> QED BY <1>2, <2>1, Zenon
<1>9. /\ v \in Worlds
      /\ v.sessions = w.sessions
      /\ v.queue = q
      /\ v.alive = w.alive
      /\ v.sess = g
  BY <1>1, <1>3, <1>7, <1>8 DEF Worlds
<1>10. Online(v) = Online(w)
  BY <1>9 DEF Online
<1>11. Off(v)
  BY <1>7, <1>9, <1>10 DEF WorldInv, Off
<1>12. Waits(v)
  BY <1>6, <1>7, <1>9 DEF WorldInv, Waits
<1>13. \A k \in DOMAIN w.queue : w.queue[k] \in Sessions /\ w.queue[k] # s
  BY <1>1 DEF Listed
<1>14. Queued(v)
  BY <1>3, <1>6, <1>7, <1>9, <1>10, <1>13 DEF WorldInv, Queued
<1>15. Shown(v)
  BY <1>3, <1>6, <1>7, <1>9, <1>13 DEF WorldInv, Shown
<1>16. Flagged(w) => Flagged(v)
  BY <1>3, <1>7, <1>9 DEF Flagged, Listed
<1>17. \A t \in Sessions : /\ v.sess[t].open = w.sess[t].open
                           /\ v.sess[t].forceExit = w.sess[t].forceExit
                           /\ v.sess[t].player = w.sess[t].player
                           /\ v.sess[t].chars = w.sess[t].chars
  BY <1>6, <1>7, <1>9
<1>18. Owned(v)
  BY <1>9 DEF WorldInv, Owned
<1> QED BY <1>2, <1>4, <1>9, <1>10, <1>11, <1>12, <1>14, <1>15, <1>16, <1>17, <1>18 DEF WorldInv
-----------------------------------------------------------------------------
(* A session leaves, or its account reconnects. *)

\* Two sessions that differ in the flag, the position and the time at most.
Alike(f, g) == /\ f.open = g.open
               /\ f.forceExit = g.forceExit
               /\ f.player = g.player
               /\ f.chars = g.chars

\* The call keeps the order of the queue and lets nobody in but its head.
LEMMA RemoveOrder ==
  ASSUME NEW w, WorldInv(w), NEW s \in Sessions, NEW v, v = RemoveQueuedPlayer(w, s)
  PROVE  /\ v.alive = w.alive
         /\ v.queue \in Seq(Sessions)
         /\ Sub(v.queue, w.queue)
         /\ Fifo(v.queue, w.queue, s)
         /\ \A t \in Sessions : Alike(v.sess[t], w.sess[t])
         /\ ~Accepts(w, s) => Active(v) \ {s} \subseteq Active(w)
<1>1. w \in Worlds /\ w.queue \in Seq(Sessions) /\ Distinct(w.queue)
  BY DEF WorldInv, Worlds
<1>2. /\ v.alive = w.alive
      /\ v.queue = Left(w, s)
      /\ \A t \in Sessions : Alike(v.sess[t], w.sess[t])
  BY <1>1, RemoveEffect DEF Alike
<1>3. /\ Left(w, s) \in Seq(Sessions)
      /\ Sub(Left(w, s), w.queue)
      /\ Fifo(Left(w, s), w.queue, s)
      /\ \A k \in DOMAIN w.queue :
            Listed(Left(w, s), w.queue[k]) <=> ~Removed(w, s, w.queue[k]) /\ ~Admitted(w, s, w.queue[k])
  BY <1>1, LeftFacts
<1>4. ASSUME ~Accepts(w, s), NEW t \in Active(v), t # s PROVE t \in Active(w)
  <2>1. t \in Online(w) /\ ~Listed(v.queue, t)
    BY <1>4, RemoveKeeps DEF Active
  <2>2. ~Listed(w.queue, t)
    BY <1>2, <1>3, <1>4, <2>1 DEF Listed, Removed, Admitted
  <2> QED BY <2>1, <2>2 DEF Active
<1>5. ~Accepts(w, s) => Active(v) \ {s} \subseteq Active(w)
  BY <1>4
<1> QED BY <1>2, <1>3, <1>5

\* The head of the queue went into the world, and that is as many as the limit allows.
Within(S) == limit = 0 \/ Cardinality(S) <= limit

(***************************************************************************)
(* What UpdateSessions does with a session it removes.  Both calls may let *)
(* one in.                                                                 *)
(***************************************************************************)
LEMMA LeaveKeeps ==
  ASSUME NEW w, WorldInv(w), NEW s \in Online(w), limit \in Nat,
         NEW u, u = RemoveQueuedPlayer(w, s), NEW x, x = RemoveQueuedPlayer(u, s),
         NEW v, v = Replaced(x, s, NoSession)
  PROVE  /\ WorldInv(v)
         /\ Online(v) = Online(w) \ {s}
         /\ v.alive = w.alive \ {s}
         /\ \A t \in Sessions : t # s => Alike(v.sess[t], w.sess[t])
         /\ Flagged(w) => Flagged(v)
         /\ Full(w, limit) => Full(v, limit)
         /\ v.queue \in Seq(Sessions)
         /\ Sub(v.queue, w.queue)
         /\ Fifo(v.queue, w.queue, s)
         /\ Active(v) \subseteq Active(w) \/ Within(Active(v))
<1>1. s \in Sessions /\ w.queue \in Seq(Sessions) /\ Distinct(w.queue)
  BY DEF Online, WorldInv, Worlds
<1>2. WorldInv(u) /\ Online(u) = Online(w) /\ (Flagged(w) => Flagged(u)) /\ ~Listed(u.queue, s)
  BY <1>1, RemoveKeeps
<1>3. WorldInv(x) /\ Online(x) = Online(w) /\ (Flagged(w) => Flagged(x)) /\ ~Listed(x.queue, s)
  BY <1>1, <1>2, RemoveKeeps
<1>4. /\ WorldInv(v)
      /\ Online(v) = (Online(x) \ {s}) \cup ({NoSession} \cap Sessions)
      /\ v.queue = x.queue
      /\ v.alive = x.alive \ {s}
      /\ \A t \in Sessions : t # s => v.sess[t] = x.sess[t]
      /\ Flagged(x) => Flagged(v)
  <2>1. WorldInv(x) /\ s \in Online(x) /\ ~Listed(x.queue, s)
    BY <1>3
  <2> QED BY <2>1, ReplaceKeeps
<1>5. Online(v) = Online(w) \ {s}
  BY <1>3, <1>4, SessionAssumption
<1>6. /\ u.alive = w.alive
      /\ u.queue \in Seq(Sessions)
      /\ Sub(u.queue, w.queue)
      /\ Fifo(u.queue, w.queue, s)
      /\ \A t \in Sessions : Alike(u.sess[t], w.sess[t])
      /\ ~Accepts(w, s) => Active(u) \ {s} \subseteq Active(w)
  BY <1>1, RemoveOrder
<1>7. /\ x.alive = u.alive
      /\ x.queue \in Seq(Sessions)
      /\ Sub(x.queue, u.queue)
      /\ Fifo(x.queue, u.queue, s)
      /\ \A t \in Sessions : Alike(x.sess[t], u.sess[t])
      /\ ~Accepts(u, s) => Active(x) \ {s} \subseteq Active(u)
  BY <1>1, <1>2, RemoveOrder
<1>8. Sub(x.queue, w.queue) /\ Fifo(x.queue, w.queue, s)
  BY <1>1, <1>6, <1>7, SubTrans, FifoTrans
<1>9. \A t \in Sessions : t # s => Alike(v.sess[t], w.sess[t])
  BY <1>4, <1>6, <1>7 DEF Alike
<1>10. Active(v) = Active(x) \ {s}
  BY <1>3, <1>4, <1>5 DEF Active
<1>11. s \in Active(x)
  BY <1>3 DEF Active
<1>12. /\ Accepts(w, s) => limit = 0 \/ GetActiveSessionCount(u) <= limit + 1
       /\ Full(w, limit) => Full(u, limit)
  BY RemoveCount
<1>13. /\ GetActiveSessionCount(x) = GetActiveSessionCount(u) + 0 + (IF Accepts(u, s) THEN 1 ELSE 0)
       /\ Accepts(u, s) => limit = 0 \/ GetActiveSessionCount(x) <= limit + 1
       /\ Full(u, limit) => Full(x, limit) /\ (x.queue # <<>> => GetActiveSessionCount(x) > limit)
  <2>1. s \in Online(u)
    BY <1>2
  <2> QED BY <1>2, <2>1, RemoveCount
<1>14. /\ GetActiveSessionCount(u) \in Nat
       /\ GetActiveSessionCount(x) = Cardinality(Active(x))
       /\ GetActiveSessionCount(v) = Cardinality(Active(v))
       /\ IsFiniteSet(Active(x))
       /\ Cardinality(Active(x)) \in Nat
  BY <1>2, <1>3, <1>4, ActiveCount
<1>15. Cardinality(Active(v)) = Cardinality(Active(x)) - 1
  BY <1>10, <1>11, <1>14, FS_RemoveElement
<1>16. Full(w, limit) => Full(v, limit)
  <2>1. SUFFICES ASSUME Full(w, limit), v.queue # <<>>
                 PROVE  limit > 0 /\ GetActiveSessionCount(v) >= limit
    BY DEF Full
  <2>2. limit > 0 /\ GetActiveSessionCount(x) > limit
    BY <1>4, <1>12, <1>13, <2>1 DEF Full
  <2> QED BY <1>14, <1>15, <2>2
<1>17. Active(v) \subseteq Active(w) \/ Within(Active(v))
  <2>1. CASE ~Accepts(w, s) /\ ~Accepts(u, s)
    BY <1>6, <1>7, <1>10, <2>1
  <2>2. CASE Accepts(w, s) \/ Accepts(u, s)
    <3>1. limit = 0 \/ GetActiveSessionCount(x) <= limit + 1
      BY <1>12, <1>13, <1>14, <2>2
    <3> QED BY <1>14, <1>15, <3>1 DEF Within
  <2> QED BY <2>1, <2>2
<1> QED BY <1>3, <1>4, <1>5, <1>6, <1>7, <1>8, <1>9, <1>16, <1>17

(***************************************************************************)
(* v is w with s in m_sessions and without o, the old session of the       *)
(* account, if there is one; nothing is said of s yet.                     *)
(***************************************************************************)
Enters(w, o, s, v) ==
    /\ WorldInv(v)
    /\ Online(v) = (Online(w) \ {o}) \cup {s}
    /\ v.alive = w.alive \ {o}
    /\ \A t \in Sessions : t # o => Alike(v.sess[t], w.sess[t])
    /\ Flagged(w) => Flagged(v)
    /\ Full(w, limit) => (v.queue # <<>> => limit > 0 /\ GetActiveSessionCount(v) > limit)
    /\ v.queue \in Seq(Sessions)
    /\ Sub(v.queue, w.queue)
    /\ Fifo(v.queue, w.queue, o)
    /\ Active(v) \ {s} \subseteq Active(w) \/ Within(Active(v) \ {s})

\* An account that has a session reconnects: its old session leaves, s takes its place.
LEMMA ReconnectKeeps ==
  ASSUME NEW w, WorldInv(w), NEW o \in Online(w), NEW s \in w.alive \ Online(w), AccountOf[s] = AccountOf[o],
         limit \in Nat, NEW u, u = RemoveQueuedPlayer(KickPlayer(w, o), o),
         NEW v, v = Replaced(u, o, s)
  PROVE  Enters(w, o, s, v)
<1>0. PICK k : k = KickPlayer(w, o)
  BY Zenon
<1>1. o \in Sessions /\ s \in Sessions
  BY DEF Online, WorldInv, Worlds
<1>2. /\ WorldInv(k)
      /\ Online(k) = Online(w)
      /\ k.queue = w.queue
      /\ k.alive = w.alive
      /\ \A t \in Sessions : t # o => k.sess[t] = w.sess[t]
      /\ Flagged(w) => Flagged(k)
  BY <1>0, <1>1, KickKeeps, SMTT(30)
<1>3. u = RemoveQueuedPlayer(k, o)
  BY <1>0
<1>4. WorldInv(u) /\ Online(u) = Online(k) /\ (Flagged(k) => Flagged(u)) /\ ~Listed(u.queue, o)
  BY <1>1, <1>2, <1>3, RemoveKeeps
<1>5. /\ u.alive = k.alive
      /\ u.queue \in Seq(Sessions)
      /\ Sub(u.queue, k.queue)
      /\ Fifo(u.queue, k.queue, o)
      /\ \A t \in Sessions : Alike(u.sess[t], k.sess[t])
      /\ ~Accepts(k, o) => Active(u) \ {o} \subseteq Active(k)
  BY <1>1, <1>2, <1>3, RemoveOrder
<1>6. s \in u.alive \ Online(u) /\ o \in Online(u)
  BY <1>2, <1>4, <1>5
<1>7. /\ WorldInv(v)
      /\ Online(v) = (Online(u) \ {o}) \cup ({s} \cap Sessions)
      /\ v.queue = u.queue
      /\ v.alive = u.alive \ {o}
      /\ \A t \in Sessions : t # o => v.sess[t] = u.sess[t]
      /\ Flagged(u) => Flagged(v)
  <2>2. s \in u.alive \ Online(u) /\ AccountOf[s] = AccountOf[o]
    BY <1>6
  <2>3. WorldInv(u) /\ o \in Online(u) /\ ~Listed(u.queue, o)
    BY <1>4, <1>6
  <2> QED BY <2>2, <2>3, ReplaceKeeps
<1>8. Online(v) = (Online(w) \ {o}) \cup {s}
  BY <1>1, <1>2, <1>4, <1>7
<1>9. \A t \in Sessions : t # o => Alike(v.sess[t], w.sess[t])
  BY <1>2, <1>5, <1>7 DEF Alike
<1>10. Active(k) = Active(w) /\ GetActiveSessionCount(k) = GetActiveSessionCount(w)
  BY <1>2 DEF Active, GetActiveSessionCount
<1>11. /\ Accepts(k, o) => limit = 0 \/ GetActiveSessionCount(u) <= limit + 1
       /\ Full(k, limit) => Full(u, limit) /\ (u.queue # <<>> => GetActiveSessionCount(u) > limit)
  <2>1. o \in Online(k)
    BY <1>2
  <2> QED BY <1>2, <1>3, <2>1, RemoveCount
<1>12. ~Listed(u.queue, s)
  BY <1>4, <1>6 DEF WorldInv, Queued, Listed
<1>13. o \in Active(u) /\ s \in Active(v) /\ Active(v) \ {s} = Active(u) \ {o}
  <2>1. s # o
    BY <1>6
  <2> QED BY <1>1, <1>4, <1>6, <1>7, <1>12, <2>1 DEF Active
<1>14. /\ GetActiveSessionCount(u) = Cardinality(Active(u))
       /\ IsFiniteSet(Active(u))
       /\ Cardinality(Active(u)) \in Nat
       /\ GetActiveSessionCount(v) = Cardinality(Active(v))
       /\ IsFiniteSet(Active(v))
       /\ Cardinality(Active(v)) \in Nat
  BY <1>4, <1>7, ActiveCount
<1>15. Cardinality(Active(u) \ {o}) = Cardinality(Active(u)) - 1
  BY <1>13, <1>14, FS_RemoveElement
<1>16. Cardinality(Active(v) \ {s}) = Cardinality(Active(v)) - 1
  BY <1>13, <1>14, FS_RemoveElement
<1>17. Full(w, limit) => (v.queue # <<>> => limit > 0 /\ GetActiveSessionCount(v) > limit)
  <2>1. Cardinality(Active(v)) = Cardinality(Active(u))
    BY <1>13, <1>14, <1>15, <1>16
  <2>2. Full(w, limit) => Full(k, limit)
    BY <1>2, <1>10 DEF Full
  <2>3. ASSUME Full(w, limit), v.queue # <<>> PROVE limit > 0 /\ GetActiveSessionCount(u) > limit
    BY <1>7, <1>11, <2>2, <2>3 DEF Full
  <2> QED BY <1>14, <2>1, <2>3
<1>18. Active(v) \ {s} \subseteq Active(w) \/ Within(Active(v) \ {s})
  <2>1. CASE ~Accepts(k, o)
    BY <1>5, <1>10, <1>13, <2>1
  <2>2. CASE Accepts(k, o)
    <3>1. limit = 0 \/ Cardinality(Active(u) \ {o}) <= limit
      BY <1>11, <1>14, <1>15, <2>2
    <3> QED BY <1>13, <3>1 DEF Within
  <2> QED BY <2>1, <2>2
<1>19. v.queue \in Seq(Sessions) /\ Sub(v.queue, w.queue) /\ Fifo(v.queue, w.queue, o)
  BY <1>2, <1>5, <1>7
<1> QED BY <1>2, <1>4, <1>5, <1>7, <1>8, <1>9, <1>17, <1>18, <1>19 DEF Enters
-----------------------------------------------------------------------------
(* Admit.  Its parts have the names they have there. *)

Old(s)       == world.sessions[AccountOf[s]]
WasQueued(s) == Old(s) # NoSession /\ Listed(world.queue, Old(s))
Vacated(s)   == IF Old(s) = NoSession THEN world
                ELSE Delete(RemoveQueuedPlayer(KickPlayer(world, Old(s)), Old(s)), Old(s))
Entered(s)   == [Vacated(s) EXCEPT !.sessions[AccountOf[s]] = s]
Others(s)    == GetActiveAndQueuedSessionCount(Entered(s)) - (IF WasQueued(s) THEN 0 ELSE 1)
MustWait(s)    == limit > 0 /\ Others(s) >= limit /\ ~Exempt(AccountOf[s])

\* Admit, put together again.
LEMMA AdmitParts ==
  ASSUME NEW s
  PROVE  Admit(s) = IF MustWait(s) THEN AddQueuedPlayer(Entered(s), s) ELSE Entered(s)
  BY Zenon DEF Admit, MustWait, Others, Entered, Vacated, WasQueued, Old

\* The newcomer has its account's entry in m_sessions, and the old session, if any, has gone.
LEMMA EnteredFacts ==
  ASSUME WorldInv(world), NEW s \in world.alive \ Online(world), limit \in Nat,
         NEW o, o = Old(s), NEW v, v = Entered(s)
  PROVE  /\ o \in Online(world) \cup {NoSession}
         /\ Enters(world, o, s, v)
<1>1. s \in Sessions /\ AccountOf[s] \in Accounts /\ world.queue \in Seq(Sessions)
  BY SessionAssumption DEF WorldInv, Worlds
<1>2. o \in Sessions \cup {NoSession}
  BY <1>1 DEF WorldInv, Worlds, Old
<1>3. CASE o = NoSession
  <2>1. v = [world EXCEPT !.sessions[AccountOf[s]] = s]
    BY <1>3 DEF Entered, Vacated
  <2>2. world.sessions[AccountOf[s]] = NoSession
    BY <1>3 DEF Old
  <2>3. /\ WorldInv(v)
        /\ Online(v) = Online(world) \cup {s}
        /\ v.queue = world.queue
        /\ v.alive = world.alive
        /\ v.sess = world.sess
    BY <2>1, <2>2, EnterKeeps
  <2>4. o \notin Online(world) /\ o \notin world.alive
    BY <1>3, SessionAssumption DEF Online, WorldInv, Worlds
  <2>5. Sub(v.queue, world.queue) /\ Fifo(v.queue, world.queue, o)
    BY <2>3 DEF Sub, Fifo, Listed
  <2>6. Active(v) \ {s} \subseteq Active(world)
    BY <2>3 DEF Active
  <2>7. Flagged(world) => Flagged(v)
    BY <2>3 DEF Flagged
  <2>8. GetActiveSessionCount(v) = GetActiveSessionCount(world) + 1 /\ GetActiveSessionCount(world) \in Nat
    <3>1. IsFiniteSet(Online(world)) /\ Cardinality(Online(world)) \in Nat
      BY OnlineFinite
    <3>2. Cardinality(Online(v)) = Cardinality(Online(world)) + 1
      BY <2>3, <3>1, FS_AddElement
    <3>3. GetActiveSessionCount(world) \in Nat /\ Len(world.queue) \in Nat
      BY ActiveCount
    <3> QED BY <2>3, <3>1, <3>2, <3>3 DEF GetActiveSessionCount
  <2>9. Full(world, limit) => (v.queue # <<>> => limit > 0 /\ GetActiveSessionCount(v) > limit)
    BY <2>3, <2>8 DEF Full
  <2>10. \A t \in Sessions : Alike(v.sess[t], world.sess[t])
    BY <2>3 DEF Alike
  <2>11. v.queue \in Seq(Sessions) /\ v.alive = world.alive \ {o} /\ Online(v) = (Online(world) \ {o}) \cup {s}
    BY <1>1, <2>3, <2>4
  <2> QED BY <1>3, <2>3, <2>5, <2>6, <2>7, <2>9, <2>10, <2>11 DEF Enters
<1>4. CASE o # NoSession
  <2>1. o \in Sessions
    BY <1>2, <1>4
  <2>2. AccountOf[o] = AccountOf[s] /\ o \in Online(world)
    <3>1. AccountOf[o] = AccountOf[s]
      BY <1>1, <1>4 DEF WorldInv, Owned, Old
    <3> QED BY <2>1, <3>1 DEF Online, Old
  <2>3. PICK u : u = RemoveQueuedPlayer(KickPlayer(world, o), o)
    BY Zenon
  <2>4. v = Replaced(u, o, s)
    BY <1>4, <2>2, <2>3 DEF Entered, Vacated, Replaced
  <2>5. AccountOf[s] = AccountOf[o]
    BY <2>2
  <2>6. Enters(world, o, s, v)
    BY <2>2, <2>3, <2>4, <2>5, ReconnectKeeps
  <2> QED BY <2>2, <2>6
<1> QED BY <1>3, <1>4

\* The sessions but the newcomer, as Admit counts them.
LEMMA OthersCount ==
  ASSUME WorldInv(world), NEW s \in world.alive \ Online(world), limit \in Nat,
         NEW o, o = Old(s), NEW v, v = Entered(s)
  PROVE  /\ Others(s) \in Int
         /\ Cardinality(Online(v)) \in Nat
         /\ Cardinality(Online(v)) = Others(s) + (IF WasQueued(s) THEN 0 ELSE 1)
         /\ Full(world, limit) /\ world.queue # <<>> => limit > 0 /\ Others(s) >= limit
         /\ Full(world, limit) /\ WasQueued(s) => Others(s) > limit
<1>1. o \in Online(world) \cup {NoSession} /\ Online(v) = (Online(world) \ {o}) \cup {s}
  BY EnteredFacts DEF Enters
<1>2. IsFiniteSet(Online(world)) /\ Cardinality(Online(world)) \in Nat /\ Cardinality(Online(v)) \in Nat
  BY OnlineFinite
<1>3. PICK n \in Nat : n = Cardinality(Online(world))
  BY <1>2
<1>4. IsFiniteSet(Online(world) \ {o})
      /\ Cardinality(Online(world) \ {o}) = IF o \in Online(world) THEN n - 1 ELSE n
  BY <1>2, <1>3, FS_RemoveElement
<1>5. Cardinality(Online(v)) = Cardinality(Online(world) \ {o}) + 1
  <2>1. s \notin Online(world) \ {o}
    OBVIOUS
  <2>2. PICK rest : rest = Online(world) \ {o}
    BY Zenon
  <2>3. IsFiniteSet(rest) /\ s \notin rest
    BY <1>4, <2>1, <2>2, Zenon
  <2>4. Cardinality(rest \cup {s}) = Cardinality(rest) + 1
    BY <2>3, FS_AddElement
  <2> QED BY <1>1, <2>2, <2>4, Zenon
<1>6. o # NoSession <=> o \in Online(world)
  BY <1>1, SessionAssumption DEF Online
<1>7. Cardinality(Online(v)) = IF o = NoSession THEN n + 1 ELSE n
  BY <1>3, <1>4, <1>5, <1>6
<1>8. Others(s) = Cardinality(Online(v)) - (IF WasQueued(s) THEN 0 ELSE 1)
  BY DEF Others, GetActiveAndQueuedSessionCount
<1>9. WasQueued(s) => o # NoSession /\ world.queue # <<>>
  BY DEF WasQueued, Listed
<1>10. Full(world, limit) /\ world.queue # <<>> => limit > 0 /\ n > limit
  <2>1. SUFFICES ASSUME Full(world, limit), world.queue # <<>> PROVE limit > 0 /\ n > limit
    OBVIOUS
  <2>2. limit > 0 /\ n - Len(world.queue) >= limit
    BY <1>3, <2>1 DEF Full, GetActiveSessionCount
  <2>3. Len(world.queue) \in Nat /\ Len(world.queue) # 0
    <3>1. world.queue \in Seq(Sessions)
      BY DEF WorldInv, Worlds
    <3> QED BY <2>1, <3>1
  <2> QED BY <1>3, <2>2, <2>3
<1>11. CASE WasQueued(s)
  <2>1. Others(s) = n
    BY <1>2, <1>3, <1>7, <1>8, <1>9, <1>11
  <2> QED BY <1>2, <1>3, <1>7, <1>8, <1>9, <1>10, <1>11, <2>1
<1>12. CASE ~WasQueued(s)
  <2>1. Others(s) = (IF o = NoSession THEN n + 1 ELSE n) - 1
    BY <1>7, <1>8, <1>12
  <2>2. Others(s) \in Int /\ Others(s) >= n - 1
    BY <1>3, <2>1
  <2>3. Cardinality(Online(v)) = Others(s) + 1
    BY <1>2, <1>8, <1>12
  <2>4. Full(world, limit) /\ world.queue # <<>> => limit > 0 /\ Others(s) >= limit
    BY <1>3, <1>10, <2>2
  <2> QED BY <1>2, <1>12, <2>2, <2>3, <2>4
<1> QED BY <1>11, <1>12

\* The queue before and after: some left it, but nobody before everyone ahead except o, and s may have come.
Joined(q, p, o, s) ==
    \E r \in Seq(Sessions) : Sub(r, q) /\ Fifo(r, q, o) /\ (p = r \/ p = Append(r, s))

\* What a newcomer may do to the others.
LEMMA AdmitKeeps ==
  ASSUME WorldInv(world), NEW s \in world.alive \ Online(world), limit \in Nat,
         NEW o, o = Old(s), NEW v, v = Admit(s)
  PROVE  /\ o \in Online(world) \cup {NoSession}
         /\ WorldInv(v)
         /\ Online(v) = (Online(world) \ {o}) \cup {s}
         /\ v.alive = world.alive \ {o}
         /\ \A t \in Sessions : t # o => Alike(v.sess[t], world.sess[t])
         /\ Flagged(world) => Flagged(v)
         /\ Full(world, limit) => Full(v, limit)
         /\ Joined(world.queue, v.queue, o, s)
         /\ Full(world, limit) /\ s \in Active(v) => Exempt(AccountOf[s]) \/ v.queue = <<>>
         /\ Active(v) \ {s} \subseteq Active(world) \/ Within(Active(v) \ {s})
         /\ s \in Active(v) => Exempt(AccountOf[s]) \/ Within(Active(v))
<1>1. PICK w : w = Entered(s)
  BY Zenon
<1>2. o \in Online(world) \cup {NoSession} /\ Enters(world, o, s, w)
  BY <1>1, EnteredFacts
<1>3. /\ WorldInv(w)
      /\ Online(w) = (Online(world) \ {o}) \cup {s}
      /\ w.alive = world.alive \ {o}
      /\ \A t \in Sessions : t # o => Alike(w.sess[t], world.sess[t])
      /\ Flagged(world) => Flagged(w)
      /\ Full(world, limit) => (w.queue # <<>> => limit > 0 /\ GetActiveSessionCount(w) > limit)
      /\ w.queue \in Seq(Sessions)
      /\ Sub(w.queue, world.queue)
      /\ Fifo(w.queue, world.queue, o)
      /\ Active(w) \ {s} \subseteq Active(world) \/ Within(Active(w) \ {s})
  BY <1>2 DEF Enters
<1>4. /\ Others(s) \in Int
      /\ Cardinality(Online(w)) \in Nat
      /\ Cardinality(Online(w)) = Others(s) + (IF WasQueued(s) THEN 0 ELSE 1)
      /\ Full(world, limit) /\ world.queue # <<>> => limit > 0 /\ Others(s) >= limit
      /\ Full(world, limit) /\ WasQueued(s) => Others(s) > limit
  BY <1>1, OthersCount
<1>5. v = IF MustWait(s) THEN AddQueuedPlayer(w, s) ELSE w
  BY <1>1, AdmitParts
<1>6. s \in Sessions /\ s \in Online(w) /\ ~Listed(w.queue, s) /\ w.sess[s].player = "none"
  <2>1. s \in Sessions /\ s \in Online(w)
    BY <1>3 DEF WorldInv, Worlds
  <2>2. s # o
    BY <1>2, <2>1, SessionAssumption
  <2>3. ~Listed(w.queue, s)
    BY <1>3 DEF Sub, Listed, WorldInv, Queued
  <2>4. w.sess[s].player = "none"
    BY <1>3, <2>1, <2>2 DEF Alike, WorldInv, Off
  <2> QED BY <2>1, <2>3, <2>4
<1>7. GetActiveSessionCount(w) \in Nat /\ Len(w.queue) \in Nat
  BY <1>3, ActiveCount
<1>8. CASE MustWait(s)
  <2>1. v = AddQueuedPlayer(w, s)
    BY <1>5, <1>8
  <2>2. /\ WorldInv(v)
        /\ Online(v) = Online(w)
        /\ v.queue = Append(w.queue, s)
        /\ v.alive = w.alive
        /\ \A t \in Sessions : Alike(v.sess[t], w.sess[t])
        /\ Flagged(w) => Flagged(v)
    BY <1>3, <1>6, <2>1, AddQueuedKeeps DEF Alike
  <2>3. Listed(v.queue, s) /\ \A t : Listed(w.queue, t) => Listed(v.queue, t)
    <3>1. /\ Len(v.queue) \in DOMAIN v.queue /\ v.queue[Len(v.queue)] = s
          /\ \A k \in DOMAIN w.queue : k \in DOMAIN v.queue /\ v.queue[k] = w.queue[k]
      BY <1>3, <1>6, <2>2
    <3> QED BY <3>1 DEF Listed
  <2>4. s \notin Active(v) /\ Active(v) \subseteq Active(w) \ {s} /\ Active(v) \ {s} = Active(w) \ {s}
    <3>1. ASSUME NEW t \in Active(w), t # s PROVE ~Listed(v.queue, t)
      <4>1. \A k \in DOMAIN v.queue : v.queue[k] = s \/ Listed(w.queue, v.queue[k])
        BY <1>3, <1>6, <2>2 DEF Listed
      <4> QED BY <3>1, <4>1 DEF Active, Listed
    <3> QED BY <2>2, <2>3, <3>1 DEF Active
  <2>5. Full(world, limit) => Full(v, limit)
    <3>1. SUFFICES ASSUME Full(world, limit) PROVE GetActiveSessionCount(v) >= limit
      BY <1>8 DEF Full, MustWait
    <3>2. Len(v.queue) = Len(w.queue) + 1
      BY <1>3, <1>6, <2>2
    <3>3. GetActiveSessionCount(v) = Cardinality(Online(w)) - (Len(w.queue) + 1)
      BY <2>2, <3>2 DEF GetActiveSessionCount
    <3>4. GetActiveSessionCount(w) = Cardinality(Online(w)) - Len(w.queue)
      BY DEF GetActiveSessionCount
    <3>5. GetActiveSessionCount(w) > limit
      <4>1. CASE w.queue # <<>>
        BY <1>3, <3>1, <4>1
      <4>2. CASE w.queue = <<>>
        <5>1. Cardinality(Online(w)) > limit
          <6>1. Others(s) >= limit
            BY <1>8 DEF MustWait
          <6> QED BY <1>4, <3>1, <6>1
        <5>2. Len(w.queue) = 0
          BY <4>2
        <5> QED BY <1>4, <3>4, <5>1, <5>2
      <4> QED BY <4>1, <4>2
    <3> QED BY <1>4, <1>7, <3>3, <3>4, <3>5
  <2>6. \A t \in Sessions : t # o => Alike(v.sess[t], world.sess[t])
    BY <1>3, <2>2 DEF Alike
  <2>7. Joined(world.queue, v.queue, o, s)
    BY <1>3, <2>2 DEF Joined
  <2> QED BY <1>2, <1>3, <2>2, <2>4, <2>5, <2>6, <2>7
<1>9. CASE ~MustWait(s)
  <2>1. v = w
    BY <1>5, <1>9
  <2>2. Exempt(AccountOf[s]) \/ limit = 0 \/ Others(s) < limit
    BY <1>4, <1>9 DEF MustWait
  <2>3. Full(world, limit) => Full(w, limit)
    BY <1>3, <1>7 DEF Full
  <2>4. Full(world, limit) => Exempt(AccountOf[s]) \/ w.queue = <<>>
    <3>1. SUFFICES ASSUME Full(world, limit), ~Exempt(AccountOf[s]) PROVE w.queue = <<>>
      OBVIOUS
    <3>2. world.queue = <<>>
      BY <1>4, <2>2, <3>1
    <3>3. \A k \in DOMAIN w.queue : FALSE
      BY <1>3, <3>2 DEF Sub
    <3>4. w.queue # <<>> => 1 \in DOMAIN w.queue
      BY <1>3
    <3> QED BY <3>3, <3>4
  <2>5. Exempt(AccountOf[s]) \/ Within(Active(w))
    <3>1. SUFFICES ASSUME Others(s) < limit PROVE Cardinality(Active(w)) <= limit
      BY <2>2 DEF Within
    <3>2. Cardinality(Online(w)) <= limit
      BY <1>4, <3>1
    <3>3. Cardinality(Active(w)) <= Cardinality(Online(w)) /\ Cardinality(Active(w)) \in Nat
      <4>1. Active(w) \in SUBSET Online(w)
        BY DEF Active
      <4>2. Cardinality(Active(w)) <= Cardinality(Online(w))
        BY <4>1, OnlineFinite, FS_Subset
      <4> QED BY <1>3, <4>2, ActiveCount
    <3> QED BY <1>4, <3>2, <3>3
  <2>6. Joined(world.queue, w.queue, o, s)
    BY <1>3 DEF Joined
  <2> QED BY <1>2, <1>3, <2>1, <2>3, <2>4, <2>5, <2>6
<1> QED BY <1>8, <1>9
-----------------------------------------------------------------------------
(* The other operators. *)

\* AddSession_ deletes a session whose account has a loading player.
LEMMA RefusedKeeps ==
  ASSUME NEW w, WorldInv(w), NEW s \in Sessions \ Online(w), NEW v, v = Delete(KickPlayer(w, s), s)
  PROVE  /\ WorldInv(v)
         /\ Online(v) = Online(w)
         /\ v.queue = w.queue
         /\ v.alive = w.alive \ {s}
         /\ \A t \in Sessions : t # s => v.sess[t] = w.sess[t]
         /\ Flagged(w) => Flagged(v)
<1>0. PICK k, g : k = KickPlayer(w, s) /\ g = [k.sess EXCEPT ![s] = Fresh]
  BY Zenon
<1>1. /\ WorldInv(k)
      /\ Online(k) = Online(w)
      /\ k.queue = w.queue
      /\ k.alive = w.alive
      /\ \A t \in Sessions : t # s => k.sess[t] = w.sess[t]
      /\ Flagged(w) => Flagged(k)
  BY <1>0, KickKeeps
<1>2. /\ k \in Worlds
      /\ k.queue \in Seq(Sessions)
      /\ k.alive \subseteq Sessions
      /\ k.sess \in [Sessions -> Fields]
  BY <1>1 DEF WorldInv, Worlds
<1>3. v = [k EXCEPT !.alive = k.alive \ {s}, !.sess = g]
  BY <1>0, <1>2 DEF Delete, Worlds
<1>4. g \in [Sessions -> Fields] /\ g[s] = Fresh /\ \A t \in Sessions : t # s => g[t] = k.sess[t]
  BY <1>0, <1>2, FreshFields
<1>5. /\ v \in Worlds
      /\ v.sessions = k.sessions
      /\ v.queue = k.queue
      /\ v.alive = k.alive \ {s}
      /\ v.sess = g
  BY <1>2, <1>3, <1>4 DEF Worlds
<1>6. Online(v) = Online(k)
  BY <1>5 DEF Online
<1>7. Owned(v) /\ Online(v) \subseteq v.alive /\ Distinct(v.queue)
  BY <1>1, <1>5, <1>6 DEF WorldInv, Owned
<1>8. Off(v)
  BY <1>1, <1>4, <1>5, <1>6, FreshFields DEF WorldInv, Off
<1>9. Waits(v)
  BY <1>1, <1>4, <1>5, FreshFields DEF WorldInv, Waits
<1>10. \A i \in DOMAIN k.queue : k.queue[i] \in Online(k) /\ k.queue[i] # s /\ k.queue[i] \in Sessions
  BY <1>1, <1>2 DEF WorldInv, Queued
<1>11. Queued(v) /\ Shown(v)
  BY <1>1, <1>4, <1>5, <1>6, <1>10 DEF WorldInv, Queued, Shown
<1>12. Flagged(k) => Flagged(v)
  BY <1>4, <1>5, FreshFields DEF Flagged
<1> QED BY <1>1, <1>4, <1>5, <1>6, <1>7, <1>8, <1>9, <1>11, <1>12 DEF WorldInv

\* What the answers of the databases and the clock make of a session.
Settles(f, g) ==
    /\ g \in Fields
    /\ g.inQueue = f.inQueue
    /\ g.pos = f.pos
    /\ f.player = "none" => g.player = "none"
    /\ Kicked(f) => Kicked(g)
    /\ TooLate(f) => g.player \in {"none", "refused"}

\* An enumeration is answered.
LEMMA EnumSettles ==
  ASSUME NEW f \in Fields, NEW g \in EnumAnswers(f)
  PROVE  g \in Fields /\ g.inQueue = f.inQueue /\ g.pos = f.pos /\ g.player = f.player
         /\ g.open = f.open /\ g.forceExit = f.forceExit
<1>1. CASE f.chars = "asked"
  <2>1. PICK c \in {"asked", "known", "unknown"} : g = [f EXCEPT !.chars = c]
    BY <1>1 DEF EnumAnswers
  <2> QED BY <2>1 DEF Fields
<1>2. CASE f.chars # "asked"
  BY <1>2 DEF EnumAnswers
<1> QED BY <1>1, <1>2

\* A login is answered.
LEMMA LoginSettles ==
  ASSUME NEW f \in Fields, NEW g \in LoginAnswers(f)
  PROVE  g \in Fields /\ g.inQueue = f.inQueue /\ g.pos = f.pos
         /\ (g.player = f.player \/ f.player = "loading") /\ (Kicked(f) => Kicked(g))
<1>1. g = f \/ f.player = "loading"
  BY DEF LoginAnswers
<1>2. \/ g = f
      \/ g = [f EXCEPT !.player = "inworld"]
      \/ g = [f EXCEPT !.player = "none", !.open = FALSE, !.forceExit = TRUE]
  BY DEF LoginAnswers
<1>3. CASE g = f
  BY <1>3
<1>4. CASE g = [f EXCEPT !.player = "inworld"]
  <2>1. g \in Fields /\ g.inQueue = f.inQueue /\ g.pos = f.pos /\ g.open = f.open /\ g.forceExit = f.forceExit
    BY <1>4 DEF Fields
  <2> QED BY <1>1, <2>1 DEF Kicked
<1>5. CASE g = [f EXCEPT !.player = "none", !.open = FALSE, !.forceExit = TRUE]
  <2>1. g \in Fields /\ g.inQueue = f.inQueue /\ g.pos = f.pos /\ Kicked(g)
    BY <1>5 DEF Fields, Kicked
  <2> QED BY <1>1, <2>1
<1> QED BY <1>2, <1>3, <1>4, <1>5

\* The twenty seconds are over, or not.
LEMMA LogoutSettles ==
  ASSUME NEW f \in Fields, NEW g \in LogoutAnswers(f)
  PROVE  g \in Fields /\ g.inQueue = f.inQueue /\ g.pos = f.pos
         /\ (g.player = f.player \/ f.player = "leaving") /\ g.open = f.open /\ g.forceExit = f.forceExit
<1>1. g = f \/ (f.player = "leaving" /\ g = [f EXCEPT !.player = "none"])
  BY DEF LogoutAnswers
<1>2. CASE g = f
  BY <1>2
<1>3. CASE f.player = "leaving" /\ g = [f EXCEPT !.player = "none"]
  BY <1>3 DEF Fields
<1> QED BY <1>1, <1>2, <1>3

\* The rest of Update leaves a kicked session kicked and logs no character in that was not loading.
LEMMA AnswersSettle ==
  ASSUME NEW f \in Fields, NEW g \in Answers(f)
  PROVE  Settles(f, g)
<1>0. PICK e \in EnumAnswers(f) : \E h \in LoginAnswers(e) : g \in LogoutAnswers(h)
  BY DEF Answers
<1>1. PICK h \in LoginAnswers(e) : g \in LogoutAnswers(h)
  BY <1>0
<1>2. e \in Fields /\ e.inQueue = f.inQueue /\ e.pos = f.pos /\ e.player = f.player
      /\ e.open = f.open /\ e.forceExit = f.forceExit
  BY EnumSettles
<1>3. h \in Fields /\ h.inQueue = e.inQueue /\ h.pos = e.pos
      /\ (h.player = e.player \/ e.player = "loading") /\ (Kicked(e) => Kicked(h))
  BY <1>2, LoginSettles
<1>4. g \in Fields /\ g.inQueue = h.inQueue /\ g.pos = h.pos
      /\ (g.player = h.player \/ h.player = "leaving") /\ g.open = h.open /\ g.forceExit = h.forceExit
  BY <1>1, <1>3, LogoutSettles
<1>5. Kicked(f) => Kicked(g)
  BY <1>2, <1>3, <1>4 DEF Kicked
<1>6. f.player = "none" => g.player = "none"
  BY <1>2, <1>3, <1>4
<1>7. TooLate(f) => g.player \in {"none", "refused"}
  BY <1>2, <1>3, <1>4 DEF TooLate
<1> QED BY <1>2, <1>3, <1>4, <1>5, <1>6, <1>7 DEF Settles

\* The time of a session without a socket runs down to zero.
LEMMA ClockSettles ==
  ASSUME NEW f \in Fields, NEW diff \in 1 .. MaxDiff,
         NEW g, g = [f EXCEPT !.expireTime = IF f.open THEN @ ELSE Countdown(@, diff)]
  PROVE  /\ g \in Fields
         /\ g.inQueue = f.inQueue
         /\ g.pos = f.pos
         /\ g.player = f.player
         /\ g.open = f.open
         /\ g.forceExit = f.forceExit
<1>1. f.expireTime \in Nat /\ diff \in Nat
  BY ConfigAssumption DEF Fields
<1>2. Countdown(f.expireTime, diff) \in Nat
  BY <1>1 DEF Countdown
<1>3. PICK e \in Nat : e = IF f.open THEN f.expireTime ELSE Countdown(f.expireTime, diff)
  BY <1>1, <1>2
<1>4. g = [f EXCEPT !.expireTime = e]
  BY <1>3
<1> QED BY <1>4 DEF Fields
-----------------------------------------------------------------------------
(* The invariant. *)

\* The limit is a number.
LEMMA LimitIsNat ==
  ASSUME Inv
  PROVE  limit \in Nat
  BY ConfigAssumption DEF Inv, LimitInv

\* The limit in use stays what it was, and so does what it says of the queue.
LEMMA LimitSame ==
  ASSUME LimitInv, limit' = limit, Full(world, limit) => Full(world', limit)
  PROVE  LimitInv'
  BY DEF LimitInv

\* The start.
LEMMA InitInv ==
  ASSUME Init
  PROVE  Inv
<1>1. /\ world.sessions = [a \in Accounts |-> NoSession]
      /\ world.queue = <<>>
      /\ world.alive = {}
      /\ world.sess = [s \in Sessions |-> Fresh]
      /\ world = [sessions |-> world.sessions, queue |-> world.queue, alive |-> world.alive, sess |-> world.sess]
  BY DEF Init
<1>2. \A a \in Accounts : world.sessions[a] = NoSession
  BY <1>1
<1>3. \A s \in Sessions : world.sess[s] = Fresh
  BY <1>1
<1>4. world.sess \in [Sessions -> Fields]
  BY <1>1, FreshFields
<1>5. world \in Worlds
  <2>1. /\ world.sessions \in [Accounts -> Sessions \cup {NoSession}]
        /\ world.queue \in Seq(Sessions)
        /\ world.alive \in SUBSET Sessions
    BY <1>1
  <2>2. PICK m, q, a, g : m = world.sessions /\ q = world.queue /\ a = world.alive /\ g = world.sess
    BY Zenon
  <2>3. world = [sessions |-> m, queue |-> q, alive |-> a, sess |-> g]
    BY <1>1, <2>2, Zenon
  <2> QED BY <1>4, <2>1, <2>2, <2>3 DEF Worlds
<1>6. Online(world) = {}
  BY <1>2, SessionAssumption DEF Online
<1>7. Off(world) /\ Waits(world) /\ Flagged(world)
  BY <1>3, FreshFields DEF Off, Waits, Flagged
<1>8. Distinct(world.queue) /\ Queued(world) /\ Shown(world)
  BY <1>1 DEF Distinct, Queued, Shown
<1>9. WorldInv(world)
  BY <1>2, <1>5, <1>6, <1>7, <1>8 DEF WorldInv, Owned
<1>10. HandInv
  BY <1>1 DEF Init, HandInv, Distinct
<1>11. CurInv
  BY DEF Init, CurInv
<1>12. StopInv
  BY DEF Init, StopInv
<1>13. LimitInv
  BY <1>1 DEF Init, LimitInv, Full
<1> QED BY <1>7, <1>9, <1>10, <1>11, <1>12, <1>13 DEF Inv

\* A step that only moves the world thread on.
LEMMA PhaseStep ==
  ASSUME Inv, BeginUpdate \/ EndAdding \/ EndUpdate
  PROVE  Inv'
<1>1. world' = world /\ limit' = limit /\ unborn' = unborn /\ addSessQueue' = addSessQueue /\ stopping' = stopping
  BY DEF BeginUpdate, EndAdding, EndUpdate
<1>2. WorldInv(world)' /\ (~stopping => Flagged(world))'
  BY <1>1 DEF Inv
<1>3. HandInv'
  BY <1>1 DEF Inv, HandInv
<1>4. LimitInv'
  BY <1>1, LimitSame DEF Inv
<1>5. CASE BeginUpdate
  <2>1. CurInv'
    BY <1>1, <1>5 DEF Inv, CurInv, BeginUpdate
  <2>2. StopInv'
    BY <1>1, <1>5 DEF Inv, StopInv, BeginUpdate
  <2> QED BY <1>2, <1>3, <1>4, <2>1, <2>2 DEF Inv
<1>6. CASE EndAdding
  <2>1. CurInv'
    BY <1>1, <1>6, SessionAssumption DEF Inv, CurInv, EndAdding, Online
  <2>2. StopInv'
    BY <1>1, <1>6 DEF Inv, StopInv, EndAdding
  <2> QED BY <1>2, <1>3, <1>4, <2>1, <2>2 DEF Inv
<1>7. CASE EndUpdate
  <2>1. CurInv'
    BY <1>1, <1>7 DEF Inv, CurInv, EndUpdate
  <2>2. StopInv'
    BY <1>1, <1>7 DEF Inv, StopInv, EndUpdate
  <2> QED BY <1>2, <1>3, <1>4, <2>1, <2>2 DEF Inv
<1> QED BY <1>5, <1>6, <1>7

\* The world changes in no way that HandInv and LimitInv see.
LEMMA FieldStep ==
  ASSUME Inv, NEW s \in Sessions, NEW f \in Fields, world' = SetField(world, s, f),
         f.inQueue = world.sess[s].inQueue, f.pos = world.sess[s].pos, f.inQueue => f.player = "none",
         s \in Online(world) \/ (f.player = world.sess[s].player /\ f.chars = world.sess[s].chars),
         stopping' = stopping, unborn' = unborn, addSessQueue' = addSessQueue, limit' = limit
  PROVE  /\ WorldInv(world')
         /\ ~stopping' => Flagged(world')
         /\ HandInv'
         /\ LimitInv'
         /\ Online(world') = Online(world)
         /\ world'.queue = world.queue
         /\ world'.sess[s] = f
         /\ \A t \in Sessions : t # s => world'.sess[t] = world.sess[t]
<1>1. /\ WorldInv(world')
      /\ Online(world') = Online(world)
      /\ world'.queue = world.queue
      /\ world'.alive = world.alive
      /\ world'.sess[s] = f
      /\ \A t \in Sessions : t # s => world'.sess[t] = world.sess[t]
      /\ Flagged(world) => Flagged(world')
  <2>1. WorldInv(world)
    BY DEF Inv
  <2> QED BY <2>1, SetFieldKeeps
<1>2. HandInv'
  BY <1>1 DEF Inv, HandInv
<1>3. LimitInv'
  <2>1. Full(world, limit) => Full(world', limit)
    BY <1>1 DEF Full, GetActiveSessionCount
  <2> QED BY <2>1, LimitSame DEF Inv
<1>4. ~stopping' => Flagged(world')
  BY <1>1 DEF Inv
<1> QED BY <1>1, <1>2, <1>3, <1>4

\* A session that m_sessions has may change its character.
LEMMA WaitsNone ==
  ASSUME Inv, NEW s \in Sessions
  PROVE  world.sess[s] \in Fields /\ (world.sess[s].inQueue => world.sess[s].player = "none")
  BY DEF Inv, WorldInv, Worlds, Waits

\* The iterator moves on.
LEMMA StartStep ==
  ASSUME Inv, NEW s \in Sessions, StartSession(s)
  PROVE  Inv'
<1>1. PICK quiet \in BOOLEAN :
        world' = SetField(world, s, [world.sess[s] EXCEPT !.open = @ /\ ~IsConnectionIdle(world.sess[s], quiet)])
  BY DEF StartSession
<1>2. PICK b \in BOOLEAN : b = (world.sess[s].open /\ ~IsConnectionIdle(world.sess[s], quiet))
  OBVIOUS
<1>3. PICK f : f = [world.sess[s] EXCEPT !.open = b]
  BY Zenon
<1>4. world' = SetField(world, s, f)
  BY <1>1, <1>2, <1>3, Zenon
<1>5. world.sess[s] \in Fields /\ (world.sess[s].inQueue => world.sess[s].player = "none")
  BY WaitsNone
<1>6. /\ f \in Fields
      /\ f.inQueue = world.sess[s].inQueue
      /\ f.pos = world.sess[s].pos
      /\ f.player = world.sess[s].player
      /\ f.chars = world.sess[s].chars
      /\ f.forceExit = world.sess[s].forceExit
      /\ f.open = b
  BY <1>3, <1>5 DEF Fields
<1>7. ~world.sess[s].open => ~f.open
  BY <1>2, <1>6
<1>8. /\ WorldInv(world')
      /\ ~stopping' => Flagged(world')
      /\ HandInv'
      /\ LimitInv'
      /\ Online(world') = Online(world)
      /\ world'.sess[s] = f
      /\ \A t \in Sessions : t # s => world'.sess[t] = world.sess[t]
  <2>1. stopping' = stopping /\ unborn' = unborn /\ addSessQueue' = addSessQueue /\ limit' = limit
    BY DEF StartSession
  <2>2. f.inQueue => f.player = "none"
    BY <1>5, <1>6
  <2> QED BY <1>4, <1>6, <2>1, <2>2, FieldStep
<1>9. /\ phase = "updating" /\ phase' = phase /\ stopping' = stopping
      /\ s \in todo /\ cur' = s /\ todo' = todo \ {s} /\ cur = NoSession
  BY DEF StartSession
<1>10. CurInv'
  BY <1>8, <1>9 DEF Inv, CurInv
<1>11. StopInv'
  <2>1. stopping => Kicked(f) \/ TooLate(f)
    <3>1. SUFFICES ASSUME stopping PROVE Kicked(f) \/ TooLate(f)
      OBVIOUS
    <3>2. s \in Online(world)
      BY <1>9 DEF Inv, CurInv
    <3>3. Kicked(world.sess[s]) \/ Unasked(world.sess[s])
      BY <1>9, <3>1, <3>2 DEF Inv, StopInv
    <3>4. CASE Kicked(world.sess[s])
      BY <1>6, <1>7, <3>4 DEF Kicked
    <3>5. CASE Unasked(world.sess[s])
      BY <1>6, <3>5 DEF Unasked, TooLate
    <3> QED BY <3>3, <3>4, <3>5
  <2>2. Online(world) \subseteq Sessions
    BY DEF Online
  <2>3. \A t \in Online(world) : t # s /\ stopping =>
            /\ t \in todo => Kicked(world'.sess[t]) \/ Unasked(world'.sess[t])
            /\ t \notin todo => ~InWorld(world'.sess[t])
    <3>1. NoSession \notin Online(world)
      BY <2>2, SessionAssumption
    <3> QED BY <1>8, <1>9, <2>2, <3>1 DEF Inv, StopInv
  <2>4. stopping => \A t \in Online(world') :
            /\ phase' = "adding" \/ t \in todo' => Kicked(world'.sess[t]) \/ Unasked(world'.sess[t])
            /\ t = cur' => Kicked(world'.sess[t]) \/ TooLate(world'.sess[t])
            /\ phase' # "adding" /\ t \notin todo' /\ t # cur' => ~InWorld(world'.sess[t])
    BY <1>8, <1>9, <2>1, <2>3
  <2> QED BY <1>9, <2>4 DEF Inv, StopInv
<1> QED BY <1>8, <1>10, <1>11 DEF Inv

\* A packet of the client whose Update runs.
LEMMA HandledStep ==
  ASSUME Inv, NEW s \in Sessions, Handles(s), NEW f \in Fields, Handled(s, f),
         f.inQueue = world.sess[s].inQueue, f.pos = world.sess[s].pos, f.inQueue => f.player = "none",
         stopping /\ TooLate(world.sess[s]) => TooLate(f)
  PROVE  Inv'
<1>1. world' = SetField(world, s, f)
  BY DEF Handled
<1>2. /\ phase' = phase /\ stopping' = stopping /\ todo' = todo /\ cur' = cur
      /\ unborn' = unborn /\ addSessQueue' = addSessQueue /\ limit' = limit
  BY DEF Handled
<1>3. cur = s /\ s \in Online(world)
  BY SessionAssumption DEF Handles, Inv, CurInv
<1>4. /\ WorldInv(world')
      /\ ~stopping' => Flagged(world')
      /\ HandInv'
      /\ LimitInv'
      /\ Online(world') = Online(world)
      /\ world'.sess[s] = f
      /\ \A t \in Sessions : t # s => world'.sess[t] = world.sess[t]
  BY <1>1, <1>2, <1>3, FieldStep
<1>5. CurInv'
  BY <1>2, <1>4 DEF Inv, CurInv
<1>6. StopInv'
  <2>1. stopping => TooLate(f)
    BY <1>3 DEF Inv, StopInv, Handles, Kicked
  <2>2. phase = "updating" /\ s \notin todo
    BY <1>3, SessionAssumption DEF Inv, CurInv
  <2>3. Online(world) \subseteq Sessions
    BY DEF Online
  <2>4. stopping => \A t \in Online(world') :
            /\ phase' = "adding" \/ t \in todo' => Kicked(world'.sess[t]) \/ Unasked(world'.sess[t])
            /\ t = cur' => Kicked(world'.sess[t]) \/ TooLate(world'.sess[t])
            /\ phase' # "adding" /\ t \notin todo' /\ t # cur' => ~InWorld(world'.sess[t])
    BY <1>2, <1>3, <1>4, <2>1, <2>2, <2>3 DEF Inv, StopInv
  <2> QED BY <1>2, <2>4 DEF Inv, StopInv
<1> QED BY <1>4, <1>5, <1>6 DEF Inv

\* The packets.
LEMMA PacketStep ==
  ASSUME Inv, NEW s \in Sessions,
         \/ HandleCharEnumOpcode(s)
         \/ HandlePlayerLoginOpcode(s)
         \/ HandleLogoutRequestOpcode(s)
         \/ HandleLogoutCancelOpcode(s)
  PROVE  Inv'
<1>1. world.sess[s] \in Fields /\ (world.sess[s].inQueue => world.sess[s].player = "none")
  BY WaitsNone
<1>2. CASE HandleCharEnumOpcode(s)
  <2>1. PICK f : f = [world.sess[s] EXCEPT !.chars = "asked"] /\ Handled(s, f)
    BY <1>2 DEF HandleCharEnumOpcode
  <2>2. /\ f \in Fields
        /\ f.inQueue = world.sess[s].inQueue /\ f.pos = world.sess[s].pos
        /\ f.player = world.sess[s].player /\ f.chars = "asked"
    BY <1>1, <2>1 DEF Fields
  <2>3. Handles(s)
    BY <1>2 DEF HandleCharEnumOpcode, HandlesAuthed
  <2>4. TooLate(world.sess[s]) => TooLate(f)
    BY <2>2 DEF TooLate
  <2>5. f.inQueue => f.player = "none"
    BY <1>1, <2>2
  <2> QED BY <2>1, <2>2, <2>3, <2>4, <2>5, HandledStep
<1>3. CASE HandlePlayerLoginOpcode(s)
  <2>1. Handles(s) /\ ~world.sess[s].inQueue
    BY <1>3 DEF HandlePlayerLoginOpcode, HandlesAuthed
  <2>2. PICK own \in BOOLEAN :
          Handled(s, IF CharCanLogin(s, own)
                     THEN [world.sess[s] EXCEPT !.player = "loading"]
                     ELSE [KickPlayer(world, s).sess[s] EXCEPT !.player = "refused"])
    BY <1>3 DEF HandlePlayerLoginOpcode
  <2>3. CASE CharCanLogin(s, own)
    <3>1. PICK f : f = [world.sess[s] EXCEPT !.player = "loading"] /\ Handled(s, f)
      BY <2>2, <2>3
    <3>2. f \in Fields /\ f.inQueue = world.sess[s].inQueue /\ f.pos = world.sess[s].pos
      BY <1>1, <3>1 DEF Fields
    <3>3. ~TooLate(world.sess[s])
      BY <2>3 DEF CharCanLogin, TooLate
    <3>4. ~f.inQueue
      BY <2>1, <3>2
    <3> QED BY <2>1, <3>1, <3>2, <3>3, <3>4, HandledStep
  <2>4. CASE ~CharCanLogin(s, own)
    <3>1. PICK k, g : k = KickPlayer(world, s) /\ g = k.sess[s]
      BY Zenon
    <3>2. /\ WorldInv(k)
          /\ g.player = world.sess[s].player
          /\ g.chars = world.sess[s].chars
      BY <3>1, KickKeeps DEF Inv
    <3>3. /\ g \in Fields
          /\ g.inQueue = world.sess[s].inQueue
          /\ g.pos = world.sess[s].pos
      <4>1. PICK h : h = [world.sess[s] EXCEPT !.open = FALSE, !.forceExit = TRUE]
        BY Zenon
      <4>2. h \in Fields /\ h.inQueue = world.sess[s].inQueue /\ h.pos = world.sess[s].pos
        BY <1>1, <4>1, KickFields
      <4>3. world \in Worlds
        BY DEF Inv, WorldInv
      <4>4. k = SetField(world, s, h)
        BY <3>1, <4>1, Zenon DEF KickPlayer
      <4>5. k.sess[s] = h
        BY <4>2, <4>3, <4>4, SetFieldEffect
      <4> QED BY <3>1, <4>2, <4>5
    <3>4. PICK f : f = [g EXCEPT !.player = "refused"] /\ Handled(s, f)
      BY <2>2, <2>4, <3>1
    <3>5. /\ f \in Fields /\ f.inQueue = g.inQueue /\ f.pos = g.pos
          /\ f.player = "refused" /\ f.chars = g.chars
      BY <3>3, <3>4 DEF Fields
    <3>6. TooLate(world.sess[s]) => TooLate(f)
      BY <3>2, <3>5 DEF TooLate
    <3>7. f.inQueue = world.sess[s].inQueue /\ f.pos = world.sess[s].pos /\ ~f.inQueue
      BY <2>1, <3>3, <3>5
    <3> QED BY <2>1, <3>4, <3>5, <3>6, <3>7, HandledStep
  <2> QED BY <2>3, <2>4
<1>4. CASE HandleLogoutRequestOpcode(s) \/ HandleLogoutCancelOpcode(s)
  <2>1. Handles(s) /\ InWorld(world.sess[s])
    BY <1>4 DEF HandleLogoutRequestOpcode, HandleLogoutCancelOpcode, InWorld
  <2>2. PICK p \in {"inworld", "none", "leaving"} : Handled(s, [world.sess[s] EXCEPT !.player = p])
    BY <1>4 DEF HandleLogoutRequestOpcode, HandleLogoutCancelOpcode
  <2>3. PICK f : f = [world.sess[s] EXCEPT !.player = p] /\ Handled(s, f)
    BY <2>2
  <2>4. f \in Fields /\ f.inQueue = world.sess[s].inQueue /\ f.pos = world.sess[s].pos
    BY <1>1, <2>3 DEF Fields
  <2>5. ~world.sess[s].inQueue /\ ~TooLate(world.sess[s])
    BY <1>1, <2>1 DEF InWorld, TooLate
  <2>6. ~f.inQueue
    BY <2>4, <2>5
  <2> QED BY <2>1, <2>3, <2>4, <2>5, <2>6, HandledStep
<1> QED BY <1>2, <1>3, <1>4

\* A socket is lost, or a session kicked.
LEMMA CloseStep ==
  ASSUME Inv, NEW s \in Sessions, LoseSocket(s) \/ Kick(s)
  PROVE  Inv'
<1>1. world.sess[s] \in Fields /\ (world.sess[s].inQueue => world.sess[s].player = "none")
  BY WaitsNone
<1>2. /\ phase' = phase /\ stopping' = stopping /\ todo' = todo /\ cur' = cur
      /\ unborn' = unborn /\ addSessQueue' = addSessQueue /\ limit' = limit
  BY DEF LoseSocket, Kick
<1>3. PICK f \in Fields : /\ world' = SetField(world, s, f)
                          /\ f.inQueue = world.sess[s].inQueue
                          /\ f.pos = world.sess[s].pos
                          /\ f.player = world.sess[s].player
                          /\ f.chars = world.sess[s].chars
                          /\ Kicked(world.sess[s]) => Kicked(f)
  <2>1. CASE LoseSocket(s)
    <3>1. PICK f : f = [world.sess[s] EXCEPT !.open = FALSE]
      BY Zenon
    <3>2. world' = SetField(world, s, f)
      BY <2>1, <3>1, Zenon DEF LoseSocket
    <3>3. /\ f \in Fields
          /\ f.inQueue = world.sess[s].inQueue
          /\ f.pos = world.sess[s].pos
          /\ f.player = world.sess[s].player
          /\ f.chars = world.sess[s].chars
      BY <1>1, <3>1 DEF Fields
    <3>4. ~Kicked(world.sess[s])
      BY <2>1 DEF LoseSocket, Kicked
    <3> QED BY <3>2, <3>3, <3>4
  <2>2. CASE Kick(s)
    <3>1. PICK f : f = [world.sess[s] EXCEPT !.open = FALSE, !.forceExit = TRUE]
      BY Zenon
    <3>2. world' = SetField(world, s, f)
      BY <2>2, <3>1, Zenon DEF Kick, KickPlayer
    <3>3. /\ f \in Fields
          /\ Kicked(f)
          /\ f.inQueue = world.sess[s].inQueue
          /\ f.pos = world.sess[s].pos
          /\ f.player = world.sess[s].player
          /\ f.chars = world.sess[s].chars
      BY <1>1, <3>1, KickFields
    <3> QED BY <3>2, <3>3
  <2> QED BY <2>1, <2>2
<1>4. /\ WorldInv(world')
      /\ ~stopping' => Flagged(world')
      /\ HandInv'
      /\ LimitInv'
      /\ Online(world') = Online(world)
      /\ world'.sess[s] = f
      /\ \A t \in Sessions : t # s => world'.sess[t] = world.sess[t]
  <2>1. f.inQueue => f.player = "none"
    BY <1>1, <1>3
  <2> QED BY <1>2, <1>3, <2>1, FieldStep
<1>5. CurInv'
  BY <1>2, <1>4 DEF Inv, CurInv
<1>6. \A t \in Sessions : /\ Kicked(world.sess[t]) => Kicked(world'.sess[t])
                          /\ Unasked(world.sess[t]) => Unasked(world'.sess[t])
                          /\ TooLate(world.sess[t]) => TooLate(world'.sess[t])
                          /\ ~InWorld(world.sess[t]) => ~InWorld(world'.sess[t])
  BY <1>3, <1>4 DEF Unasked, TooLate, InWorld
<1>7. StopInv'
  <2>1. Online(world) \subseteq Sessions
    BY DEF Online
  <2> QED BY <1>2, <1>4, <1>6, <2>1 DEF Inv, StopInv
<1> QED BY <1>4, <1>5, <1>7 DEF Inv

\* The end of an Update: the session settles into g, and stays or leaves.
LEMMA FinishParts ==
  ASSUME Inv, NEW s \in Sessions, FinishSession(s)
  PROVE  \E f, g, w :
            /\ Settles(world.sess[s], f)
            /\ g \in Fields
            /\ g.inQueue = f.inQueue /\ g.pos = f.pos /\ g.player = f.player
            /\ w = SetField(world, s, g)
            /\ \/ world' = w /\ ~Kicked(f)
               \/ \E u, x : /\ u = RemoveQueuedPlayer(w, s)
                            /\ x = RemoveQueuedPlayer(u, s)
                            /\ world' = Replaced(x, s, NoSession)
<1>1. world.sess[s] \in Fields
  BY WaitsNone
<1>2. PICK diff \in 1 .. MaxDiff, f \in Answers(world.sess[s]) :
        \E w \in {SetField(world, s, [f EXCEPT !.expireTime = IF f.open THEN @ ELSE Countdown(@, diff)])} :
            IF ~f.open /\ Expires(f, diff)
            THEN \E v \in LeaveQueue(w, s) : world' = [Delete(v, s) EXCEPT !.sessions[AccountOf[s]] = NoSession]
            ELSE world' = w
  BY Zenon DEF FinishSession
<1>3. Settles(world.sess[s], f)
  BY <1>1, AnswersSettle
<1>4. PICK g, w : /\ g = [f EXCEPT !.expireTime = IF f.open THEN @ ELSE Countdown(@, diff)]
                  /\ w = SetField(world, s, g)
  BY Zenon
<1>5. g \in Fields /\ g.inQueue = f.inQueue /\ g.pos = f.pos /\ g.player = f.player
  BY <1>3, <1>4, ClockSettles DEF Settles
<1>6. IF ~f.open /\ Expires(f, diff)
      THEN \E v \in LeaveQueue(w, s) : world' = [Delete(v, s) EXCEPT !.sessions[AccountOf[s]] = NoSession]
      ELSE world' = w
  BY <1>2, <1>4, Zenon
<1>7. CASE ~f.open /\ Expires(f, diff)
  <2>1. PICK x \in LeaveQueue(w, s) : world' = [Delete(x, s) EXCEPT !.sessions[AccountOf[s]] = NoSession]
    BY <1>6, <1>7
  <2>2. x = RemoveQueuedPlayer(RemoveQueuedPlayer(w, s), s)
    BY <2>1 DEF LeaveQueue
  <2>3. world' = Replaced(x, s, NoSession)
    BY <2>1 DEF Replaced
  <2> QED BY <1>3, <1>4, <1>5, <2>2, <2>3, Zenon
<1>8. CASE ~(~f.open /\ Expires(f, diff))
  <2>1. world' = w
    BY <1>6, <1>8
  <2>2. ~Kicked(f)
    BY <1>8 DEF Kicked, Expires
  <2> QED BY <1>3, <1>4, <1>5, <2>1, <2>2, Zenon
<1> QED BY <1>7, <1>8

\* The end of an Update.
LEMMA FinishStep ==
  ASSUME Inv, NEW s \in Sessions, FinishSession(s)
  PROVE  Inv'
<1>1. world.sess[s] \in Fields /\ (world.sess[s].inQueue => world.sess[s].player = "none")
  BY WaitsNone
<1>2. /\ phase' = phase /\ stopping' = stopping /\ todo' = todo /\ cur' = NoSession /\ cur = s
      /\ unborn' = unborn /\ addSessQueue' = addSessQueue /\ limit' = limit
  BY DEF FinishSession
<1>3. s \in Online(world) /\ s \notin todo /\ phase = "updating"
  BY <1>2, SessionAssumption DEF Inv, CurInv
<1>4. PICK f, g, w :
        /\ Settles(world.sess[s], f)
        /\ g \in Fields
        /\ g.inQueue = f.inQueue /\ g.pos = f.pos /\ g.player = f.player
        /\ w = SetField(world, s, g)
        /\ \/ world' = w /\ ~Kicked(f)
           \/ \E u, x : /\ u = RemoveQueuedPlayer(w, s)
                        /\ x = RemoveQueuedPlayer(u, s)
                        /\ world' = Replaced(x, s, NoSession)
  BY FinishParts
<1>5. /\ g.inQueue = world.sess[s].inQueue
      /\ g.pos = world.sess[s].pos
      /\ g.inQueue => g.player = "none"
  BY <1>1, <1>4 DEF Settles
<1>6. Online(world) \subseteq Sessions /\ NoSession \notin Online(world)
  BY SessionAssumption DEF Online
<1>7. /\ WorldInv(w)
      /\ Online(w) = Online(world)
      /\ w.queue = world.queue
      /\ w.alive = world.alive
      /\ \A t \in Sessions : t # s => w.sess[t] = world.sess[t]
      /\ Flagged(world) => Flagged(w)
  <2>1. WorldInv(world)
    BY DEF Inv
  <2>2. g \in Fields /\ w = SetField(world, s, g)
    BY <1>4
  <2> QED BY <1>3, <1>5, <2>1, <2>2, SetFieldKeeps
<1>8. ASSUME NEW u, NEW x, u = RemoveQueuedPlayer(w, s), x = RemoveQueuedPlayer(u, s),
             world' = Replaced(x, s, NoSession)
      PROVE  Inv'
  <2>1. s \in Online(w) /\ limit \in Nat
    BY <1>3, <1>7, LimitIsNat
  <2>2. /\ WorldInv(world')
        /\ Online(world') = Online(w) \ {s}
        /\ world'.alive = w.alive \ {s}
        /\ \A t \in Sessions : t # s => Alike(world'.sess[t], w.sess[t])
        /\ Flagged(w) => Flagged(world')
        /\ Full(w, limit) => Full(world', limit)
    BY <1>8, <1>7, <2>1, LeaveKeeps
  <2>3. HandInv'
    <3>1. \A k \in DOMAIN addSessQueue : addSessQueue[k] # s
      BY <1>3 DEF Inv, HandInv
    <3> QED BY <1>2, <1>7, <2>2, <3>1 DEF Inv, HandInv
  <2>4. CurInv'
    BY <1>2, <1>3, <1>6, <1>7, <2>2 DEF Inv, CurInv
  <2>5. StopInv'
    <3>1. \A t \in Sessions : t # s =>
              /\ Kicked(world.sess[t]) => Kicked(world'.sess[t])
              /\ Unasked(world.sess[t]) => Unasked(world'.sess[t])
              /\ ~InWorld(world.sess[t]) => ~InWorld(world'.sess[t])
      BY <1>7, <2>2 DEF Alike, Kicked, Unasked, InWorld
    <3>2. stopping => \A t \in Online(world') :
              /\ t \in todo => Kicked(world'.sess[t]) \/ Unasked(world'.sess[t])
              /\ t \notin todo => ~InWorld(world'.sess[t])
      BY <1>2, <1>3, <1>6, <1>7, <2>2, <3>1 DEF Inv, StopInv
    <3>3. NoSession \notin Online(world')
      BY SessionAssumption DEF Online
    <3> QED BY <1>2, <1>3, <3>2, <3>3 DEF Inv, StopInv
  <2>6. LimitInv'
    <3>1. Full(world, limit) => Full(world', limit)
      BY <1>7, <2>2 DEF Full, GetActiveSessionCount
    <3> QED BY <1>2, <3>1, LimitSame DEF Inv
  <2> QED BY <1>2, <1>7, <2>2, <2>3, <2>4, <2>5, <2>6 DEF Inv
<1>9. ASSUME world' = SetField(world, s, g), ~Kicked(f) PROVE Inv'
  <2>1. /\ WorldInv(world')
        /\ ~stopping' => Flagged(world')
        /\ HandInv'
        /\ LimitInv'
        /\ Online(world') = Online(world)
        /\ world'.sess[s] = g
        /\ \A t \in Sessions : t # s => world'.sess[t] = world.sess[t]
    <3>1. g \in Fields
      BY <1>4
    <3> QED BY <1>2, <1>3, <1>5, <1>9, <3>1, FieldStep
  <2>2. CurInv'
    BY <1>2, <1>3, <1>6, <2>1 DEF Inv, CurInv
  <2>3. stopping => ~InWorld(g)
    <3>1. SUFFICES ASSUME stopping PROVE ~InWorld(g)
      OBVIOUS
    <3>2. TooLate(world.sess[s])
      BY <1>2, <1>3, <1>4, <1>9, <3>1 DEF Inv, StopInv, Settles
    <3>3. g.player \in {"none", "refused"}
      BY <1>4, <3>2 DEF Settles
    <3> QED BY <3>3 DEF InWorld
  <2>4. StopInv'
    <3>1. stopping => \A t \in Online(world') :
              /\ t \in todo => Kicked(world'.sess[t]) \/ Unasked(world'.sess[t])
              /\ t \notin todo => ~InWorld(world'.sess[t])
      BY <1>2, <1>3, <1>6, <2>1, <2>3 DEF Inv, StopInv
    <3>2. NoSession \notin Online(world')
      BY SessionAssumption DEF Online
    <3> QED BY <1>2, <1>3, <3>1, <3>2 DEF Inv, StopInv
  <2> QED BY <2>1, <2>2, <2>4 DEF Inv
<1> QED BY <1>4, <1>8, <1>9

\* A client connects.
LEMMA ConnectStep ==
  ASSUME Inv, NEW s \in Sessions, AddSession(s)
  PROVE  Inv'
<1>1. world' = [world EXCEPT !.alive = world.alive \cup {s}]
  BY DEF AddSession
<1>2. /\ phase' = phase /\ stopping' = stopping /\ todo' = todo /\ cur' = cur /\ limit' = limit
      /\ unborn' = unborn \ {s} /\ addSessQueue' = Append(addSessQueue, s) /\ s \in unborn
  BY DEF AddSession
<1>3. world \in Worlds
  BY DEF Inv, WorldInv
<1>4. /\ world' \in Worlds
      /\ world'.sessions = world.sessions
      /\ world'.queue = world.queue
      /\ world'.alive = world.alive \cup {s}
      /\ world'.sess = world.sess
  BY <1>1, <1>3 DEF Worlds
<1>5. Online(world') = Online(world)
  BY <1>4 DEF Online
<1>6. WorldInv(world')
  BY <1>4, <1>5 DEF Inv, WorldInv, Owned, Off, Waits, Queued, Shown
<1>7. Flagged(world) => Flagged(world')
  BY <1>4 DEF Flagged
<1>8. s \notin world.alive /\ Online(world) \subseteq world.alive
  BY <1>2 DEF Inv, HandInv, WorldInv
<1>9. HandInv'
  <2>1. addSessQueue \in Seq(Sessions) /\ Distinct(addSessQueue)
        /\ \A k \in DOMAIN addSessQueue : addSessQueue[k] \in world.alive \ Online(world)
    BY DEF Inv, HandInv
  <2>2. PICK q : q = Append(addSessQueue, s)
    BY Zenon
  <2>3. /\ q \in Seq(Sessions)
        /\ Len(q) \in DOMAIN q /\ q[Len(q)] = s
        /\ \A k \in DOMAIN q : k = Len(q) \/ (k \in DOMAIN addSessQueue /\ q[k] = addSessQueue[k])
    BY <2>1, <2>2
  <2>4. Distinct(q)
    BY <1>8, <2>1, <2>3 DEF Distinct
  <2>5. \A k \in DOMAIN q : q[k] \in world'.alive \ Online(world')
    BY <1>4, <1>5, <1>8, <2>1, <2>3
  <2>6. unborn' \subseteq Sessions \ world'.alive
    BY <1>2, <1>4 DEF Inv, HandInv
  <2> QED BY <1>2, <2>2, <2>3, <2>4, <2>5, <2>6 DEF HandInv
<1>10. CurInv'
  BY <1>2, <1>5 DEF Inv, CurInv
<1>11. StopInv'
  BY <1>2, <1>4, <1>5 DEF Inv, StopInv
<1>12. LimitInv'
  <2>1. Full(world, limit) => Full(world', limit)
    BY <1>4, <1>5 DEF Full, GetActiveSessionCount
  <2> QED BY <1>2, <2>1, LimitSame DEF Inv
<1> QED BY <1>2, <1>6, <1>7, <1>9, <1>10, <1>11, <1>12 DEF Inv

\* World::AddSession_ takes the first of addSessQueue.
LEMMA AddStep ==
  ASSUME Inv, AddSession_
  PROVE  Inv'
<1>1. PICK s : s = Head(addSessQueue)
  BY Zenon
<1>2. /\ phase = "adding" /\ addSessQueue # <<>> /\ addSessQueue' = Tail(addSessQueue)
      /\ phase' = phase /\ stopping' = stopping /\ todo' = todo /\ cur' = cur
      /\ unborn' = unborn /\ limit' = limit
      /\ world' = IF RemoveSession(world.sessions[AccountOf[s]]) THEN Admit(s) ELSE Delete(KickPlayer(world, s), s)
  BY <1>1 DEF AddSession_
<1>3. /\ addSessQueue \in Seq(Sessions) /\ Distinct(addSessQueue)
      /\ \A k \in DOMAIN addSessQueue : addSessQueue[k] \in world.alive \ Online(world)
  BY DEF Inv, HandInv
<1>4. PICK q : q = addSessQueue'
  BY Zenon
<1>5. /\ q \in Seq(Sessions)
      /\ s = addSessQueue[1] /\ 1 \in DOMAIN addSessQueue
      /\ \A i \in DOMAIN q : i + 1 \in DOMAIN addSessQueue /\ q[i] = addSessQueue[i + 1]
  BY <1>1, <1>2, <1>3, <1>4, TailFacts
<1>6. s \in Sessions /\ s \in world.alive \ Online(world)
  BY <1>3, <1>5
<1>7. \A i \in DOMAIN q : q[i] \in world.alive \ Online(world) /\ q[i] # s
  <2>1. \A i \in DOMAIN q : i + 1 # 1
    BY <1>5
  <2> QED BY <1>3, <1>5, <2>1 DEF Distinct
<1>8. Distinct(q)
  <2>1. \A i, j \in DOMAIN q : i + 1 = j + 1 => i = j
    BY <1>5
  <2> QED BY <1>3, <1>5, <2>1 DEF Distinct
<1>9. WorldInv(world) /\ limit \in Nat /\ cur = NoSession /\ todo = {}
  BY <1>2, LimitIsNat DEF Inv, CurInv
<1>10. Online(world) \subseteq Sessions /\ NoSession \notin Online(world)
  BY SessionAssumption DEF Online
<1>11. CASE RemoveSession(world.sessions[AccountOf[s]])
  <2>1. world' = Admit(s)
    BY <1>2, <1>11
  <2>2. PICK o : o = Old(s)
    BY Zenon
  <2>3. /\ o \in Online(world) \cup {NoSession}
        /\ WorldInv(world')
        /\ Online(world') = (Online(world) \ {o}) \cup {s}
        /\ world'.alive = world.alive \ {o}
        /\ \A t \in Sessions : t # o => Alike(world'.sess[t], world.sess[t])
        /\ Flagged(world) => Flagged(world')
        /\ Full(world, limit) => Full(world', limit)
    BY <1>6, <1>9, <2>1, <2>2, AdmitKeeps
  <2>4. HandInv'
    <3>1. \A i \in DOMAIN q : q[i] \in world'.alive \ Online(world')
      <4>1. NoSession \notin world.alive
        BY <1>9, SessionAssumption DEF WorldInv, Worlds
      <4> QED BY <1>7, <2>3, <4>1
    <3>2. unborn' \subseteq Sessions \ world'.alive
      BY <1>2, <2>3 DEF Inv, HandInv
    <3> QED BY <1>4, <1>5, <1>8, <3>1, <3>2 DEF HandInv
  <2>5. CurInv'
    BY <1>2, <1>9 DEF Inv, CurInv
  <2>6. StopInv'
    <3>1. \A t \in Sessions : t # o =>
              /\ Kicked(world.sess[t]) => Kicked(world'.sess[t])
              /\ Unasked(world.sess[t]) => Unasked(world'.sess[t])
      BY <2>3 DEF Alike, Kicked, Unasked
    <3>2. s # o /\ Unasked(world.sess[s])
      BY <1>6, <1>9, <2>3, SessionAssumption DEF WorldInv, Off, Unasked
    <3>3. stopping => \A t \in Online(world') : Kicked(world'.sess[t]) \/ Unasked(world'.sess[t])
      BY <1>2, <1>6, <1>10, <2>3, <3>1, <3>2 DEF Inv, StopInv
    <3>4. NoSession \notin Online(world')
      BY SessionAssumption DEF Online
    <3> QED BY <1>2, <1>9, <3>3, <3>4 DEF Inv, StopInv
  <2>7. LimitInv'
    BY <1>2, <2>3, LimitSame DEF Inv
  <2> QED BY <1>2, <2>3, <2>4, <2>5, <2>6, <2>7 DEF Inv
<1>12. CASE ~RemoveSession(world.sessions[AccountOf[s]])
  <2>1. world' = Delete(KickPlayer(world, s), s)
    BY <1>2, <1>12
  <2>2. /\ WorldInv(world')
        /\ Online(world') = Online(world)
        /\ world'.queue = world.queue
        /\ world'.alive = world.alive \ {s}
        /\ \A t \in Sessions : t # s => world'.sess[t] = world.sess[t]
        /\ Flagged(world) => Flagged(world')
    BY <1>6, <1>9, <2>1, RefusedKeeps
  <2>3. HandInv'
    <3>1. \A i \in DOMAIN q : q[i] \in world'.alive \ Online(world')
      BY <1>7, <2>2
    <3>2. unborn' \subseteq Sessions \ world'.alive
      BY <1>2, <2>2 DEF Inv, HandInv
    <3> QED BY <1>4, <1>5, <1>8, <3>1, <3>2 DEF HandInv
  <2>4. CurInv'
    BY <1>2, <1>9 DEF Inv, CurInv
  <2>5. StopInv'
    BY <1>2, <1>6, <1>10, <2>2 DEF Inv, StopInv
  <2>6. LimitInv'
    <3>1. Full(world, limit) => Full(world', limit)
      BY <2>2 DEF Full, GetActiveSessionCount
    <3> QED BY <1>2, <3>1, LimitSame DEF Inv
  <2> QED BY <1>2, <2>2, <2>3, <2>4, <2>5, <2>6 DEF Inv
<1> QED BY <1>11, <1>12

\* The player limit.
LEMMA LimitStep ==
  ASSUME Inv, NEW n \in Limits \ {limit}, SetPlayerAmountLimit(n)
  PROVE  Inv'
<1>1. /\ world' = world /\ limit' = n /\ unborn' = unborn /\ addSessQueue' = addSessQueue
      /\ stopping' = stopping /\ phase' = phase /\ cur' = cur /\ todo' = todo
  BY DEF SetPlayerAmountLimit
<1>2. LimitInv'
  BY <1>1 DEF Inv, LimitInv
<1>3. HandInv' /\ CurInv'
  BY <1>1 DEF Inv, HandInv, CurInv
<1>4. StopInv'
  BY <1>1 DEF Inv, StopInv
<1> QED BY <1>1, <1>2, <1>3, <1>4 DEF Inv

\* World::KickAll.
LEMMA KickAllStep ==
  ASSUME Inv, KickAll
  PROVE  Inv'
<1>1. PICK g : g = [s \in Sessions |-> IF s \in Online(world) THEN KickPlayer(world, s).sess[s] ELSE world.sess[s]]
  BY Zenon
<1>2. world' = [world EXCEPT !.queue = <<>>, !.sess = g]
  BY <1>1, Zenon DEF KickAll
<1>3. world \in Worlds /\ WorldInv(world)
  BY DEF Inv, WorldInv
<1>4. \A s \in Sessions : /\ g[s] \in Fields
                          /\ g[s].inQueue = world.sess[s].inQueue
                          /\ g[s].player = world.sess[s].player
                          /\ g[s].chars = world.sess[s].chars
                          /\ s \in Online(world) => Kicked(g[s])
  <2>1. SUFFICES ASSUME NEW s \in Sessions
                 PROVE  /\ g[s] \in Fields
                        /\ g[s].inQueue = world.sess[s].inQueue
                        /\ g[s].player = world.sess[s].player
                        /\ g[s].chars = world.sess[s].chars
                        /\ s \in Online(world) => Kicked(g[s])
    BY Zenon
  <2>2. world.sess[s] \in Fields
    BY WaitsNone
  <2>3. PICK h : h = [world.sess[s] EXCEPT !.open = FALSE, !.forceExit = TRUE]
    BY Zenon
  <2>4. /\ h \in Fields
        /\ Kicked(h)
        /\ h.inQueue = world.sess[s].inQueue
        /\ h.player = world.sess[s].player
        /\ h.chars = world.sess[s].chars
    BY <2>2, <2>3, KickFields
  <2>5. KickPlayer(world, s).sess[s] = h
    <3>1. PICK k : k = SetField(world, s, h)
      BY Zenon
    <3>2. k = KickPlayer(world, s)
      BY <2>3, <3>1, Zenon DEF KickPlayer
    <3>3. k.sess[s] = h
      BY <1>3, <2>4, <3>1, SetFieldEffect
    <3> QED BY <3>2, <3>3
  <2>6. g[s] = IF s \in Online(world) THEN h ELSE world.sess[s]
    BY <1>1, <2>5
  <2> QED BY <2>2, <2>4, <2>6
<1>5. g \in [Sessions -> Fields]
  <2>1. DOMAIN g = Sessions /\ g = [s \in Sessions |-> g[s]]
    BY <1>1
  <2> QED BY <1>4, <2>1
<1>6. /\ world' \in Worlds
      /\ world'.sessions = world.sessions
      /\ world'.queue = <<>>
      /\ world'.alive = world.alive
      /\ world'.sess = g
  <2>1. PICK q : q = <<>>
    BY Zenon
  <2>2. q \in Seq(Sessions)
    BY <1>3, <2>1 DEF Worlds
  <2>3. world' = [world EXCEPT !.queue = q, !.sess = g]
    BY <1>2, <2>1, Zenon
  <2>4. /\ world' \in Worlds
        /\ world'.sessions = world.sessions
        /\ world'.queue = q
        /\ world'.alive = world.alive
        /\ world'.sess = g
    BY <1>3, <1>5, <2>2, <2>3 DEF Worlds
  <2> QED BY <2>1, <2>4
<1>7. Online(world') = Online(world)
  BY <1>6 DEF Online
<1>8. /\ phase = "idle" /\ phase' = "adding" /\ stopping' = TRUE /\ todo' = todo /\ cur' = cur
      /\ unborn' = unborn /\ addSessQueue' = addSessQueue /\ limit' = limit
  BY DEF KickAll
<1>9. Owned(world') /\ Online(world') \subseteq world'.alive
  BY <1>3, <1>6, <1>7 DEF WorldInv, Owned
<1>10. Off(world') /\ Waits(world')
  BY <1>3, <1>4, <1>6, <1>7 DEF WorldInv, Off, Waits
<1>11. Distinct(world'.queue) /\ Queued(world') /\ Shown(world')
  BY <1>6 DEF Distinct, Queued, Shown
<1>12. WorldInv(world')
  BY <1>6, <1>9, <1>10, <1>11 DEF WorldInv
<1>13. HandInv'
  BY <1>6, <1>7, <1>8 DEF Inv, HandInv
<1>14. CurInv'
  BY <1>7, <1>8 DEF Inv, CurInv
<1>15. StopInv'
  <2>1. todo' = {} /\ cur' = NoSession
    BY <1>8 DEF Inv, CurInv
  <2>2. NoSession \notin Online(world') /\ Online(world') \subseteq Sessions
    BY SessionAssumption DEF Online
  <2> QED BY <1>4, <1>6, <1>7, <1>8, <2>1, <2>2 DEF StopInv
<1>16. LimitInv'
  BY <1>6, <1>8 DEF Inv, LimitInv, Full
<1> QED BY <1>8, <1>12, <1>13, <1>14, <1>15, <1>16 DEF Inv

\* World::~World.
LEMMA DestroyStep ==
  ASSUME Inv, Destroy
  PROVE  Inv' /\ Online(world') = {} /\ world'.queue = <<>>
<1>1. PICK m, g : /\ m = [a \in Accounts |-> NoSession]
                  /\ g = [s \in Sessions |-> IF s \in Online(world) THEN Fresh ELSE world.sess[s]]
  BY Zenon
<1>2. world' = [world EXCEPT !.sessions = m, !.queue = <<>>, !.alive = world.alive \ Online(world), !.sess = g]
  BY <1>1, Zenon DEF Destroy
<1>3. world \in Worlds /\ WorldInv(world)
  BY DEF Inv, WorldInv
<1>4. \A s \in Sessions : /\ g[s] \in Fields
                          /\ g[s] = IF s \in Online(world) THEN Fresh ELSE world.sess[s]
  BY <1>1, <1>3, FreshFields DEF Worlds
<1>5. g \in [Sessions -> Fields]
  <2>1. DOMAIN g = Sessions /\ g = [s \in Sessions |-> g[s]]
    BY <1>1
  <2> QED BY <1>4, <2>1
<1>6. m \in [Accounts -> Sessions \cup {NoSession}] /\ \A a \in Accounts : m[a] = NoSession
  BY <1>1
<1>7. /\ world' \in Worlds
      /\ world'.sessions = m
      /\ world'.queue = <<>>
      /\ world'.alive = world.alive \ Online(world)
      /\ world'.sess = g
  <2>1. PICK q, a : q = <<>> /\ a = world.alive \ Online(world)
    BY Zenon
  <2>2. q \in Seq(Sessions) /\ a \in SUBSET Sessions
    BY <1>3, <2>1 DEF Worlds
  <2>3. world' = [world EXCEPT !.sessions = m, !.queue = q, !.alive = a, !.sess = g]
    BY <1>2, <2>1, Zenon
  <2>4. /\ world' \in Worlds
        /\ world'.sessions = m
        /\ world'.queue = q
        /\ world'.alive = a
        /\ world'.sess = g
    BY <1>3, <1>5, <1>6, <2>2, <2>3 DEF Worlds
  <2> QED BY <2>1, <2>4
<1>8. Online(world') = {}
  BY <1>6, <1>7, SessionAssumption DEF Online
<1>9. /\ phase = "stopped" /\ phase' = "gone" /\ stopping' = stopping /\ todo' = todo /\ cur' = cur
      /\ unborn' = unborn /\ addSessQueue' = addSessQueue /\ limit' = limit
  BY DEF Destroy
<1>10. \A s \in Sessions : /\ ~g[s].inQueue \/ g[s] = world.sess[s]
                           /\ s \in Online(world) \/ g[s] = world.sess[s]
  BY <1>4, FreshFields
<1>11. Off(world') /\ Waits(world')
  BY <1>3, <1>4, <1>7, <1>8, <1>10, FreshFields DEF WorldInv, Off, Waits
<1>12. Distinct(world'.queue) /\ Queued(world') /\ Shown(world') /\ Owned(world')
  BY <1>6, <1>7 DEF Distinct, Queued, Shown, Owned
<1>13. WorldInv(world')
  BY <1>7, <1>8, <1>11, <1>12 DEF WorldInv
<1>14. stopping'
  BY <1>9 DEF Inv, StopInv
<1>15. HandInv'
  BY <1>7, <1>8, <1>9 DEF Inv, HandInv
<1>16. CurInv'
  BY <1>8, <1>9 DEF Inv, CurInv
<1>17. StopInv'
  BY <1>8, <1>9 DEF Inv, StopInv
<1>18. LimitInv'
  BY <1>7, <1>9 DEF Inv, LimitInv, Full
<1> QED BY <1>7, <1>8, <1>13, <1>14, <1>15, <1>16, <1>17, <1>18 DEF Inv

\* Every step keeps the invariant.
LEMMA NextInv ==
  ASSUME Inv, [Next]_vars
  PROVE  Inv'
<1>1. CASE BeginUpdate \/ EndAdding \/ EndUpdate
  BY <1>1, PhaseStep
<1>2. CASE AddSession_
  BY <1>2, AddStep
<1>3. ASSUME NEW s \in Sessions, StartSession(s) \/ FinishSession(s) PROVE Inv'
  BY <1>3, StartStep, FinishStep
<1>4. CASE Destroy
  BY <1>4, DestroyStep
<1>5. ASSUME NEW s \in Sessions,
             \/ HandleCharEnumOpcode(s)
             \/ HandlePlayerLoginOpcode(s)
             \/ HandleLogoutRequestOpcode(s)
             \/ HandleLogoutCancelOpcode(s)
      PROVE  Inv'
  BY <1>5, PacketStep
<1>6. ASSUME NEW s \in Sessions, AddSession(s) \/ LoseSocket(s) \/ Kick(s) PROVE Inv'
  BY <1>6, ConnectStep, CloseStep
<1>7. ASSUME NEW n \in Limits \ {limit}, SetPlayerAmountLimit(n) PROVE Inv'
  BY <1>7, LimitStep
<1>8. CASE KickAll
  BY <1>8, KickAllStep
<1>9. CASE UNCHANGED vars
  BY <1>9 DEF vars, Inv, HandInv, CurInv, StopInv, LimitInv
<1> QED BY <1>1, <1>2, <1>3, <1>4, <1>5, <1>6, <1>7, <1>8, <1>9 DEF Next, WorldStep, Stopped

\* The inductive invariant holds.
THEOREM InvCorrect == Spec => []Inv
<1>1. Init => Inv
  BY InitInv
<1>2. Inv /\ [Next]_vars => Inv'
  BY NextInv
<1> QED BY <1>1, <1>2, PTL DEF Spec

\* m_QueuedPlayer holds live, online, flagged sessions, each once, and the flag is set for nobody else.
THEOREM QueueSoundCorrect == Spec => []QueueSound
<1>1. Inv => QueueSound
  <2>1. SUFFICES ASSUME Inv PROVE QueueSound
    OBVIOUS
  <2>2. /\ WorldInv(world)
        /\ world.queue \in Seq(Sessions)
        /\ Online(world) \subseteq world.alive
        /\ world.alive \subseteq Sessions
        /\ Distinct(world.queue)
        /\ Queued(world)
        /\ Waits(world)
    BY <2>1 DEF Inv, WorldInv, Worlds
  <2>3. ASSUME NEW k \in DOMAIN world.queue
        PROVE  /\ world.queue[k] \in world.alive \cap Online(world)
               /\ world.sess[world.queue[k]].inQueue
               /\ world.sess[world.queue[k]].player = "none"
    BY <2>2 DEF Queued, Waits
  <2>4. \A s \in world.alive : world.sess[s].inQueue /\ ~stopping => Listed(world.queue, s)
    BY <2>1, <2>2 DEF Inv, Flagged
  <2> QED BY <2>2, <2>3, <2>4 DEF QueueSound, Distinct
<1> QED BY <1>1, InvCorrect, PTL

\* An account has one session at most with a character in the world or on its way into it.
THEOREM OnePlayerCorrect == Spec => []OnePlayerPerAccount
<1>1. Inv => OnePlayerPerAccount
  <2>1. SUFFICES ASSUME Inv, NEW s \in world.alive, NEW t \in world.alive, AccountOf[s] = AccountOf[t],
                        PlayerLoading(world.sess[s]) \/ InWorld(world.sess[s]),
                        PlayerLoading(world.sess[t]) \/ InWorld(world.sess[t])
                 PROVE  s = t
    BY DEF OnePlayerPerAccount
  <2>2. world.alive \subseteq Sessions /\ Off(world)
    BY <2>1 DEF Inv, WorldInv, Worlds
  <2>3. world.sess[s].player # "none" /\ world.sess[t].player # "none"
    BY <2>1 DEF PlayerLoading, InWorld
  <2>4. s \in Online(world) /\ t \in Online(world)
    BY <2>2, <2>3 DEF Off
  <2> QED BY <2>1, <2>4, OnlineIs
<1> QED BY <1>1, InvCorrect, PTL

\* The position a waiting client was last told is its position in m_QueuedPlayer.
THEOREM PositionsCorrect == Spec => []PositionsShown
<1>1. Inv => PositionsShown
  BY DEF Inv, WorldInv, Shown, PositionsShown
<1> QED BY <1>1, InvCorrect, PTL

\* Under one limit nobody waits while there is room.
THEOREM NoIdleSlotCorrect == Spec => []NoIdleSlot
<1>1. Inv => NoIdleSlot
  BY DEF Inv, LimitInv, Full, NoIdleSlot
<1> QED BY <1>1, InvCorrect, PTL

\* Nobody is in the world when the network has stopped and the maps are unloaded.
THEOREM ShutdownCorrect == Spec => []ShutdownLeavesNoPlayer
<1>1. Inv => ShutdownLeavesNoPlayer
  <2>1. SUFFICES ASSUME Inv, phase \in {"stopped", "gone"}, NEW s \in world.alive PROVE ~InWorld(world.sess[s])
    BY DEF ShutdownLeavesNoPlayer
  <2>2. stopping /\ todo = {} /\ cur = NoSession
    BY <2>1 DEF Inv, CurInv, StopInv
  <2>3. s \in Sessions /\ Off(world)
    BY <2>1 DEF Inv, WorldInv, Worlds
  <2>4. CASE s \in Online(world)
    BY <2>1, <2>2, <2>3, <2>4, SessionAssumption DEF Inv, StopInv
  <2>5. CASE s \notin Online(world)
    BY <2>3, <2>5 DEF Off, InWorld
  <2> QED BY <2>4, <2>5
<1> QED BY <1>1, InvCorrect, PTL
-----------------------------------------------------------------------------
(* What a step may not do to those who wait. *)

\* Some leave the queue in its order, and one may come to its end.
LEMMA QueueOrder ==
  ASSUME NEW q \in Seq(Sessions), Distinct(q), NEW p \in Seq(Sessions), Distinct(p),
         NEW r \in Seq(Sessions), NEW o, NEW s \in Sessions, Sub(r, q), Fifo(r, q, o),
         p = r \/ (p = Append(r, s) /\ ~Listed(q, s))
  PROVE  /\ \A j, k \in DOMAIN q : j < k /\ Listed(p, q[j]) =>
                (Listed(p, q[k]) /\ QueuePos(p, q[j]) < QueuePos(p, q[k])) \/ q[k] = o
         /\ \A t \in Sessions : ~Listed(q, t) /\ Listed(p, t) => \A k \in DOMAIN p : ~(k > QueuePos(p, t))
<1>1. /\ \A i \in DOMAIN r : i \in DOMAIN p /\ p[i] = r[i]
      /\ \A i \in DOMAIN p : (i \in DOMAIN r /\ p[i] = r[i]) \/ (i = Len(p) /\ p[i] = s /\ ~Listed(q, s))
  <2>1. CASE p = r
    BY <2>1
  <2>2. CASE p = Append(r, s) /\ ~Listed(q, s)
    BY <2>2
  <2> QED BY <2>1, <2>2
<1>2. \A i \in DOMAIN r : Listed(q, r[i])
  BY DEF Sub, Listed
<1>3. \A i \in DOMAIN p : i \in Nat /\ i <= Len(p)
  OBVIOUS
<1>4. ASSUME NEW j \in DOMAIN q, NEW k \in DOMAIN q, j < k, Listed(p, q[j]), q[k] # o
      PROVE  Listed(p, q[k]) /\ QueuePos(p, q[j]) < QueuePos(p, q[k])
  <2>1. Listed(q, q[j])
    BY DEF Listed
  <2>2. PICK a \in DOMAIN r : r[a] = q[j]
    BY <1>1, <1>4, <2>1 DEF Listed
  <2>3. PICK b \in DOMAIN r : r[b] = q[k]
    BY <1>4, <2>2 DEF Fifo, Listed
  <2>4. a < b
    BY <1>4, <2>2, <2>3, SubOrder
  <2>5. a \in DOMAIN p /\ p[a] = q[j] /\ b \in DOMAIN p /\ p[b] = q[k]
    BY <1>1, <2>2, <2>3
  <2>6. QueuePos(p, q[j]) = a /\ QueuePos(p, q[k]) = b
    BY <2>5, PosFacts
  <2> QED BY <2>4, <2>5, <2>6 DEF Listed
<1>5. ASSUME NEW t \in Sessions, ~Listed(q, t), Listed(p, t), NEW k \in DOMAIN p PROVE ~(k > QueuePos(p, t))
  <2>1. PICK i \in DOMAIN p : p[i] = t
    BY <1>5 DEF Listed
  <2>2. i = Len(p)
    BY <1>1, <1>2, <1>5, <2>1
  <2>3. QueuePos(p, t) = i
    BY <2>1, PosFacts
  <2> QED BY <1>3, <2>2, <2>3
<1> QED BY <1>4, <1>5

\* A step seen from the queue.
LEMMA OrderStep ==
  ASSUME WorldInv(world), WorldInv(world'), NEW r \in Seq(Sessions), NEW o, NEW s \in Sessions,
         Sub(r, world.queue), Fifo(r, world.queue, o), o \notin Online(world'),
         world'.queue = r \/ (world'.queue = Append(r, s) /\ s \notin Online(world))
  PROVE  KeepsOrder /\ NewcomersLast
<1>1. PICK q, p : q = world.queue /\ p = world'.queue
  BY Zenon
<1>2. q \in Seq(Sessions) /\ Distinct(q) /\ p \in Seq(Sessions) /\ Distinct(p)
  BY <1>1 DEF WorldInv, Worlds
<1>3. s \notin Online(world) => ~Listed(q, s)
  BY <1>1 DEF WorldInv, Queued, Listed
<1>4. p = r \/ (p = Append(r, s) /\ ~Listed(q, s))
  BY <1>1, <1>3
<1>5. Sub(r, q) /\ Fifo(r, q, o)
  BY <1>1
<1>6. /\ \A j, k \in DOMAIN q : j < k /\ Listed(p, q[j]) =>
             (Listed(p, q[k]) /\ QueuePos(p, q[j]) < QueuePos(p, q[k])) \/ q[k] = o
      /\ \A t \in Sessions : ~Listed(q, t) /\ Listed(p, t) => \A k \in DOMAIN p : ~(k > QueuePos(p, t))
  BY <1>2, <1>4, <1>5, QueueOrder
<1>7. KeepsOrder
  BY <1>1, <1>6 DEF KeepsOrder
<1>8. NewcomersLast
  BY <1>1, <1>6 DEF NewcomersLast
<1> QED BY <1>7, <1>8

\* Those let in, or all in the world, are within the limit.
LEMMA WithinStep ==
  ASSUME WorldInv(world'), limit \in Nat, NEW T, LetPast \subseteq Active(world'),
         Within(T), T \in SUBSET Active(world'), Active(world') \ LetPast \subseteq T
  PROVE  AdmitsWithinLimit
<1>1. IsFiniteSet(Active(world'))
  BY ActiveCount
<1>2. IsFiniteSet(T)
  BY <1>1, FS_Subset
<1>3. PICK S : S = Active(world') \ LetPast
  BY Zenon
<1>4. S \in SUBSET T
  BY <1>3
<1>5. IsFiniteSet(S) /\ Cardinality(S) <= Cardinality(T) /\ Cardinality(S) \in Nat /\ Cardinality(T) \in Nat
  BY <1>2, <1>4, FS_Subset, FS_CardinalityType
<1>6. limit = 0 \/ Cardinality(S) <= limit
  BY <1>5 DEF Within
<1> QED BY <1>3, <1>6 DEF AdmitsWithinLimit

\* Nobody enters.
LEMMA NobodyEnters ==
  ASSUME Active(world') \subseteq Active(world)
  PROVE  AdmitsWithinLimit
  BY DEF AdmitsWithinLimit, LetPast

\* What SetField leaves alone.
LEMMA SetFieldQueue ==
  ASSUME NEW w \in Worlds, NEW s, NEW f
  PROVE  SetField(w, s, f).queue = w.queue /\ SetField(w, s, f).sessions = w.sessions
  BY DEF SetField, Worlds

ServedInOrder == KeepsOrder /\ NewcomersLast /\ NobodyPasses

\* The steps that leave the queue and m_sessions alone.
LEMMA QuietStep ==
  ASSUME Inv, Inv', world'.queue = world.queue, world'.sessions = world.sessions
  PROVE  ServedInOrder /\ AdmitsWithinLimit
<1>1. Online(world') = Online(world)
  BY DEF Online
<1>2. Active(world') = Active(world)
  BY <1>1 DEF Active
<1>3. WorldInv(world) /\ WorldInv(world') /\ world.queue \in Seq(Sessions)
  BY DEF Inv, WorldInv, Worlds
<1>4. Sub(world.queue, world.queue) /\ Fifo(world.queue, world.queue, NoSession)
  BY DEF Sub, Fifo, Listed
<1>5. KeepsOrder /\ NewcomersLast
  <2>1. CASE world.queue = <<>>
    BY <2>1 DEF KeepsOrder, NewcomersLast, Listed
  <2>2. CASE world.queue # <<>>
    <3>1. world.queue[1] \in Sessions
      BY <1>3, <2>2
    <3>2. NoSession \notin Online(world')
      BY SessionAssumption DEF Online
    <3> QED BY <1>3, <1>4, <3>1, <3>2, OrderStep
  <2> QED BY <2>1, <2>2
<1>6. NobodyPasses
  BY <1>1 DEF NobodyPasses, Active
<1>7. AdmitsWithinLimit
  BY <1>2, NobodyEnters
<1> QED BY <1>5, <1>6, <1>7 DEF ServedInOrder

\* The queue is given up at the shutdown.
LEMMA ShutStep ==
  ASSUME Inv, Inv', KickAll \/ Destroy, world'.queue = <<>>, Online(world') \subseteq Online(world)
  PROVE  ServedInOrder /\ AdmitsWithinLimit
<1>1. KeepsOrder /\ NewcomersLast
  BY DEF KeepsOrder, NewcomersLast, Listed
<1>2. NobodyPasses
  BY DEF NobodyPasses
<1>3. stopping'
  <2>1. CASE KickAll
    BY <2>1 DEF KickAll
  <2>2. CASE Destroy
    BY <2>2 DEF Destroy, Inv, StopInv
  <2> QED BY <2>1, <2>2
<1> QED BY <1>1, <1>2, <1>3 DEF ServedInOrder, AdmitsWithinLimit

\* A session that leaves: the next in the queue come in, in their order.
LEMMA FinishOrder ==
  ASSUME Inv, Inv', NEW s \in Sessions, FinishSession(s)
  PROVE  ServedInOrder /\ AdmitsWithinLimit
<1>1. cur = s /\ s \in Online(world)
  BY SessionAssumption DEF FinishSession, Inv, CurInv
<1>2. PICK f, g, w :
        /\ Settles(world.sess[s], f)
        /\ g \in Fields
        /\ g.inQueue = f.inQueue /\ g.pos = f.pos /\ g.player = f.player
        /\ w = SetField(world, s, g)
        /\ \/ world' = w /\ ~Kicked(f)
           \/ \E u, x : /\ u = RemoveQueuedPlayer(w, s)
                        /\ x = RemoveQueuedPlayer(u, s)
                        /\ world' = Replaced(x, s, NoSession)
  BY FinishParts
<1>3. world \in Worlds /\ WorldInv(world) /\ WorldInv(world') /\ limit \in Nat
  BY LimitIsNat DEF Inv, WorldInv
<1>4. ASSUME world' = w PROVE ServedInOrder /\ AdmitsWithinLimit
  <2>1. world'.queue = world.queue /\ world'.sessions = world.sessions
    BY <1>2, <1>3, <1>4, SetFieldQueue
  <2> QED BY <2>1, QuietStep
<1>5. ASSUME NEW u, NEW x, u = RemoveQueuedPlayer(w, s), x = RemoveQueuedPlayer(u, s),
             world' = Replaced(x, s, NoSession)
      PROVE  ServedInOrder /\ AdmitsWithinLimit
  <2>1. world.sess[s].inQueue => world.sess[s].player = "none"
    BY WaitsNone
  <2>2. /\ g.inQueue = world.sess[s].inQueue
        /\ g.pos = world.sess[s].pos
        /\ g.inQueue => g.player = "none"
    BY <1>2, <2>1 DEF Settles
  <2>3. WorldInv(w) /\ Online(w) = Online(world) /\ w.queue = world.queue
    BY <1>1, <1>2, <1>3, <2>2, SetFieldKeeps
  <2>4. s \in Online(w)
    BY <1>1, <2>3
  <2>5. /\ Online(world') = Online(w) \ {s}
        /\ world'.queue \in Seq(Sessions)
        /\ Sub(world'.queue, w.queue)
        /\ Fifo(world'.queue, w.queue, s)
        /\ Active(world') \subseteq Active(w) \/ Within(Active(world'))
    BY <1>3, <1>5, <2>3, <2>4, LeaveKeeps
  <2>6. Active(w) = Active(world)
    BY <2>3 DEF Active
  <2>7. KeepsOrder /\ NewcomersLast
    BY <1>3, <2>3, <2>5, OrderStep
  <2>8. NobodyPasses
    BY <2>3, <2>5 DEF NobodyPasses, Active
  <2>9. LetPast \subseteq Active(world')
    BY DEF LetPast
  <2>10. AdmitsWithinLimit
    <3>1. CASE Active(world') \subseteq Active(world)
      BY <3>1, NobodyEnters
    <3>2. CASE Within(Active(world'))
      <4>1. Active(world') \ LetPast \subseteq Active(world')
        OBVIOUS
      <4> QED BY <1>3, <2>9, <3>2, <4>1, WithinStep
    <3> QED BY <2>5, <2>6, <3>1, <3>2
  <2> QED BY <2>7, <2>8, <2>10 DEF ServedInOrder
<1> QED BY <1>2, <1>4, <1>5

\* A session that connects.
LEMMA AddOrder ==
  ASSUME Inv, Inv', AddSession_
  PROVE  ServedInOrder /\ AdmitsWithinLimit
<1>1. PICK s : s = Head(addSessQueue)
  BY Zenon
<1>2. /\ addSessQueue # <<>>
      /\ world' = IF RemoveSession(world.sessions[AccountOf[s]]) THEN Admit(s) ELSE Delete(KickPlayer(world, s), s)
  BY <1>1 DEF AddSession_
<1>3. addSessQueue \in Seq(Sessions) /\ \A k \in DOMAIN addSessQueue : addSessQueue[k] \in world.alive \ Online(world)
  BY DEF Inv, HandInv
<1>4. s \in Sessions /\ s \in world.alive \ Online(world)
  BY <1>1, <1>2, <1>3
<1>5. WorldInv(world) /\ WorldInv(world') /\ limit \in Nat
  BY LimitIsNat DEF Inv
<1>6. CASE RemoveSession(world.sessions[AccountOf[s]])
  <2>1. world' = Admit(s)
    BY <1>2, <1>6
  <2>2. PICK o : o = Old(s)
    BY Zenon
  <2>3. /\ o \in Online(world) \cup {NoSession}
        /\ Online(world') = (Online(world) \ {o}) \cup {s}
        /\ Joined(world.queue, world'.queue, o, s)
        /\ Full(world, limit) /\ s \in Active(world') => Exempt(AccountOf[s]) \/ world'.queue = <<>>
        /\ Active(world') \ {s} \subseteq Active(world) \/ Within(Active(world') \ {s})
        /\ s \in Active(world') => Exempt(AccountOf[s]) \/ Within(Active(world'))
    BY <1>4, <1>5, <2>1, <2>2, AdmitKeeps
  <2>4. o \notin Online(world')
    <3>1. o # s
      BY <1>4, <2>3, SessionAssumption
    <3>2. NoSession \notin Online(world')
      BY SessionAssumption DEF Online
    <3> QED BY <2>3, <3>1, <3>2
  <2>5. KeepsOrder /\ NewcomersLast
    <3>1. PICK r \in Seq(Sessions) : /\ Sub(r, world.queue)
                                     /\ Fifo(r, world.queue, o)
                                     /\ world'.queue = r \/ world'.queue = Append(r, s)
      BY <2>3 DEF Joined
    <3> QED BY <1>4, <1>5, <2>4, <3>1, OrderStep
  <2>6. NobodyPasses
    <3>1. SUFFICES ASSUME Limits = {limit}, NEW t \in Active(world') \ Online(world)
                   PROVE  Exempt(AccountOf[t]) \/ world'.queue = <<>>
      BY DEF NobodyPasses
    <3>2. t = s
      BY <2>3, <3>1 DEF Active
    <3>3. Full(world, limit)
      BY <3>1 DEF Inv, LimitInv
    <3> QED BY <2>3, <3>1, <3>2, <3>3
  <2>7. LetPast \subseteq Active(world') \ Active(world)
    BY DEF LetPast
  <2>8. AdmitsWithinLimit
    <3>1. CASE s \in Active(world') /\ ~Exempt(AccountOf[s])
      <4>1. Within(Active(world'))
        BY <2>3, <3>1
      <4> QED BY <1>5, <2>7, <4>1, WithinStep
    <3>2. CASE s \notin Active(world')
      <4>1. Active(world') \ {s} = Active(world')
        BY <3>2
      <4>2. CASE Active(world') \subseteq Active(world)
        BY <4>2, NobodyEnters
      <4>3. CASE Within(Active(world'))
        BY <1>5, <2>7, <4>3, WithinStep
      <4> QED BY <2>3, <4>1, <4>2, <4>3
    <3>3. CASE s \in Active(world') /\ Exempt(AccountOf[s])
      <4>1. s \in LetPast
        BY <1>4, <3>3 DEF LetPast, Active
      <4>2. CASE Active(world') \ {s} \subseteq Active(world)
        <5>1. Active(world') \ Active(world) = LetPast
          BY <2>7, <4>1, <4>2
        <5> QED BY <5>1 DEF AdmitsWithinLimit
      <4>3. CASE Within(Active(world') \ {s})
        <5>1. PICK T : T = Active(world') \ {s}
          BY Zenon
        <5>2. Within(T) /\ T \in SUBSET Active(world') /\ Active(world') \ LetPast \subseteq T
          BY <4>1, <4>3, <5>1
        <5>3. LetPast \subseteq Active(world')
          BY <2>7
        <5> QED BY <1>5, <5>2, <5>3, WithinStep
      <4> QED BY <2>3, <4>2, <4>3
    <3> QED BY <3>1, <3>2, <3>3
  <2> QED BY <2>5, <2>6, <2>8 DEF ServedInOrder
<1>7. CASE ~RemoveSession(world.sessions[AccountOf[s]])
  <2>1. PICK k : k = KickPlayer(world, s)
    BY Zenon
  <2>2. WorldInv(k) /\ k.queue = world.queue /\ k.sessions = world.sessions
    BY <1>4, <1>5, <2>1, KickKeeps
  <2>3. world' = Delete(k, s)
    BY <1>2, <1>7, <2>1
  <2>4. k \in Worlds
    BY <2>2 DEF WorldInv
  <2>5. world'.queue = k.queue /\ world'.sessions = k.sessions
    BY <2>3, <2>4 DEF Delete, Worlds
  <2> QED BY <2>2, <2>5, QuietStep
<1> QED BY <1>6, <1>7

\* Every step.
LEMMA NextOrder ==
  ASSUME Inv, Inv', [Next]_vars
  PROVE  ServedInOrder /\ AdmitsWithinLimit
<1>1. world \in Worlds
  BY DEF Inv, WorldInv
<1>2. ASSUME NEW s \in Sessions, NEW f, world' = SetField(world, s, f) PROVE ServedInOrder /\ AdmitsWithinLimit
  BY <1>1, <1>2, SetFieldQueue, QuietStep
<1>3. CASE world' = world
  BY <1>3, QuietStep
<1>4. CASE BeginUpdate \/ EndAdding \/ EndUpdate
  BY <1>3, <1>4 DEF BeginUpdate, EndAdding, EndUpdate
<1>5. CASE AddSession_
  BY <1>5, AddOrder
<1>6. ASSUME NEW s \in Sessions, FinishSession(s) PROVE ServedInOrder /\ AdmitsWithinLimit
  BY <1>6, FinishOrder
<1>7. ASSUME NEW s \in Sessions, StartSession(s) PROVE ServedInOrder /\ AdmitsWithinLimit
  BY <1>2, <1>7 DEF StartSession
<1>8. CASE Destroy
  <2>1. Online(world') = {} /\ world'.queue = <<>>
    BY <1>8, DestroyStep
  <2>2. Online(world') \subseteq Online(world)
    BY <2>1
  <2> QED BY <1>8, <2>1, <2>2, ShutStep
<1>9. ASSUME NEW s \in Sessions,
             \/ HandleCharEnumOpcode(s)
             \/ HandlePlayerLoginOpcode(s)
             \/ HandleLogoutRequestOpcode(s)
             \/ HandleLogoutCancelOpcode(s)
      PROVE  ServedInOrder /\ AdmitsWithinLimit
  <2>1. \E f : Handled(s, f)
    BY <1>9, Zenon DEF HandleCharEnumOpcode, HandlePlayerLoginOpcode, HandleLogoutRequestOpcode, HandleLogoutCancelOpcode
  <2> QED BY <1>2, <2>1 DEF Handled
<1>10. ASSUME NEW s \in Sessions, LoseSocket(s) \/ Kick(s) PROVE ServedInOrder /\ AdmitsWithinLimit
  <2>1. \E f : world' = SetField(world, s, f)
    BY <1>10, Zenon DEF LoseSocket, Kick, KickPlayer
  <2> QED BY <1>2, <2>1
<1>11. ASSUME NEW s \in Sessions, AddSession(s) PROVE ServedInOrder /\ AdmitsWithinLimit
  <2>1. world' = [world EXCEPT !.alive = world.alive \cup {s}]
    BY <1>11 DEF AddSession
  <2>2. world'.queue = world.queue /\ world'.sessions = world.sessions
    BY <1>1, <2>1 DEF Worlds
  <2> QED BY <2>2, QuietStep
<1>12. ASSUME NEW n \in Limits \ {limit}, SetPlayerAmountLimit(n) PROVE ServedInOrder /\ AdmitsWithinLimit
  BY <1>3, <1>12 DEF SetPlayerAmountLimit
<1>13. CASE KickAll
  <2>1. PICK g : world' = [world EXCEPT !.queue = <<>>, !.sess = g]
    BY <1>13, Zenon DEF KickAll
  <2>2. world'.queue = <<>> /\ world'.sessions = world.sessions
    BY <1>1, <2>1 DEF Worlds
  <2>3. Online(world') = Online(world)
    BY <2>2 DEF Online
  <2> QED BY <1>13, <2>2, <2>3, ShutStep
<1>14. CASE UNCHANGED vars
  BY <1>3, <1>14 DEF vars
<1> QED BY <1>4, <1>5, <1>6, <1>7, <1>8, <1>9, <1>10, <1>11, <1>12, <1>13, <1>14 DEF Next, WorldStep, Stopped

\* First come, first served, under every limit and with any number of accounts that reconnect.
THEOREM FirstComeCorrect == Spec => FirstComeFirstServed
<1>1. Inv /\ Inv' /\ [Next]_vars => KeepsOrder /\ NewcomersLast /\ NobodyPasses
  BY NextOrder DEF ServedInOrder
<1> QED BY <1>1, InvCorrect, PTL DEF Spec, FirstComeFirstServed

\* A step lets no more sessions in than the limit allows, those of exempt accounts apart.
THEOREM AdmissionCorrect == Spec => AdmissionRespectsLimit
<1>1. Inv /\ Inv' /\ [Next]_vars => AdmitsWithinLimit
  BY NextOrder
<1> QED BY <1>1, InvCorrect, PTL DEF Spec, AdmissionRespectsLimit
=====
