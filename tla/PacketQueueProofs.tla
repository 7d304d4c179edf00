------------------------- MODULE PacketQueueProofs --------------------------
(***************************************************************************)
(* The packets of a session are neither used after their deletion nor      *)
(* queued twice, and those that are never put back keep their order, for   *)
(* every set of packets, opcode table and throttling limits.               *)
(***************************************************************************)
EXTENDS PacketQueue, TLAPS

\* The types that the queue needs.
QueueTypes ==
    /\ unsent \subseteq Packets
    /\ recvQueue \in Seq(Packets)
    /\ heap \subseteq Packets
    /\ packet \in Packets \cup {NoPacket}
    /\ deletePacket \in BOOLEAN

\* A packet is allocated when the client sends it, and sent once.
UnsentInv == unsent \cap heap = {}

(***************************************************************************)
(* The packet of this turn is out of the queue until Requeue, and the loop *)
(* deletes it in the end only if it has not been put back.                 *)
(***************************************************************************)
TurnInv ==
    /\ pc \in {"dispatch", "requeue"} => packet \in heap \ Range(recvQueue)
    /\ pc = "requeue" => ~deletePacket
    /\ pc = "done" /\ deletePacket => packet \notin unsent \cup Range(recvQueue)

IInv == QueueTypes /\ QueueAlive /\ UnsentInv /\ TurnInv

-----------------------------------------------------------------------------
(* Queues without repetitions. *)

Distinct(q) == \A j, k \in DOMAIN q : q[j] = q[k] => j = k

\* QueuePacket puts a packet at the back.
LEMMA AppendRange ==
  ASSUME NEW q \in Seq(Packets), NEW p \in Packets
  PROVE  /\ Append(q, p) \in Seq(Packets)
         /\ Range(Append(q, p)) = Range(q) \cup {p}
         /\ Distinct(q) /\ p \notin Range(q) => Distinct(Append(q, p))
<1>1. /\ Append(q, p) \in Seq(Packets)
      /\ DOMAIN q = 1..Len(q) /\ Len(q) \in Nat
      /\ DOMAIN Append(q, p) = 1..Len(q) + 1
      /\ \A k \in 1..Len(q) : Append(q, p)[k] = q[k]
      /\ Append(q, p)[Len(q) + 1] = p
  OBVIOUS
<1>2. \A k \in 1..Len(q) + 1 : k \in 1..Len(q) \/ k = Len(q) + 1
  BY <1>1
<1>3. Range(Append(q, p)) = Range(q) \cup {p}
  BY <1>1, <1>2 DEF Range
<1>4. ASSUME Distinct(q), p \notin Range(q) PROVE Distinct(Append(q, p))
  BY <1>1, <1>2, <1>4 DEF Range, Distinct
<1> QED
  BY <1>1, <1>3, <1>4

\* The queue without its first packet: the others move up by one place.
LEMMA WithoutFirst ==
  ASSUME NEW q \in Seq(Packets), q # <<>>
  PROVE  /\ Without(q, 1) \in Seq(Packets)
         /\ DOMAIN q = 1..Len(q) /\ Len(q) \in Nat \ {0}
         /\ DOMAIN Without(q, 1) = 1..Len(q) - 1
         /\ \A k \in 1..Len(q) - 1 : Without(q, 1)[k] = q[k + 1]
         /\ \A k \in 1..Len(q) : k = 1 \/ (k - 1 \in 1..Len(q) - 1 /\ Without(q, 1)[k - 1] = q[k])
<1>1. DOMAIN q = 1..Len(q) /\ Len(q) \in Nat \ {0} /\ Len(q) - 1 \in Nat
  OBVIOUS
<1>2. /\ DOMAIN Without(q, 1) = 1..Len(q) - 1
      /\ \A k \in 1..Len(q) - 1 : Without(q, 1)[k] = q[k + 1]
  BY <1>1 DEF Without
<1>3. \A k \in 1..Len(q) : k = 1 \/ (k - 1 \in 1..Len(q) - 1 /\ (k - 1) + 1 = k)
  BY <1>1
<1>4. \A k \in 1..Len(q) : k = 1 \/ (k - 1 \in 1..Len(q) - 1 /\ Without(q, 1)[k - 1] = q[k])
  BY <1>2, <1>3
<1>5. \A k \in 1..Len(q) - 1 : k + 1 \in 1..Len(q)
  BY <1>1
<1>6. Without(q, 1) \in Seq(Packets)
  BY <1>1, <1>5 DEF Without
<1> QED
  BY <1>1, <1>2, <1>4, <1>6

\* What LockedQueue::next takes out is no longer in the queue.
LEMMA WithoutRange ==
  ASSUME NEW q \in Seq(Packets), q # <<>>, Distinct(q)
  PROVE  /\ Range(Without(q, 1)) = Range(q) \ {q[1]}
         /\ q[1] \in Range(q)
         /\ Distinct(Without(q, 1))
<1> DEFINE r == Without(q, 1)
<1>1. /\ DOMAIN q = 1..Len(q) /\ Len(q) \in Nat \ {0}
      /\ DOMAIN r = 1..Len(q) - 1
      /\ \A k \in 1..Len(q) - 1 : r[k] = q[k + 1]
      /\ \A k \in 1..Len(q) : k = 1 \/ (k - 1 \in 1..Len(q) - 1 /\ r[k - 1] = q[k])
  BY WithoutFirst
<1> HIDE DEF r
<1>2. \A k \in 1..Len(q) - 1 : k + 1 \in 1..Len(q) /\ k + 1 # 1
  BY <1>1
<1>3. 1 \in DOMAIN q
  BY <1>1
<1>4. \A k \in DOMAIN r : r[k] \in Range(q) \ {q[1]}
  BY <1>1, <1>2, <1>3 DEF Range, Distinct
<1>5. \A k \in DOMAIN q : q[k] # q[1] => q[k] \in Range(r)
  BY <1>1 DEF Range
<1>6. Range(r) = Range(q) \ {q[1]}
  BY <1>4, <1>5 DEF Range
<1>7. Distinct(r)
  <2> SUFFICES ASSUME NEW j \in 1..Len(q) - 1, NEW k \in 1..Len(q) - 1, r[j] = r[k] PROVE j = k
    BY <1>1 DEF Distinct
  <2>1. q[j + 1] = q[k + 1] /\ j + 1 \in DOMAIN q /\ k + 1 \in DOMAIN q
    BY <1>1, <1>2
  <2>2. j + 1 = k + 1
    BY <2>1 DEF Distinct
  <2> QED
    BY <2>2
<1> QED
  BY <1>3, <1>6, <1>7 DEF Range, r

-----------------------------------------------------------------------------
\* A handler, or nothing, leaves the packet to the end of the turn; a packet that is too early is not deleted.
LEMMA DispatchEffect ==
  ASSUME Dispatch, packet \in Packets
  PROVE  /\ UNCHANGED <<unsent, recvQueue, heap, packet>>
         /\ pc = "dispatch"
         /\ \/ pc' = "done" /\ deletePacket' = deletePacket
            \/ pc' = "requeue" /\ deletePacket' = FALSE
<1>1. /\ pc = "dispatch"
      /\ \/ DispatchLoggedIn \/ DispatchRecently \/ DispatchTransfer \/ DispatchAuthed \/ Ignore
  <2>1. Status[OpcodeOf[packet]] \in StatusSet
    BY PacketAssumption
  <2> QED
    BY <2>1 DEF Dispatch, StatusSet
<1>2. Delay \/ Ignore \/ \E p, r : Handle(p, r)
  BY <1>1 DEF DispatchLoggedIn, DispatchRecently, DispatchTransfer, DispatchAuthed
<1> QED
  BY <1>1, <1>2 DEF Delay, Ignore, Handle, KeepDelayed, netVars

\* The initial states satisfy the invariant.
LEMMA InitIInv == Init => IInv
  BY DEF Init, IInv, QueueTypes, QueueAlive, UnsentInv, TurnInv, Range

\* QueuePacket keeps the queue sound for a packet that is not in it.
LEMMA QueuePacketSound ==
  ASSUME QueueTypes, QueueAlive, NEW p \in Packets, NEW n, p \notin Range(recvQueue), QueuePacket(p, n)
  PROVE  /\ recvQueue' \in Seq(Packets)
         /\ heap' \subseteq Packets
         /\ heap' \ {p} = heap \ {p}
         /\ Range(recvQueue') \subseteq heap'
         /\ Range(recvQueue') \subseteq Range(recvQueue) \cup {p}
         /\ Distinct(recvQueue')
<1>1. Distinct(recvQueue) /\ Range(recvQueue) \subseteq heap
  BY DEF QueueAlive, Distinct
<1>2. CASE recvQueue' = recvQueue /\ heap' = heap \ {p}
  BY <1>1, <1>2 DEF QueueTypes
<1>3. CASE recvQueue' = Append(recvQueue, p) /\ heap' = heap \cup {p}
  <2>1. /\ Append(recvQueue, p) \in Seq(Packets)
        /\ Range(Append(recvQueue, p)) = Range(recvQueue) \cup {p}
        /\ Distinct(Append(recvQueue, p))
    BY <1>1, AppendRange DEF QueueTypes
  <2> QED
    BY <1>1, <1>3, <2>1 DEF QueueTypes
<1> QED
  BY <1>2, <1>3 DEF QueuePacket

\* Every step keeps the invariant.
LEMMA NextIInv == IInv /\ [Next]_vars => IInv'
<1> SUFFICES ASSUME IInv, [Next]_vars PROVE IInv'
  OBVIOUS
<1>0. Distinct(recvQueue)
  BY DEF IInv, QueueAlive, Distinct
<1>1. CASE \E p \in Packets : Receive(p)
  <2> PICK p \in Packets : Receive(p)
    BY <1>1
  <2>1. /\ p \in unsent /\ unsent' = unsent \ {p} /\ QueuePacket(p, count[OpcodeOf[p]])
        /\ UNCHANGED <<pc, packet, deletePacket>>
    BY DEF Receive, loopVars
  <2>2. p \notin heap /\ p \notin Range(recvQueue)
    BY <2>1 DEF IInv, UnsentInv, QueueAlive
  <2>3. /\ recvQueue' \in Seq(Packets) /\ heap' \subseteq Packets /\ heap' \ {p} = heap \ {p}
        /\ Range(recvQueue') \subseteq heap' /\ Range(recvQueue') \subseteq Range(recvQueue) \cup {p}
        /\ Distinct(recvQueue')
    BY <2>1, <2>2, QueuePacketSound DEF IInv
  <2>4. QueueTypes' /\ UnsentInv'
    BY <2>1, <2>2, <2>3 DEF IInv, QueueTypes, UnsentInv
  <2>5. pc = "done" /\ deletePacket => packet # p
    BY <2>1 DEF IInv, TurnInv
  <2>6. pc \in {"dispatch", "requeue"} => packet \in heap' \ Range(recvQueue')
    BY <2>2, <2>3 DEF IInv, TurnInv
  <2>7. TurnInv'
    BY <2>1, <2>3, <2>5, <2>6 DEF IInv, TurnInv
  <2>8. QueueAlive'
    BY <2>1, <2>3, <2>6 DEF QueueAlive, Distinct
  <2> QED
    BY <2>4, <2>7, <2>8 DEF IInv
<1>2. CASE NextPacket
  <2>1. /\ recvQueue # <<>> /\ packet' = recvQueue[1] /\ recvQueue' = Without(recvQueue, 1)
        /\ pc' = "dispatch" /\ UNCHANGED <<unsent, heap, deletePacket>>
    BY <1>2 DEF NextPacket, Continues, Candidates, netVars
  <2>2. /\ Range(recvQueue') = Range(recvQueue) \ {packet'} /\ packet' \in Range(recvQueue)
        /\ Distinct(recvQueue') /\ recvQueue' \in Seq(Packets)
    BY <1>0, <2>1, WithoutRange, WithoutFirst DEF IInv, QueueTypes
  <2>3. packet' \in heap /\ packet' \in Packets
    BY <2>2 DEF IInv, QueueAlive, QueueTypes
  <2>4. QueueTypes' /\ UnsentInv' /\ TurnInv'
    BY <2>1, <2>2, <2>3 DEF IInv, QueueTypes, UnsentInv, TurnInv
  <2>5. QueueAlive'
    BY <2>1, <2>2, <2>3 DEF IInv, QueueAlive, Distinct
  <2> QED
    BY <2>4, <2>5 DEF IInv
<1>3. CASE Dispatch
  <2>0. packet \in Packets
    BY <1>3 DEF Dispatch, IInv, TurnInv, QueueTypes
  <2>1. /\ UNCHANGED <<unsent, recvQueue, heap, packet>> /\ pc = "dispatch"
        /\ \/ pc' = "done" /\ deletePacket' = deletePacket
           \/ pc' = "requeue" /\ deletePacket' = FALSE
    BY <1>3, <2>0, DispatchEffect
  <2>2. deletePacket' \in BOOLEAN
    BY <2>1 DEF IInv, QueueTypes
  <2>3. QueueTypes' /\ UnsentInv' /\ QueueAlive'
    BY <2>1, <2>2 DEF IInv, QueueTypes, UnsentInv, QueueAlive
  <2>4. TurnInv'
    BY <2>1 DEF IInv, TurnInv, UnsentInv
  <2> QED
    BY <2>3, <2>4 DEF IInv
<1>4. CASE Requeue
  <2>1. /\ pc = "requeue" /\ pc' = "done" /\ QueuePacket(packet, seen)
        /\ UNCHANGED <<unsent, packet, deletePacket>>
    BY <1>4 DEF Requeue, netVars
  <2>2. packet \in Packets /\ packet \in heap /\ packet \notin Range(recvQueue) /\ ~deletePacket
    BY <2>1 DEF IInv, TurnInv, QueueTypes
  <2>3. /\ recvQueue' \in Seq(Packets) /\ heap' \subseteq Packets /\ heap' \ {packet} = heap \ {packet}
        /\ Range(recvQueue') \subseteq heap' /\ Distinct(recvQueue')
    BY <2>1, <2>2, QueuePacketSound DEF IInv
  <2>4. QueueTypes' /\ UnsentInv' /\ TurnInv'
    BY <2>1, <2>2, <2>3 DEF IInv, QueueTypes, UnsentInv, TurnInv
  <2>5. QueueAlive'
    BY <2>1, <2>3 DEF QueueAlive, Distinct
  <2> QED
    BY <2>4, <2>5 DEF IInv
<1>5. CASE EndTurn
  <2>1. /\ pc = "done" /\ pc' = "loop" /\ packet' = NoPacket
        /\ heap' = heap \/ (deletePacket /\ heap' = heap \ {packet})
        /\ UNCHANGED <<unsent, recvQueue, deletePacket>>
    BY <1>5 DEF EndTurn, netVars
  <2> QED
    BY <2>1 DEF IInv, QueueTypes, UnsentInv, TurnInv, QueueAlive
<1>6. CASE Destroy
  <2>1. /\ pc' = "deleted" /\ recvQueue' = <<>> /\ heap' \subseteq heap
        /\ UNCHANGED <<unsent, packet, deletePacket>>
    BY <1>6 DEF Destroy, netVars
  <2>2. Range(recvQueue') = {}
    BY <2>1 DEF Range
  <2> QED
    BY <2>1, <2>2 DEF IInv, QueueTypes, UnsentInv, TurnInv, QueueAlive
<1>7. CASE \/ \E where \in {"world", "map"} : BeginUpdate(where)
           \/ EndUpdate
  <2>1. /\ pc' \in {"loop", "idle"}
        /\ deletePacket' = TRUE \/ deletePacket' = deletePacket
        /\ UNCHANGED <<unsent, recvQueue, heap, packet>>
    BY <1>7 DEF BeginUpdate, EndUpdate, netVars
  <2>2. deletePacket' \in BOOLEAN
    BY <2>1 DEF IInv, QueueTypes
  <2> QED
    BY <2>1, <2>2 DEF IInv, QueueTypes, UnsentInv, TurnInv, QueueAlive
<1>8. CASE NewSecond \/ LoseSocket \/ QueryAnswers \/ LeaveQueue \/ Deleted \/ UNCHANGED vars
  <2>1. UNCHANGED <<unsent, recvQueue, heap, pc, packet, deletePacket>>
    BY <1>8 DEF NewSecond, LoseSocket, QueryAnswers, LeaveQueue, Deleted, vars, netVars, loopVars
  <2> QED
    BY <2>1 DEF IInv, QueueTypes, UnsentInv, TurnInv, QueueAlive
<1> QED
  BY <1>1, <1>2, <1>3, <1>4, <1>5, <1>6, <1>7, <1>8 DEF Next, UpdateStep

\* The inductive invariant holds in every reachable state.
LEMMA Invariance == Spec => []IInv
  BY InitIInv, NextIInv, PTL DEF Spec

(***************************************************************************)
(* The queue of a session never holds a deleted packet or one twice, and   *)
(* the loop of WorldSession::Update dispatches only what is allocated.     *)
(***************************************************************************)
THEOREM QueueAliveCorrect == Spec => []QueueAlive
<1>1. IInv => QueueAlive
  BY DEF IInv
<1> QED
  BY <1>1, Invariance, PTL

(***************************************************************************)
(* Packets that are never put back leave the queue in the order in which   *)
(* they came, through both Updates: LockedQueue::next does not look behind *)
(* the first packet.                                                       *)
(***************************************************************************)
THEOREM UndelayedOrderCorrect == Spec => UndelayedInOrder
<1> DEFINE Kept == \A j, k \in DOMAIN recvQueue :
                      /\ j < k
                      /\ Undelayed(recvQueue[j])
                      /\ Undelayed(recvQueue[k])
                      /\ recvQueue[j] \in Range(recvQueue')
                      => recvQueue[k] \in Range(recvQueue')
<1>1. IInv /\ [Next]_vars => [Kept]_recvQueue
  <2> SUFFICES ASSUME IInv, [Next]_vars PROVE Kept \/ recvQueue' = recvQueue
    OBVIOUS
  <2>0. recvQueue \in Seq(Packets)
    BY DEF IInv, QueueTypes
  <2>1. CASE NextPacket
    <3>1. recvQueue # <<>> /\ recvQueue' = Without(recvQueue, 1)
      BY <2>1 DEF NextPacket, Continues, Candidates
    <3>2. ASSUME NEW k \in DOMAIN recvQueue, k # 1
          PROVE  recvQueue[k] \in Range(recvQueue')
      BY <2>0, <3>1, <3>2, WithoutFirst DEF Range
    <3>3. \A j, k \in DOMAIN recvQueue : j < k => k # 1
      BY <2>0
    <3> QED
      BY <3>2, <3>3
  <2>2. CASE Destroy
    <3>1. Range(recvQueue') = {}
      BY <2>2 DEF Destroy, Range
    <3> QED
      BY <3>1
  <2>3. ASSUME NEW p \in Packets, NEW n, QueuePacket(p, n)
        PROVE  Kept
    <3>1. Range(recvQueue) \subseteq Range(recvQueue')
      BY <2>0, <2>3, AppendRange DEF QueuePacket
    <3> QED
      BY <3>1 DEF Range
  <2>4. CASE Requeue
    <3>1. packet \in Packets
      BY <2>4 DEF Requeue, IInv, TurnInv, QueueTypes
    <3> QED
      BY <2>3, <2>4, <3>1 DEF Requeue
  <2>5. CASE \E p \in Packets : Receive(p)
    BY <2>3, <2>5 DEF Receive
  <2>6. CASE Dispatch
    <3>1. packet \in Packets
      BY <2>6 DEF Dispatch, IInv, TurnInv, QueueTypes
    <3> QED
      BY <2>6, <3>1, DispatchEffect
  <2>7. CASE \/ \E where \in {"world", "map"} : BeginUpdate(where)
             \/ EndTurn \/ EndUpdate \/ NewSecond \/ LoseSocket \/ QueryAnswers \/ LeaveQueue \/ Deleted
             \/ UNCHANGED vars
    BY <2>7 DEF BeginUpdate, EndTurn, EndUpdate, NewSecond, LoseSocket, QueryAnswers, LeaveQueue, Deleted, vars
  <2> QED
    BY <2>1, <2>2, <2>4, <2>5, <2>6, <2>7 DEF Next, UpdateStep
<1>2. UndelayedInOrder <=> [][Kept]_recvQueue
  BY DEF UndelayedInOrder
<1> HIDE DEF Kept
<1> QED
  BY <1>1, <1>2, Invariance, PTL DEF Spec

=============================================================================
