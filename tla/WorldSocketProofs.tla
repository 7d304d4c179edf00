-------------------------- MODULE WorldSocketProofs --------------------------
(***************************************************************************)
(* The proofs about WorldSocket.  Control relates the places of the three  *)
(* threads to the references, the registration, the buffer and the         *)
(* session; OutInv is about the packets on their way out.  No step of one  *)
(* disturbs the other.                                                     *)
(***************************************************************************)
EXTENDS WorldSocket, Integers, SequenceTheorems, FunctionTheorems, FiniteSetTheorems, TLAPS

\* Where the acceptor thread is before the handler is registered.
Opening == {"open", "add", "allocate", "greet", "register", "close"}

\* Where only a handler that the reactor called can be.
Reading ==
    {"handle_input", "trace", "CMSG_AUTH_SESSION", "AddSession", "CMSG_ENABLE_NAGLE", "nagle", "CMSG_PING",
     "default", "queueing", "latency", "SendPacket", "sending", "handle_close", "forget", "remove_handler"}

\* Where both the reactor and svc bring the network thread, and where only svc does.
Writing == {"Update", "handle_output"}
Dropping == {"CloseSocket", "clear", "erase"}

ControlTypes ==
    /\ acceptor \in Opening \cup {"release", "done"}
    /\ net \in {"loop"} \cup Reading \cup Writing \cup Dropping
    /\ caller \in {"reactor", "manager"}
    /\ world \in {"idle", "CloseSocket", "clear"}
    /\ refs \in Int
    /\ closing \in BOOLEAN /\ m_Session \in BOOLEAN /\ registered \in BOOLEAN
    /\ session \in {"none", "new", "added", "dying", "deleted"}
    /\ managed \in {"no", "new", "in"}
    /\ outActive \in BOOLEAN /\ writeMask \in BOOLEAN /\ allocated \in BOOLEAN

(***************************************************************************)
(* The count is the number of those who hold the socket: the acceptor, the *)
(* reactor, the manager and the session.                                   *)
(***************************************************************************)
Held(b) == IF b THEN 1 ELSE 0

RefInv ==
    refs = Held(acceptor # "done") + Held(registered) + Held(managed # "no")
           + Held(session \in {"new", "added", "dying"})

\* Whoever runs the network thread holds the socket; before the registration there is no session.
PlaceInv ==
    /\ net \in Reading => registered /\ caller = "reactor"
    /\ net \in Writing => IF caller = "reactor" THEN registered ELSE managed = "in"
    /\ net \in Dropping => managed = "in"
    /\ acceptor \in Opening => ~registered /\ session = "none" /\ ~m_Session
    /\ acceptor \in {"open", "add"} => managed = "no"

\* m_OutActive keeps Update away from a buffer that is not there yet.
BufferInv ==
    /\ acceptor \in {"open", "add", "allocate"} => ~allocated
    /\ acceptor \in {"greet", "register"} => allocated
    /\ registered => allocated
    /\ net = "handle_output" => closing \/ allocated
    /\ acceptor = "open" \/ closing \/ allocated \/ outActive

(***************************************************************************)
(* Whoever sets closing_ first clears m_Session next, and a session is not *)
(* deleted before: neither by Expire, which waits for closing_, nor by the *)
(* destructor, which closes the socket itself.                             *)
(***************************************************************************)
SessionInv ==
    /\ session = "new" <=> net = "AddSession"
    /\ session = "none" => ~m_Session /\ (net \in {"trace", "CMSG_AUTH_SESSION"} => ~closing)
    /\ world # "idle" => session \in {"added", "dying"}
    /\ world = "clear" => closing
    /\ session = "dying" => closing \/ world = "CloseSocket"
    /\ session = "deleted" => closing
    /\ closing /\ m_Session => net \in {"forget", "clear"} \/ world = "clear"
    /\ SessionLocked => m_Session

Control == ControlTypes /\ RefInv /\ PlaceInv /\ BufferInv /\ SessionInv

\* The last packet of the queue was put into it when it was not full.
QueueInv == queue # <<>> => Bytes(queue) - Size(queue[Len(queue)]) < HighWaterMark

OutInv ==
    /\ buffer \in Seq(Nat) /\ queue \in Seq(Nat) /\ sent \in Seq(Nat)
    /\ count \in Nat
    /\ lost \subseteq 1..count /\ failed \subseteq 1..count
    /\ OutInOrder
    /\ QueueInv

IInv == Control /\ OutInv

-----------------------------------------------------------------------------
(* The three threads keep Control. *)

\* The initial states satisfy Control.
LEMMA InitControl == Init => Control
<1> USE DEF Init, Opening, Reading, Writing, Dropping
<1>1. Init => ControlTypes
  <2>1. Init => /\ closing \in BOOLEAN /\ m_Session \in BOOLEAN /\ registered \in BOOLEAN
                /\ outActive \in BOOLEAN /\ writeMask \in BOOLEAN /\ allocated \in BOOLEAN
    BY Zenon
  <2> QED
    BY <2>1 DEF ControlTypes
<1>2. Init => RefInv
  BY DEF RefInv, Held
<1>3. Init => PlaceInv /\ BufferInv
  BY DEF PlaceInv, BufferInv
<1>4. Init => SessionInv
  BY DEF SessionInv, SessionLocked
<1> QED
  BY <1>1, <1>2, <1>3, <1>4 DEF Control

\* The acceptor thread keeps Control: it gives away references before it releases its own.
LEMMA AcceptControl == Control /\ Accept => Control'
<1> SUFFICES ASSUME Control, Accept PROVE Control'
  OBVIOUS
<1> USE DEF Control, ControlTypes, RefInv, PlaceInv, BufferInv, SessionInv, Opening, Reading, Writing, Dropping,
            SessionLocked, Held, life, output
<1>1. CASE Open
  BY <1>1 DEF Open
<1>2. CASE AddSocket
  BY <1>2 DEF AddSocket
<1>3. CASE Allocate
  BY <1>3 DEF Allocate
<1>4. CASE Greet
  BY <1>4 DEF Greet, Put
<1>5. CASE Register
  <2>1. CASE registered' = TRUE /\ writeMask' = TRUE /\ refs' = refs + 1 /\ acceptor' = "release"
    BY <1>5, <2>1 DEF Register
  <2>2. CASE acceptor' = "close" /\ UNCHANGED <<registered, writeMask, refs>>
    BY <1>5, <2>2 DEF Register
  <2> QED
    BY <1>5, <2>1, <2>2 DEF Register
<1>6. CASE CloseAccepted
  BY <1>6 DEF CloseAccepted
<1>7. CASE ReleaseAccepted
  BY <1>7 DEF ReleaseAccepted
<1> QED
  BY <1>1, <1>2, <1>3, <1>4, <1>5, <1>6, <1>7 DEF Accept

\* The handlers that read keep Control; only HandleAuthSession and AddSession touch the session.
LEMMA ReadControl == Control /\ Read => Control'
<1> SUFFICES ASSUME Control, Read PROVE Control'
  OBVIOUS
<1> USE DEF Control, ControlTypes, RefInv, PlaceInv, BufferInv, SessionInv, Opening, Reading, Writing, Dropping,
            SessionLocked, Held, life, output, Goes, Processed
<1>1. CASE InputEnds
  BY <1>1 DEF InputEnds
<1>2. CASE ProcessIncoming
  BY <1>2 DEF ProcessIncoming
<1>3. CASE Trace
  BY <1>3 DEF Trace
<1>4. CASE HandleAuthSession
  <2>1. CASE Goes("handle_close") /\ UNCHANGED <<refs, m_Session, session>>
    BY <1>4, <2>1 DEF HandleAuthSession, Put
  <2>2. CASE /\ ~m_Session /\ session = "none" /\ m_Session' = TRUE /\ session' = "new"
             /\ refs' = refs + 1 /\ Goes("AddSession")
    BY <1>4, <2>2 DEF HandleAuthSession
  <2> QED
    BY <1>4, <2>1, <2>2 DEF HandleAuthSession
<1>5. CASE AddSession
  BY <1>5 DEF AddSession
<1>6. CASE EnableNagle
  BY <1>6 DEF EnableNagle
<1>7. CASE TakeSession
  BY <1>7 DEF TakeSession
<1>8. CASE UseSession
  BY <1>8 DEF UseSession
<1>9. CASE SendPacket
  BY <1>9 DEF SendPacket
<1>10. CASE PacketSent
  BY <1>10 DEF PacketSent, Put
<1> QED
  BY <1>1, <1>2, <1>3, <1>4, <1>5, <1>6, <1>7, <1>8, <1>9, <1>10 DEF Read

\* Update and handle_output keep Control; the buffer is there when m_OutActive is reset.
LEMMA WriteControl == Control /\ Write => Control'
<1> SUFFICES ASSUME Control, Write PROVE Control'
  OBVIOUS
<1> USE DEF Control, ControlTypes, RefInv, PlaceInv, BufferInv, SessionInv, Opening, Reading, Writing, Dropping,
            SessionLocked, Held, life, output, Goes, Failed
<1>1. CASE Update
  BY <1>1 DEF Update
<1>2. CASE OutputClosed
  BY <1>2 DEF OutputClosed
<1>3. CASE OutputFails
  BY <1>3 DEF OutputFails
<1>4. CASE OutputBlocked
  BY <1>4 DEF OutputBlocked
<1>5. CASE QueueBlocked
  BY <1>5 DEF QueueBlocked
<1>6. CASE OutputSent
  BY <1>6 DEF OutputSent
<1> QED
  BY <1>1, <1>2, <1>3, <1>4, <1>5, <1>6 DEF Write

\* The network thread keeps Control, whether the reactor or svc has called it.
LEMMA NetworkControl == Control /\ Network => Control'
<1> SUFFICES ASSUME Control, Network PROVE Control'
  OBVIOUS
<1>0. CASE Read \/ Write
  BY <1>0, ReadControl, WriteControl
<1> USE DEF Control, ControlTypes, RefInv, PlaceInv, BufferInv, SessionInv, Opening, Reading, Writing, Dropping,
            SessionLocked, Held, life, output, Goes
<1>1. CASE AddNewSockets
  BY <1>1 DEF AddNewSockets
<1>2. CASE BeginUpdate
  BY <1>2 DEF BeginUpdate
<1>3. CASE HandleInput
  BY <1>3 DEF HandleInput
<1>4. CASE HandleOutput
  BY <1>4 DEF HandleOutput
<1>5. CASE HandleClose
  <2>1. CASE net = "handle_close"
    BY <1>5, <2>1 DEF HandleClose
  <2>2. CASE net = "forget"
    BY <1>5, <2>2, ZenonT(30) DEF HandleClose
  <2>3. CASE net = "remove_handler"
    <3>0. registered' \in BOOLEAN
      BY <1>5, <2>3 DEF HandleClose
    <3>1. ControlTypes'
      BY <1>5, <2>3, <3>0 DEF HandleClose
    <3>2. RefInv'
      BY <1>5, <2>3 DEF HandleClose
    <3>3. PlaceInv' /\ BufferInv' /\ SessionInv'
      BY <1>5, <2>3 DEF HandleClose
    <3> QED
      BY <3>1, <3>2, <3>3
  <2> QED
    BY <1>5, <2>1, <2>2, <2>3 DEF HandleClose
<1>6. CASE CloseManaged
  <2>1. CASE net = "CloseSocket"
    BY <1>6, <2>1 DEF CloseManaged
  <2>2. CASE net = "clear"
    <3>1. ControlTypes'
      BY <1>6, <2>2, ZenonT(30) DEF CloseManaged
    <3>2. RefInv'
      BY <1>6, <2>2 DEF CloseManaged
    <3>3. PlaceInv' /\ BufferInv' /\ SessionInv'
      BY <1>6, <2>2 DEF CloseManaged
    <3> QED
      BY <3>1, <3>2, <3>3
  <2>3. CASE net = "erase"
    BY <1>6, <2>3 DEF CloseManaged
  <2> QED
    BY <1>6, <2>1, <2>2, <2>3 DEF CloseManaged
<1> QED
  BY <1>0, <1>1, <1>2, <1>3, <1>4, <1>5, <1>6 DEF Network

\* The world thread keeps Control: it gives the session's reference back only after closing_.
LEMMA WorldControl == Control /\ World => Control'
<1> SUFFICES ASSUME Control, World PROVE Control'
  OBVIOUS
<1> USE DEF Control, ControlTypes, RefInv, PlaceInv, BufferInv, SessionInv, Opening, Reading, Writing, Dropping,
            SessionLocked, OutBufferLocked, Held, life, output
<1>1. CASE SessionSendPacket
  BY <1>1 DEF SessionSendPacket, Put
<1>2. CASE KickPlayer
  BY <1>2 DEF KickPlayer
<1>3. CASE CloseSocket
  <2>1. CASE world = "CloseSocket"
    BY <1>3, <2>1 DEF CloseSocket
  <2>2. CASE world = "clear"
    <3>0. m_Session' \in BOOLEAN
      BY <1>3, <2>2 DEF CloseSocket
    <3>1. ControlTypes'
      BY <1>3, <2>2, <3>0 DEF CloseSocket
    <3>2. RefInv'
      BY <1>3, <2>2 DEF CloseSocket
    <3>3. PlaceInv' /\ BufferInv' /\ SessionInv'
      BY <1>3, <2>2 DEF CloseSocket
    <3> QED
      BY <3>1, <3>2, <3>3
  <2> QED
    BY <1>3, <2>1, <2>2 DEF CloseSocket
<1>4. CASE Expire
  BY <1>4 DEF Expire
<1>5. CASE Destroy
  BY <1>5 DEF Destroy
<1> QED
  BY <1>1, <1>2, <1>3, <1>4, <1>5 DEF World

\* A step in which nothing changes keeps Control.
LEMMA StutterControl == Control /\ UNCHANGED vars => Control'
  BY DEF vars, life, output, Control, ControlTypes, RefInv, PlaceInv, BufferInv, SessionInv, SessionLocked

\* Every step keeps Control.
LEMMA NextControl == Control /\ [Next]_vars => Control'
  BY AcceptControl, NetworkControl, WorldControl, StutterControl DEF Next, Done

-----------------------------------------------------------------------------
(* The packets on their way out. *)

Ordered(packets) == \A i, j \in DOMAIN packets : i < j => packets[i] < packets[j]

Elements(packets) == {packets[i] : i \in DOMAIN packets}

\* OutInOrder in these words.
LEMMA OutInOrderSays ==
  OutInOrder <=> /\ Ordered(Outgoing)
                 /\ Elements(Outgoing) = (1..count) \ (lost \cup failed)
                 /\ \A p \in failed : Ending /\ \A i \in DOMAIN sent : sent[i] < p
                 /\ \A p \in lost : \E q \in p + 1..count : Size(p) < Size(q)
  BY DEF OutInOrder, Ordered, Elements

\* A greater packet at the end keeps the order.
LEMMA OrderedAppend ==
  ASSUME NEW o \in Seq(Nat), NEW e \in Nat, Ordered(o), \A x \in Elements(o) : x < e
  PROVE  Ordered(Append(o, e)) /\ Elements(Append(o, e)) = Elements(o) \cup {e}
<1> DEFINE a == Append(o, e)
<1>1. /\ DOMAIN o = 1..Len(o) /\ DOMAIN a = 1..Len(o) + 1 /\ Len(o) \in Nat
      /\ a[Len(o) + 1] = e
      /\ \A i \in 1..Len(o) : a[i] = o[i] /\ o[i] \in Nat /\ o[i] < e
  BY DEF Elements
<1> HIDE DEF a
<1>2. Ordered(a)
  BY <1>1 DEF Ordered
<1>3. Elements(a) = Elements(o) \cup {e}
  <2>1. \A x \in Elements(a) : x \in Elements(o) \cup {e}
    BY <1>1 DEF Elements
  <2>2. \A x \in Elements(o) : x \in Elements(a)
    BY <1>1 DEF Elements
  <2>3. e \in Elements(a)
    BY <1>1 DEF Elements
  <2> QED
    BY <2>1, <2>2, <2>3
<1> QED
  BY <1>2, <1>3 DEF a

\* One packet is taken out: the others stay in order, those before it are smaller, those behind it greater.
LEMMA Removed ==
  ASSUME NEW t \in Seq(Nat), NEW q \in Seq(Nat), q # <<>>, Ordered(t \o q)
  PROVE  /\ Ordered(t \o Tail(q))
         /\ Elements(t \o Tail(q)) = Elements(t \o q) \ {Head(q)}
         /\ Head(q) \in Elements(t \o q)
         /\ q[Len(q)] \in Elements(t \o q)
         /\ \A i \in DOMAIN t : t[i] < Head(q)
         /\ Len(q) > 1 => Head(q) < q[Len(q)]
<1> DEFINE o == t \o q
           u == t \o Tail(q)
           m == Len(t)
           k == Len(q)
<1>1. /\ m \in Nat /\ k \in Nat /\ k > 0 /\ Head(q) = q[1] /\ m < m + k /\ m + k \in Nat
      /\ Tail(q) \in Seq(Nat) /\ Len(Tail(q)) = k - 1
  OBVIOUS
<1>2. /\ DOMAIN o = 1..m + k
      /\ \A i \in 1..m : o[i] = t[i]
      /\ \A i \in 1..k : o[m + i] = q[i]
      /\ \A i \in 1..m + k : o[i] \in Nat
  OBVIOUS
<1>3. /\ DOMAIN u = 1..(m + k) - 1
      /\ \A i \in 1..m : u[i] = t[i]
      /\ \A i \in 1..k - 1 : u[m + i] = q[i + 1]
  <2>1. DOMAIN u = 1..(m + k) - 1 /\ \A i \in 1..m : u[i] = t[i]
    BY <1>1
  <2>2. \A i \in 1..k - 1 : u[m + i] = Tail(q)[i]
    BY <1>1
  <2>3. \A i \in 1..k - 1 : Tail(q)[i] = q[i + 1]
    BY <1>1
  <2> QED
    BY <2>1, <2>2, <2>3
<1>4. o[m + 1] = Head(q) /\ o[m + k] = q[k] /\ DOMAIN t = 1..m
  BY <1>1, <1>2
<1>5. Ordered(o)
  OBVIOUS
<1> HIDE DEF o, u, m, k
<1>6. \A i \in 1..m : u[i] = o[i]
  BY <1>2, <1>3
<1>7. \A i \in m + 1..(m + k) - 1 : u[i] = o[i + 1]
  <2> SUFFICES ASSUME NEW i \in m + 1..(m + k) - 1 PROVE u[i] = o[i + 1]
    OBVIOUS
  <2>1. i - m \in 1..k - 1 /\ m + (i - m) = i /\ (i - m) + 1 \in 1..k /\ m + ((i - m) + 1) = i + 1
    BY <1>1
  <2>2. u[m + (i - m)] = q[(i - m) + 1]
    BY <1>3, <2>1
  <2>3. o[m + ((i - m) + 1)] = q[(i - m) + 1]
    BY <1>2, <2>1
  <2> QED
    BY <2>1, <2>2, <2>3
<1>8. Ordered(u) /\ Elements(u) = Elements(o) \ {o[m + 1]}
  <2> DEFINE l == m + k
  <2>0. /\ l \in Nat /\ m \in Nat /\ m < l
        /\ DOMAIN o = 1..l /\ DOMAIN u = 1..l - 1
        /\ \A i \in 1..l : o[i] \in Nat
        /\ \A i \in 1..m : u[i] = o[i]
        /\ \A i \in m + 1..l - 1 : u[i] = o[i + 1]
    BY <1>1, <1>2, <1>3, <1>6, <1>7
  <2> HIDE DEF l
  <2> DEFINE g(i) == IF i <= m THEN i ELSE i + 1
  <2>1. \A i \in 1..l - 1 : g(i) \in 1..l /\ g(i) # m + 1 /\ u[i] = o[g(i)]
    BY <2>0
  <2>2. \A i, j \in 1..l - 1 : i < j => g(i) < g(j)
    BY <2>0
  <2>3. \A i \in 1..l : i # m + 1 => \E j \in 1..l - 1 : g(j) = i
    <3> SUFFICES ASSUME NEW i \in 1..l, i # m + 1 PROVE \E j \in 1..l - 1 : g(j) = i
      OBVIOUS
    <3>1. CASE i <= m
      <4>1. i \in 1..l - 1 /\ g(i) = i
        BY <2>0, <3>1
      <4> QED
        BY <4>1
    <3>2. CASE i > m
      <4>1. i - 1 \in 1..l - 1 /\ g(i - 1) = i
        BY <2>0, <3>2
      <4> QED
        BY <4>1
    <3> QED
      BY <2>0, <3>1, <3>2
  <2> HIDE DEF g
  <2>4. \A i, j \in 1..l : i < j => o[i] < o[j]
    <3>1. \A i, j \in DOMAIN o : i < j => o[i] < o[j]
      BY <1>5, Zenon DEF Ordered
    <3> QED
      BY <2>0, <3>1
  <2>5. Ordered(u)
    <3> SUFFICES ASSUME NEW i \in 1..l - 1, NEW j \in 1..l - 1, i < j PROVE u[i] < u[j]
      BY <2>0 DEF Ordered
    <3> QED
      BY <2>1, <2>2, <2>4
  <2>6. m + 1 \in 1..l
    BY <2>0
  <2>7. \A i \in 1..l : i # m + 1 => o[i] # o[m + 1]
    <3> SUFFICES ASSUME NEW i \in 1..l, i # m + 1 PROVE o[i] # o[m + 1]
      OBVIOUS
    <3>1. i < m + 1 \/ m + 1 < i
      BY <2>0
    <3>2. o[i] < o[m + 1] \/ o[m + 1] < o[i]
      BY <2>4, <2>6, <3>1
    <3>3. o[i] \in Nat /\ o[m + 1] \in Nat
      BY <2>0, <2>6
    <3> QED
      BY <3>2, <3>3
  <2>8. Elements(u) = Elements(o) \ {o[m + 1]}
    <3>1. Elements(u) = {u[i] : i \in 1..l - 1} /\ Elements(o) = {o[i] : i \in 1..l}
      BY <2>0 DEF Elements
    <3>2. \A i \in 1..l - 1 : u[i] \in Elements(o) \ {o[m + 1]}
      BY <2>1, <2>7, <3>1
    <3>3. ASSUME NEW i \in 1..l, o[i] # o[m + 1] PROVE o[i] \in Elements(u)
      <4>1. PICK j \in 1..l - 1 : g(j) = i
        BY <2>3, <3>3
      <4>2. u[j] = o[i]
        BY <2>1, <4>1
      <4> QED
        BY <3>1, <4>2
    <3>4. ASSUME NEW x \in Elements(o) \ {o[m + 1]} PROVE x \in Elements(u)
      BY <3>1, <3>3
    <3>5. ASSUME NEW x \in Elements(u) PROVE x \in Elements(o) \ {o[m + 1]}
      BY <3>1, <3>2
    <3> QED
      BY <3>4, <3>5
  <2> QED
    BY <2>5, <2>8
<1>9. m + 1 \in 1..m + k /\ m + k \in 1..m + k /\ 1..m \subseteq 1..m + k
  BY <1>1
<1>10. Head(q) \in Elements(o) /\ q[k] \in Elements(o)
  BY <1>2, <1>4, <1>9 DEF Elements
<1>11. \A i, j \in 1..m + k : i < j => o[i] < o[j]
  <2>1. \A i, j \in DOMAIN o : i < j => o[i] < o[j]
    BY <1>5, Zenon DEF Ordered
  <2> QED
    BY <1>2, <2>1
<1>12. \A i \in 1..m : o[i] < o[m + 1]
  BY <1>1, <1>9, <1>11
<1>13. k > 1 => o[m + 1] < o[m + k]
  BY <1>1, <1>9, <1>11
<1> QED
  BY <1>2, <1>4, <1>8, <1>10, <1>12, <1>13 DEF o, u, m, k

\* The sizes are positive numbers.
LEMMA SizeType == ASSUME NEW p PROVE Size(p) \in Nat \ {0}
  BY SocketAssumption DEF Size

\* The places of the large packets.
LargePlaces(packets) == {n \in DOMAIN packets : packets[n] \in Large}

LEMMA BytesSays ==
  ASSUME NEW s \in Seq(Nat)
  PROVE  /\ IsFiniteSet(LargePlaces(s)) /\ Cardinality(LargePlaces(s)) \in Nat
         /\ Bytes(s) = Len(s) + (LargeSize - 1) * Cardinality(LargePlaces(s))
         /\ Bytes(s) \in Nat
<1>1. IsFiniteSet(1..Len(s)) /\ LargePlaces(s) \subseteq 1..Len(s)
  BY FS_Interval DEF LargePlaces
<1>2. IsFiniteSet(LargePlaces(s)) /\ Cardinality(LargePlaces(s)) \in Nat
  BY <1>1, FS_Subset, FS_CardinalityType
<1>3. Bytes(s) = Len(s) + (LargeSize - 1) * Cardinality(LargePlaces(s))
  BY DEF Bytes, LargePlaces
<1>4. \A a, b \in Nat : a * b \in Nat
  OBVIOUS
<1>5. LargeSize - 1 \in Nat
  BY SocketAssumption
<1> QED
  BY <1>2, <1>3, <1>4, <1>5

\* A packet more counts its size.
LEMMA BytesAppend ==
  ASSUME NEW s \in Seq(Nat), NEW e \in Nat
  PROVE  Bytes(Append(s, e)) = Bytes(s) + Size(e)
<1> DEFINE S == LargePlaces(s)
           T == LargePlaces(Append(s, e))
           n == Len(s) + 1
<1>1. Append(s, e) \in Seq(Nat) /\ Len(Append(s, e)) = n
  OBVIOUS
<1>2. T = IF e \in Large THEN S \cup {n} ELSE S
  BY DEF LargePlaces
<1>3. n \notin S
  BY DEF LargePlaces
<1>4. IsFiniteSet(S) /\ Cardinality(S) \in Nat /\ Bytes(s) = Len(s) + (LargeSize - 1) * Cardinality(S)
  BY BytesSays
<1>5. Bytes(Append(s, e)) = n + (LargeSize - 1) * Cardinality(T)
  BY <1>1, BytesSays
<1>6. Cardinality(T) = IF e \in Large THEN Cardinality(S) + 1 ELSE Cardinality(S)
  <2>1. CASE e \in Large
    BY <1>2, <1>3, <1>4, <2>1, FS_AddElement
  <2> QED
    BY <1>2, <2>1
<1> HIDE DEF S, T
<1>7. \A a, b \in Nat : a * (b + 1) = a * b + a /\ a * b \in Nat
  OBVIOUS
<1>8. LargeSize \in Nat /\ LargeSize - 1 \in Nat
  BY SocketAssumption
<1>9. (LargeSize - 1) * (Cardinality(S) + 1) = (LargeSize - 1) * Cardinality(S) + (LargeSize - 1)
  BY <1>4, <1>7, <1>8
<1>10. (LargeSize - 1) * Cardinality(S) \in Nat
  BY <1>4, <1>7, <1>8
<1>11. CASE e \in Large
  <2>1. Bytes(Append(s, e)) = n + ((LargeSize - 1) * Cardinality(S) + (LargeSize - 1))
    BY <1>5, <1>6, <1>9, <1>11
  <2> QED
    BY <1>4, <1>8, <1>10, <1>11, <2>1 DEF Size
<1>12. CASE e \notin Large
  <2>1. Bytes(Append(s, e)) = n + (LargeSize - 1) * Cardinality(S)
    BY <1>5, <1>6, <1>12
  <2> QED
    BY <1>4, <1>8, <1>10, <1>12, <2>1 DEF Size
<1> QED
  BY <1>11, <1>12

\* The first packet counts its size.
LEMMA BytesTail ==
  ASSUME NEW s \in Seq(Nat), s # <<>>
  PROVE  Bytes(s) = Bytes(Tail(s)) + Size(Head(s))
<1> DEFINE r == Tail(s)
           S == LargePlaces(r)
           T == LargePlaces(s)
           U == T \ {1}
           f == [i \in S |-> i + 1]
<1>1. r \in Seq(Nat) /\ Len(s) \in Nat /\ Len(s) > 0 /\ Len(r) = Len(s) - 1 /\ Head(s) = s[1]
  OBVIOUS
<1>2. DOMAIN s = 1..Len(s) /\ DOMAIN r = 1..Len(s) - 1 /\ \A i \in 1..Len(s) - 1 : r[i] = s[i + 1]
  OBVIOUS
<1> HIDE DEF r
<1>3. f \in Bijection(S, U)
  <2>1. f \in [S -> U]
    <3> SUFFICES ASSUME NEW i \in S PROVE i + 1 \in U
      OBVIOUS
    <3>1. i \in 1..Len(s) - 1 /\ s[i + 1] \in Large
      BY <1>2 DEF LargePlaces
    <3>2. i + 1 \in 1..Len(s) /\ i + 1 # 1
      BY <1>1, <3>1
    <3> QED
      BY <1>2, <3>1, <3>2 DEF LargePlaces
  <2>2. \A i, j \in S : f[i] = f[j] => i = j
    BY <1>1, <1>2 DEF LargePlaces
  <2>3. \A u \in U : \E i \in S : f[i] = u
    <3> SUFFICES ASSUME NEW u \in U PROVE u - 1 \in S /\ f[u - 1] = u
      OBVIOUS
    <3>1. u \in 2..Len(s) /\ s[u] \in Large
      BY <1>1, <1>2 DEF LargePlaces
    <3>2. u - 1 \in 1..Len(s) - 1 /\ (u - 1) + 1 = u
      BY <1>1, <3>1
    <3>3. r[u - 1] = s[u]
      BY <1>2, <3>2
    <3> QED
      BY <1>2, <3>1, <3>2, <3>3 DEF LargePlaces
  <2> QED
    BY <2>1, <2>2, <2>3, Fun_IsBij
<1>4. IsFiniteSet(S) /\ Cardinality(S) \in Nat /\ Bytes(r) = Len(r) + (LargeSize - 1) * Cardinality(S)
  BY <1>1, BytesSays
<1>5. IsFiniteSet(T) /\ Cardinality(T) \in Nat /\ Bytes(s) = Len(s) + (LargeSize - 1) * Cardinality(T)
  BY BytesSays
<1>6. Cardinality(U) = Cardinality(S)
  BY <1>3, <1>4, FS_Bijection DEF ExistsBijection
<1>7. Cardinality(T) = IF s[1] \in Large THEN Cardinality(S) + 1 ELSE Cardinality(S)
  <2>1. CASE s[1] \in Large
    <3>1. 1 \in T
      BY <1>1, <1>2, <2>1 DEF LargePlaces
    <3>2. Cardinality(U) = Cardinality(T) - 1
      BY <1>5, <3>1, FS_RemoveElement
    <3> QED
      BY <1>4, <1>5, <1>6, <2>1, <3>2
  <2>2. CASE s[1] \notin Large
    <3>1. U = T
      BY <2>2 DEF LargePlaces
    <3> QED
      BY <1>6, <2>2, <3>1
  <2> QED
    BY <2>1, <2>2
<1> HIDE DEF S, T, U, f
<1>8. \A a, b \in Nat : a * (b + 1) = a * b + a /\ a * b \in Nat
  OBVIOUS
<1>9. LargeSize \in Nat /\ LargeSize - 1 \in Nat
  BY SocketAssumption
<1>10. /\ (LargeSize - 1) * (Cardinality(S) + 1) = (LargeSize - 1) * Cardinality(S) + (LargeSize - 1)
       /\ (LargeSize - 1) * Cardinality(S) \in Nat
  BY <1>4, <1>8, <1>9
<1>11. CASE s[1] \in Large
  <2>1. Bytes(s) = Len(s) + ((LargeSize - 1) * Cardinality(S) + (LargeSize - 1))
    BY <1>5, <1>7, <1>10, <1>11
  <2> QED
    BY <1>1, <1>4, <1>9, <1>10, <1>11, <2>1 DEF Size, r
<1>12. CASE s[1] \notin Large
  <2>1. Bytes(s) = Len(s) + (LargeSize - 1) * Cardinality(S)
    BY <1>5, <1>7, <1>12
  <2> QED
    BY <1>1, <1>4, <1>9, <1>10, <1>12, <2>1 DEF Size, r
<1> QED
  BY <1>11, <1>12

\* Without its first packet the queue still has its last one, or is empty.
LEMMA TailQueueInv ==
  ASSUME NEW s \in Seq(Nat), s # <<>>, Bytes(s) - Size(s[Len(s)]) < HighWaterMark
  PROVE  /\ Tail(s) # <<>> => Bytes(Tail(s)) - Size(Tail(s)[Len(Tail(s))]) < HighWaterMark
         /\ Full(Tail(s)) => Len(s) > 1 /\ Size(Head(s)) < Size(s[Len(s)])
<1>1. /\ Tail(s) \in Seq(Nat) /\ Len(Tail(s)) = Len(s) - 1 /\ Len(s) \in Nat /\ Len(s) > 0
      /\ Tail(s) # <<>> => Len(s) > 1 /\ Tail(s)[Len(Tail(s))] = s[Len(s)]
      /\ Len(s) = 1 => Tail(s) = <<>> /\ Head(s) = s[Len(s)]
  OBVIOUS
<1>2. Bytes(s) = Bytes(Tail(s)) + Size(Head(s)) /\ Bytes(s) \in Nat /\ Bytes(Tail(s)) \in Nat
  BY <1>1, BytesTail, BytesSays
<1>3. Size(Head(s)) \in Nat \ {0} /\ Size(s[Len(s)]) \in Nat \ {0} /\ HighWaterMark \in Nat
  BY SizeType, SocketAssumption
<1>4. Tail(s) # <<>> => Bytes(Tail(s)) - Size(Tail(s)[Len(Tail(s))]) < HighWaterMark
  BY <1>1, <1>2, <1>3
<1>5. ASSUME Full(Tail(s)) PROVE Len(s) > 1 /\ Size(Head(s)) < Size(s[Len(s)])
  <2>1. Bytes(Tail(s)) >= HighWaterMark
    BY <1>5 DEF Full
  <2>2. Size(Head(s)) < Size(s[Len(s)])
    BY <1>2, <1>3, <2>1
  <2> QED
    BY <1>1, <1>3, <2>2
<1> QED
  BY <1>4, <1>5

\* A packet put into the buffer, with nothing in the queue, comes after all others.
LEMMA PutInBuffer ==
  ASSUME NEW s \in Seq(Nat), NEW b \in Seq(Nat), NEW q \in Seq(Nat), q = <<>>, NEW e \in Nat
  PROVE  s \o Append(b, e) \o q = Append(s \o b \o q, e)
<1>1. s \o Append(b, e) = Append(s \o b, e)
  BY ConcatProperties
<1>2. /\ s \o b \in Seq(Nat)
      /\ Append(s \o b, e) \in Seq(Nat)
  BY ConcatProperties
<1> QED
  BY <1>1, <1>2, ConcatEmptySeq

\* A packet put into the queue comes after all others.
LEMMA PutInQueue ==
  ASSUME NEW s \in Seq(Nat), NEW b \in Seq(Nat), NEW q \in Seq(Nat), NEW e \in Nat
  PROVE  s \o b \o Append(q, e) = Append(s \o b \o q, e)
<1> DEFINE t == s \o b
<1>1. t \in Seq(Nat)
  BY ConcatProperties
<1> HIDE DEF t
<1>2. t \o Append(q, e) = Append(t \o q, e)
  BY <1>1
<1> QED
  BY <1>2 DEF t

\* Put keeps the packets in order.
LEMMA PutInOrder == OutInv /\ CanPut /\ Put /\ (Ending => Ending') => OutInv'
<1> SUFFICES ASSUME OutInv, CanPut, Put, Ending => Ending' PROVE OutInv'
  OBVIOUS
<1>1. count \in Nat /\ count' = count + 1 /\ count' \in Nat /\ sent' = sent /\ lost' = lost /\ failed' = failed
  BY DEF OutInv, Put
<1>2. /\ buffer \in Seq(Nat) /\ queue \in Seq(Nat) /\ sent \in Seq(Nat)
      /\ lost \subseteq 1..count /\ failed \subseteq 1..count
  BY DEF OutInv
<1>3. /\ Ordered(Outgoing)
      /\ Elements(Outgoing) = (1..count) \ (lost \cup failed)
      /\ \A p \in failed : Ending /\ \A i \in DOMAIN sent : sent[i] < p
      /\ \A p \in lost : \E q \in p + 1..count : Size(p) < Size(q)
  BY OutInOrderSays DEF OutInv
<1>4. /\ buffer' \in Seq(Nat) /\ queue' \in Seq(Nat) /\ sent' \in Seq(Nat)
      /\ Outgoing' = Append(Outgoing, count') /\ QueueInv'
  <2>1. CASE IntoBuffer
    <3>1. buffer' = Append(buffer, count') /\ queue' = queue /\ queue = <<>>
      BY <2>1 DEF Put, IntoBuffer
    <3>2. buffer' \in Seq(Nat) /\ queue' \in Seq(Nat) /\ sent' \in Seq(Nat)
      BY <1>1, <1>2, <3>1
    <3>3. sent' \o buffer' \o queue' = Append(sent \o buffer \o queue, count')
      BY <1>1, <1>2, <3>1, PutInBuffer, SMTT(30)
    <3> QED
      BY <3>1, <3>2, <3>3 DEF Outgoing, QueueInv
  <2>2. CASE ~IntoBuffer
    <3>1. queue' = Append(queue, count') /\ buffer' = buffer
      BY <2>2 DEF Put
    <3>2. buffer' \in Seq(Nat) /\ queue' \in Seq(Nat) /\ sent' \in Seq(Nat)
      BY <1>1, <1>2, <3>1
    <3>3. sent' \o buffer' \o queue' = Append(sent \o buffer \o queue, count')
      BY <1>1, <1>2, <3>1, PutInQueue, ZenonT(30)
    <3>4. Bytes(queue') = Bytes(queue) + Size(count') /\ Bytes(queue) \in Nat /\ Size(count') \in Nat
      BY <1>1, <1>2, <3>1, BytesAppend, BytesSays, SizeType
    <3>5. queue'[Len(queue')] = count'
      BY <1>1, <1>2, <3>1
    <3>6. Bytes(queue) < HighWaterMark
      BY <2>2, <3>4, SocketAssumption DEF CanPut, Full
    <3>7. QueueInv'
      <4>1. Bytes(queue') - Size(queue'[Len(queue')]) < HighWaterMark
        BY <3>4, <3>5, <3>6
      <4> QED
        BY <4>1 DEF QueueInv
    <3> QED
      BY <3>2, <3>3, <3>7 DEF Outgoing
  <2> QED
    BY <2>1, <2>2
<1>5. Outgoing \in Seq(Nat)
  BY <1>2, ConcatProperties DEF Outgoing
<1> HIDE DEF Outgoing
<1>6. \A x \in Elements(Outgoing) : x < count'
  BY <1>1, <1>3
<1>7. Ordered(Outgoing') /\ Elements(Outgoing') = Elements(Outgoing) \cup {count'}
  BY <1>1, <1>3, <1>4, <1>5, <1>6, OrderedAppend
<1>8. Elements(Outgoing') = (1..count') \ (lost' \cup failed')
  <2>1. 1..count' = 1..count \cup {count'} /\ count' \notin 1..count
    BY <1>1
  <2> QED
    BY <1>1, <1>2, <1>3, <1>7, <2>1
<1>9. \A p \in failed' : Ending' /\ \A i \in DOMAIN sent' : sent'[i] < p
  BY <1>1, <1>3
<1>10. \A p \in lost' : \E q \in p + 1..count' : Size(p) < Size(q)
  <2>1. \A p \in lost : p + 1..count \subseteq p + 1..count'
    BY <1>1, <1>2
  <2> QED
    BY <1>1, <1>3, <2>1
<1>11. OutInOrder'
  BY <1>7, <1>8, <1>9, <1>10 DEF OutInOrder, Ordered, Elements
<1>12. lost' \subseteq 1..count' /\ failed' \subseteq 1..count'
  BY <1>1, <1>2
<1> QED
  BY <1>1, <1>4, <1>11, <1>12 DEF OutInv

\* Concatenation of packets is associative.
LEMMA Associative ==
  ASSUME NEW s \in Seq(Nat), NEW t \in Seq(Nat), NEW u \in Seq(Nat)
  PROVE  (s \o t) \o u = s \o (t \o u)
  BY SMTT(30)

\* The two parts into which a partial write cuts the buffer.
LEMMA Cut ==
  ASSUME NEW b \in Seq(Nat), NEW n \in 0..Len(b) - 1
  PROVE  /\ SubSeq(b, 1, n) \in Seq(Nat)
         /\ SubSeq(b, n + 1, Len(b)) \in Seq(Nat)
         /\ SubSeq(b, 1, n) \o SubSeq(b, n + 1, Len(b)) = b
  OBVIOUS

\* Nothing has failed when the network thread writes, and writes leave no trace but in the output.
LEMMA NothingFailed == OutInv /\ net = "handle_output" /\ ~closing => failed = {}
  BY DEF OutInv, OutInOrder, Ending

\* What is outgoing stays, in whichever place.
LEMMA SameInOrder ==
  ASSUME OutInv, failed = {}, UNCHANGED <<lost, failed, count>>, Outgoing' = Outgoing, QueueInv',
         buffer' \in Seq(Nat), queue' \in Seq(Nat), sent' \in Seq(Nat)
  PROVE  OutInv'
<1>1. OutInOrder'
  BY DEF OutInv, OutInOrder
<1> QED
  BY <1>1 DEF OutInv

\* A part of the buffer is written: the order is kept.
LEMMA BlockedInOrder == OutInv /\ OutputBlocked => OutInv'
<1> SUFFICES ASSUME OutInv, OutputBlocked PROVE OutInv'
  OBVIOUS
<1>1. buffer \in Seq(Nat) /\ queue \in Seq(Nat) /\ sent \in Seq(Nat)
  BY DEF OutInv
<1>2. queue' = queue /\ UNCHANGED <<lost, failed, count>> /\ failed = {}
  BY NothingFailed DEF OutputBlocked
<1>3. PICK n \in 0..Len(buffer) - 1 :
         /\ sent' = sent \o SubSeq(buffer, 1, n)
         /\ buffer' = SubSeq(buffer, n + 1, Len(buffer))
  BY DEF OutputBlocked
<1> DEFINE f == SubSeq(buffer, 1, n)
           g == SubSeq(buffer, n + 1, Len(buffer))
<1>4. f \in Seq(Nat) /\ g \in Seq(Nat) /\ f \o g = buffer
  BY <1>1, Cut
<1>5. sent' = sent \o f /\ buffer' = g
  BY <1>3
<1> HIDE DEF f, g
<1>6. sent' \o buffer' = sent \o buffer
  BY <1>1, <1>4, <1>5, Associative
<1>7. sent' \in Seq(Nat) /\ buffer' \in Seq(Nat) /\ queue' \in Seq(Nat)
  BY <1>1, <1>2, <1>4, <1>5, ConcatProperties
<1>8. Outgoing' = Outgoing
  BY <1>2, <1>6 DEF Outgoing
<1>9. QueueInv'
  BY <1>2 DEF OutInv, QueueInv
<1> QED
  BY <1>2, <1>7, <1>8, <1>9, SameInOrder

\* The whole buffer is written and the queue's first packet leaves the queue, not sent: the others stay in order.
LEMMA HeadLeaves ==
  ASSUME OutInv, failed = {}, queue # <<>>, count' = count,
         sent' = sent \o buffer, buffer' = <<>>, queue' = Tail(queue)
  PROVE  /\ buffer' \in Seq(Nat) /\ queue' \in Seq(Nat) /\ sent' \in Seq(Nat)
         /\ Ordered(Outgoing')
         /\ Elements(Outgoing') = ((1..count) \ lost) \ {Head(queue)}
         /\ QueueInv'
         /\ Head(queue) \in 1..count
         /\ \A i \in DOMAIN sent' : sent'[i] < Head(queue)
         /\ Full(Tail(queue)) => \E q \in Head(queue) + 1..count : Size(Head(queue)) < Size(q)
<1>1. buffer \in Seq(Nat) /\ queue \in Seq(Nat) /\ sent \in Seq(Nat) /\ count \in Nat /\ QueueInv
  BY DEF OutInv
<1>2. Ordered(Outgoing) /\ Elements(Outgoing) = (1..count) \ lost
  BY OutInOrderSays DEF OutInv
<1>3. sent' \in Seq(Nat) /\ queue' \in Seq(Nat) /\ buffer' \in Seq(Nat)
  BY <1>1, ConcatProperties
<1>4. sent' \o buffer' = sent'
  BY <1>3, ConcatEmptySeq
<1>5. Outgoing' = sent' \o Tail(queue) /\ Outgoing = sent' \o queue
  BY <1>4 DEF Outgoing
<1>6. /\ Ordered(sent' \o Tail(queue))
      /\ Elements(sent' \o Tail(queue)) = Elements(sent' \o queue) \ {Head(queue)}
      /\ Head(queue) \in Elements(sent' \o queue)
      /\ queue[Len(queue)] \in Elements(sent' \o queue)
      /\ \A i \in DOMAIN sent' : sent'[i] < Head(queue)
      /\ Len(queue) > 1 => Head(queue) < queue[Len(queue)]
  BY <1>1, <1>2, <1>3, <1>5, Removed
<1>7. /\ Tail(queue) # <<>> => Bytes(Tail(queue)) - Size(Tail(queue)[Len(Tail(queue))]) < HighWaterMark
      /\ Full(Tail(queue)) => Len(queue) > 1 /\ Size(Head(queue)) < Size(queue[Len(queue)])
  BY <1>1, TailQueueInv DEF QueueInv
<1>8. QueueInv'
  BY <1>7 DEF QueueInv
<1>9. Head(queue) \in 1..count /\ queue[Len(queue)] \in 1..count
  BY <1>2, <1>5, <1>6
<1>10. Full(Tail(queue)) => \E q \in Head(queue) + 1..count : Size(Head(queue)) < Size(q)
  <2> SUFFICES ASSUME Full(Tail(queue)) PROVE queue[Len(queue)] \in Head(queue) + 1..count
    BY <1>7
  <2> QED
    BY <1>1, <1>6, <1>7, <1>9
<1> QED
  BY <1>2, <1>3, <1>5, <1>6, <1>8, <1>9, <1>10

\* The peer takes nothing of the queue's first packet, and the queue may lose it.
LEMMA QueueBlockedInOrder == OutInv /\ QueueBlocked => OutInv'
<1> SUFFICES ASSUME OutInv, QueueBlocked PROVE OutInv'
  OBVIOUS
<1>1. /\ buffer \in Seq(Nat) /\ queue \in Seq(Nat) /\ sent \in Seq(Nat) /\ count \in Nat
      /\ lost \subseteq 1..count
  BY DEF OutInv
<1>2. /\ queue # <<>> /\ sent' = sent \o buffer /\ buffer' = <<>>
      /\ failed = {} /\ failed' = {} /\ count' = count
  BY NothingFailed DEF QueueBlocked
<1>3. sent' \in Seq(Nat) /\ sent' \o buffer' = sent \o buffer /\ buffer' \in Seq(Nat)
  BY <1>1, <1>2, ConcatProperties, ConcatEmptySeq
<1>4. CASE Full(Tail(queue))
  <2>1. queue' = Tail(queue) /\ lost' = lost \cup {Head(queue)}
    BY <1>4 DEF QueueBlocked
  <2>2. /\ buffer' \in Seq(Nat) /\ queue' \in Seq(Nat) /\ sent' \in Seq(Nat)
        /\ Ordered(Outgoing')
        /\ Elements(Outgoing') = ((1..count) \ lost) \ {Head(queue)}
        /\ QueueInv'
        /\ Head(queue) \in 1..count
        /\ \E q \in Head(queue) + 1..count : Size(Head(queue)) < Size(q)
    BY <1>2, <1>4, <2>1, HeadLeaves
  <2>3. Elements(Outgoing') = (1..count') \ (lost' \cup failed')
    BY <1>2, <2>1, <2>2
  <2>4. \A p \in lost' : \E q \in p + 1..count' : Size(p) < Size(q)
    BY <1>2, <2>1, <2>2 DEF OutInv, OutInOrder
  <2>5. OutInOrder'
    BY <1>2, <2>2, <2>3, <2>4 DEF OutInOrder, Ordered, Elements
  <2> QED
    BY <1>1, <1>2, <2>1, <2>2, <2>5 DEF OutInv
<1>5. CASE ~Full(Tail(queue))
  <2>1. queue' = queue /\ lost' = lost
    BY <1>5 DEF QueueBlocked
  <2>2. Outgoing' = Outgoing
    BY <1>3, <2>1 DEF Outgoing
  <2>3. QueueInv'
    BY <2>1 DEF OutInv, QueueInv
  <2> QED
    BY <1>1, <1>2, <1>3, <2>1, <2>2, <2>3, SameInOrder
<1> QED
  BY <1>4, <1>5

\* A write fails: nothing leaves, or the buffer was sent and the queue's first packet is released.
LEMMA FailsInOrder == OutInv /\ OutputFails => OutInv'
<1> SUFFICES ASSUME OutInv, OutputFails PROVE OutInv'
  OBVIOUS
<1>1. failed = {} /\ count' = count /\ lost' = lost /\ count \in Nat /\ lost \subseteq 1..count
  BY NothingFailed DEF OutputFails, OutInv
<1>2. CASE UNCHANGED <<buffer, queue, sent, failed>>
  <2>1. Outgoing' = Outgoing /\ QueueInv'
    BY <1>2 DEF Outgoing, OutInv, QueueInv
  <2> QED
    BY <1>1, <1>2, <2>1, SameInOrder DEF OutInv
<1>3. CASE /\ queue # <<>> /\ sent' = sent \o buffer /\ buffer' = <<>> /\ queue' = Tail(queue)
           /\ failed' = failed \cup {Head(queue)}
  <2>1. /\ buffer' \in Seq(Nat) /\ queue' \in Seq(Nat) /\ sent' \in Seq(Nat)
        /\ Ordered(Outgoing')
        /\ Elements(Outgoing') = ((1..count) \ lost) \ {Head(queue)}
        /\ QueueInv'
        /\ Head(queue) \in 1..count
        /\ \A i \in DOMAIN sent' : sent'[i] < Head(queue)
    BY <1>1, <1>3, HeadLeaves
  <2>2. failed' = {Head(queue)}
    BY <1>1, <1>3
  <2>3. Ending'
    BY DEF OutputFails, Goes, Failed, Ending
  <2>4. Elements(Outgoing') = (1..count') \ (lost' \cup failed')
    BY <1>1, <2>1, <2>2
  <2>5. \A p \in lost' : \E q \in p + 1..count' : Size(p) < Size(q)
    BY <1>1 DEF OutInv, OutInOrder
  <2>6. OutInOrder'
    BY <2>1, <2>2, <2>3, <2>4, <2>5 DEF OutInOrder, Ordered, Elements
  <2> QED
    BY <1>1, <2>1, <2>2, <2>6 DEF OutInv
<1> QED
  BY <1>2, <1>3 DEF OutputFails

\* The whole buffer is written, and the first packet of the queue: the order is kept.
LEMMA SentInOrder == OutInv /\ OutputSent => OutInv'
<1> SUFFICES ASSUME OutInv, OutputSent PROVE OutInv'
  OBVIOUS
<1>1. buffer \in Seq(Nat) /\ queue \in Seq(Nat) /\ sent \in Seq(Nat) /\ QueueInv
  BY DEF OutInv
<1>2. buffer' = <<>> /\ UNCHANGED <<lost, failed, count>> /\ failed = {}
  BY NothingFailed DEF OutputSent
<1>3. sent \o buffer \in Seq(Nat)
  BY <1>1, ConcatProperties
<1>4. CASE sent' = sent \o buffer /\ queue' = queue
  <2>1. sent' \o buffer' = sent \o buffer
    BY <1>2, <1>3, <1>4, ConcatEmptySeq
  <2>2. Outgoing' = Outgoing
    BY <1>4, <2>1 DEF Outgoing
  <2>3. QueueInv'
    BY <1>1, <1>4 DEF QueueInv
  <2> QED
    BY <1>1, <1>2, <1>3, <1>4, <2>2, <2>3, SameInOrder
<1>5. CASE queue # <<>> /\ sent' = Append(sent \o buffer, Head(queue)) /\ queue' = Tail(queue)
  <2> DEFINE t == sent \o buffer
             h == Head(queue)
             r == Tail(queue)
  <2>1. h \in Nat /\ r \in Seq(Nat) /\ queue = <<h>> \o r
    BY <1>1, <1>5
  <2> HIDE DEF t, h, r
  <2>2. t \in Seq(Nat)
    BY <1>3 DEF t
  <2>3. Append(t, h) = t \o <<h>> /\ <<h>> \in Seq(Nat)
    BY <2>1, <2>2
  <2>4. (t \o <<h>>) \o r = t \o (<<h>> \o r)
    BY <2>1, <2>2, <2>3, Associative
  <2>5. sent' = t \o <<h>> /\ queue' = r
    BY <1>5, <2>3 DEF t, h, r
  <2>6. sent' \in Seq(Nat)
    BY <2>2, <2>3, <2>5, ConcatProperties
  <2>7. sent' \o buffer' = sent'
    BY <1>2, <2>6, ConcatEmptySeq
  <2>8. Outgoing' = Outgoing
    BY <2>1, <2>4, <2>5, <2>7 DEF t, Outgoing
  <2>9. QueueInv'
    BY <1>1, <1>5, TailQueueInv DEF QueueInv
  <2>10. buffer' \in Seq(Nat) /\ queue' \in Seq(Nat)
    BY <1>2, <2>1, <2>5
  <2> QED
    BY <1>2, <2>6, <2>8, <2>9, <2>10, SameInOrder
<1> QED
  BY <1>4, <1>5 DEF OutputSent

\* A socket that is being closed stays so.
LEMMA EndingKept == Ending /\ [Next]_vars => Ending'
<1> SUFFICES ASSUME Ending, [Next]_vars PROVE Ending'
  OBVIOUS
<1> USE DEF Ending, life, output, vars, Goes, Processed
<1>1. CASE Accept
  BY <1>1 DEF Accept, Open, AddSocket, Allocate, Greet, Register, CloseAccepted, ReleaseAccepted
<1>2. CASE Read
  BY <1>2 DEF Read, InputEnds, ProcessIncoming, Trace, HandleAuthSession, AddSession, EnableNagle, TakeSession,
              UseSession, SendPacket, PacketSent
<1>3. CASE Write
  BY <1>3 DEF Write, Update, OutputClosed, OutputFails, OutputBlocked, QueueBlocked, OutputSent
<1>4. CASE AddNewSockets \/ BeginUpdate \/ HandleInput \/ HandleOutput \/ HandleClose \/ CloseManaged
  BY <1>4 DEF AddNewSockets, BeginUpdate, HandleInput, HandleOutput, HandleClose, CloseManaged
<1>5. CASE World
  BY <1>5 DEF World, SessionSendPacket, KickPlayer, CloseSocket, Expire, Destroy
<1>6. CASE Done \/ UNCHANGED vars
  BY <1>6 DEF Done
<1> QED
  BY <1>1, <1>2, <1>3, <1>4, <1>5, <1>6 DEF Next, Network

\* Every other step leaves the packets alone.
LEMMA OthersInOrder ==
  OutInv /\ (Ending => Ending') /\ UNCHANGED <<buffer, queue, sent, lost, failed, count>> => OutInv'
<1> SUFFICES ASSUME OutInv, Ending => Ending', UNCHANGED <<buffer, queue, sent, lost, failed, count>> PROVE OutInv'
  OBVIOUS
<1>1. Outgoing' = Outgoing
  BY DEF Outgoing
<1>2. OutInOrder'
  BY <1>1 DEF OutInv, OutInOrder
<1> QED
  BY <1>2 DEF OutInv, QueueInv

\* Every step keeps OutInv.
LEMMA NextInOrder == OutInv /\ [Next]_vars => OutInv'
<1> SUFFICES ASSUME OutInv, [Next]_vars PROVE OutInv'
  OBVIOUS
<1> DEFINE Alone == UNCHANGED <<buffer, queue, sent, lost, failed, count>>
<1>0. Ending => Ending'
  BY EndingKept
<1>1. CASE (CanPut /\ Put) \/ OutputBlocked \/ QueueBlocked \/ OutputSent \/ OutputFails
  BY <1>0, <1>1, PutInOrder, BlockedInOrder, QueueBlockedInOrder, SentInOrder, FailsInOrder
<1> USE DEF life, output, vars
<1>2. ASSUME Accept PROVE (CanPut /\ Put) \/ Alone
  BY <1>2 DEF Accept, Open, AddSocket, Allocate, Greet, Register, CloseAccepted, ReleaseAccepted
<1>3. ASSUME Read PROVE (CanPut /\ Put) \/ Alone
  BY <1>3 DEF Read, InputEnds, ProcessIncoming, Trace, HandleAuthSession, AddSession, EnableNagle, TakeSession,
              UseSession, SendPacket, PacketSent
<1>4. ASSUME Write PROVE OutputBlocked \/ QueueBlocked \/ OutputSent \/ OutputFails \/ Alone
  BY <1>4 DEF Write, Update, OutputClosed
<1>5. ASSUME Network PROVE Read \/ Write \/ Alone
  BY <1>5 DEF Network, AddNewSockets, BeginUpdate, HandleInput, HandleOutput, HandleClose, CloseManaged
<1>6. ASSUME World PROVE (CanPut /\ Put) \/ Alone
  BY <1>6 DEF World, SessionSendPacket, KickPlayer, CloseSocket, Expire, Destroy
<1>7. ASSUME Done \/ UNCHANGED vars PROVE Alone
  BY <1>7 DEF Done
<1> QED
  BY <1>0, <1>1, <1>2, <1>3, <1>4, <1>5, <1>6, <1>7, OthersInOrder DEF Next

-----------------------------------------------------------------------------
\* The initial states satisfy OutInv.
LEMMA InitInOrder == Init => OutInv
<1> SUFFICES ASSUME Init PROVE OutInv
  OBVIOUS
<1>1. buffer = <<>> /\ queue = <<>> /\ sent = <<>> /\ count = 0 /\ lost = {} /\ failed = {}
  BY DEF Init
<1>2. Outgoing = <<>>
  BY <1>1 DEF Outgoing
<1>3. OutInOrder
  BY <1>1, <1>2 DEF OutInOrder
<1> QED
  BY <1>1, <1>3 DEF OutInv, QueueInv

\* The inductive invariant holds in every reachable state.
LEMMA Invariance == Spec => []IInv
<1>1. Init => IInv
  BY InitControl, InitInOrder DEF IInv
<1>2. IInv /\ [Next]_vars => IInv'
  BY NextControl, NextInOrder DEF IInv
<1> QED
  BY <1>1, <1>2, PTL DEF Spec

(***************************************************************************)
(* The reference count is exact: a socket with a holder is not deleted,    *)
(* one without holders has the count 0, and the network thread never works *)
(* on a socket that neither the reactor nor the manager holds.             *)
(***************************************************************************)
THEOREM ReferencesCounted == Spec => [](RefInv /\ (SocketTouched <=> refs > 0))
<1>1. IInv => RefInv /\ (SocketTouched <=> refs > 0)
  BY DEF IInv, Control, ControlTypes, RefInv, PlaceInv, Held, Reading, Writing, Dropping, SocketTouched
<1> QED
  BY <1>1, Invariance, PTL

(***************************************************************************)
(* Neither the socket nor its buffer is used outside its life, by any of   *)
(* the three threads.                                                      *)
(***************************************************************************)
THEOREM SocketAliveCorrect == Spec => []SocketAlive
<1>1. IInv => SocketAlive
  <2> SUFFICES ASSUME IInv PROVE SocketAlive
    OBVIOUS
  <2>1. SocketTouched => refs > 0
    BY DEF IInv, Control, ControlTypes, RefInv, PlaceInv, Held, Reading, Writing, Dropping, SocketTouched
  <2>2. BufferTouched => closing \/ allocated
    BY DEF IInv, Control, ControlTypes, PlaceInv, BufferInv, Reading, Writing, Dropping, BufferTouched
  <2> QED
    BY <2>1, <2>2 DEF SocketAlive
<1> QED
  BY <1>1, Invariance, PTL

(***************************************************************************)
(* ProcessIncoming, HandlePing and SendPacket do not use a deleted session *)
(* under their locks.                                                      *)
(***************************************************************************)
THEOREM LockedSessionCorrect == Spec => []LockedSessionAlive
<1>1. IInv => LockedSessionAlive
  BY DEF IInv, Control, ControlTypes, SessionInv, SessionLocked, OutBufferLocked, LockedSessionAlive
<1> QED
  BY <1>1, Invariance, PTL

(***************************************************************************)
(* The peer is sent the packets in the order of SendPacket, none twice;    *)
(* one is missing only when its write failed and the socket closes, or     *)
(* when a larger packet behind it left the queue too full to take it back. *)
(***************************************************************************)
THEOREM OutInOrderCorrect == Spec => []OutInOrder
<1>1. IInv => OutInOrder
  BY DEF IInv, OutInv
<1> QED
  BY <1>1, Invariance, PTL

=============================================================================
