----------------------------- MODULE WorldSocket ----------------------------
(***************************************************************************)
(* One WorldSocket from the acceptor to the release of its last reference  *)
(* (WorldSocket.cpp, WorldSocketMgr.cpp), and the ends of WorldSession     *)
(* that touch it.  Three threads share it:                                 *)
(*   - the acceptor thread, which runs open;                               *)
(*   - the network thread (ReactorRunnable::svc), which runs the reactor's *)
(*     handle_input and handle_output and calls Update on its sockets;     *)
(*   - the world thread and the map threads it waits for, which send       *)
(*     packets, kick, and delete the session.                              *)
(*                                                                         *)
(* A step ends where another thread can come between.  Only the network    *)
(* thread keeps a lock over more than one step, so a lock is taken when    *)
(* its program counter says so.  Outgoing packets are known by their       *)
(* number.  ACE's reactor and the TCP connection are external: the reactor *)
(* calls handle_close when a handler returns -1, and holds a reference to  *)
(* a registered handler.                                                   *)
(***************************************************************************)
EXTENDS Naturals, Sequences, FiniteSets

CONSTANTS
    Large,         \* the numbers of the packets of LargeSize bytes; the others count as one byte
    LargeSize,
    BufferSize,    \* m_OutBufferSize
    HighWaterMark, \* of the message queue
    MaxPackets     \* bound: packets that are sent

ASSUME SocketAssumption ==
    /\ Large \subseteq Nat
    /\ LargeSize \in Nat \ {0}
    /\ BufferSize \in Nat \ {0}
    /\ HighWaterMark \in Nat \ {0}
    /\ MaxPackets \in Nat

VARIABLES
    acceptor,   \* where the acceptor thread is in open
    net,        \* where the network thread is
    caller,     \* who called the handler net is in: the "reactor" or the "manager"
    world,      \* where the world thread is in CloseSocket, or "idle"
    refs,       \* the reference count; the socket is deleted at 0
    closing,    \* closing_
    m_Session,  \* the pointer is set
    session,    \* the WorldSession: "none", "new", "added" to the world, "dying" in its destructor, "deleted"
    registered, \* the reactor has the handler
    managed,    \* the socket is in m_NewSockets ("new"), in m_Sockets ("in") or neither ("no")
    outActive,  \* m_OutActive
    writeMask,  \* the reactor asks for WRITE_MASK
    allocated,  \* m_OutBuffer is not NULL
    buffer,     \* the packets in m_OutBuffer
    queue,      \* the packets in the message queue
    sent,       \* the packets the peer has been sent
    lost,       \* packets the queue did not take back
    failed,     \* packets released because their write failed
    count       \* packets SendPacket has taken

life   == <<refs, registered, managed>>
output == <<outActive, writeMask, buffer, queue, sent, lost, failed, count>>
vars   == <<acceptor, net, caller, world, life, closing, m_Session, session, allocated, output>>

Init ==
    /\ acceptor = "open"
    /\ net = "loop"
    /\ caller = "reactor"
    /\ world = "idle"
    /\ refs = 1
    /\ closing = FALSE
    /\ m_Session = FALSE
    /\ session = "none"
    /\ registered = FALSE
    /\ managed = "no"
    /\ outActive = FALSE
    /\ writeMask = FALSE
    /\ allocated = FALSE
    /\ buffer = <<>>
    /\ queue = <<>>
    /\ sent = <<>>
    /\ lost = {}
    /\ failed = {}
    /\ count = 0

-----------------------------------------------------------------------------
\* The network thread holds m_OutBufferLock in SendPacket, m_SessionLock in ProcessIncoming and HandlePing.
OutBufferLocked == net = "sending"
SessionLocked   == net \in {"queueing", "latency"}

Size(p) == IF p \in Large THEN LargeSize ELSE 1

\* cur_bytes_ of a queue of these packets, or what they take of m_OutBuffer.
Bytes(packets) == Len(packets) + (LargeSize - 1) * Cardinality({n \in DOMAIN packets : packets[n] \in Large})

\* ACE's queue is full from its mark on: the last block may go over it.
Full(packets) == Bytes(packets) >= HighWaterMark

\* Mutant: the queue is not looked at.
IntoBuffer_Room == Bytes(buffer) + Size(count + 1) <= BufferSize

\* SendPacket puts a packet into the buffer while there is room and nothing waits in the queue.
IntoBuffer == Bytes(buffer) + Size(count + 1) <= BufferSize /\ queue = <<>>

CanPut == IntoBuffer \/ ~Full(queue)

Put ==
    /\ count' = count + 1
    /\ IF IntoBuffer THEN buffer' = Append(buffer, count') /\ UNCHANGED queue
                     ELSE queue' = Append(queue, count') /\ UNCHANGED buffer
    /\ UNCHANGED <<outActive, writeMask, sent, lost, failed>>

-----------------------------------------------------------------------------
(***************************************************************************)
(* The acceptor thread: open, and close when open fails.                   *)
(***************************************************************************)
\* m_OutActive is set before the network thread can see the socket.
Open ==
    /\ acceptor = "open"
    /\ outActive' = TRUE
    /\ acceptor' \in {"add", "close"}
    /\ UNCHANGED <<net, caller, world, life, closing, m_Session, session, allocated, writeMask, buffer, queue, sent, lost, failed, count>>

\* Mutant: the manager takes no reference.
AddSocket_NoReference ==
    /\ acceptor = "add"
    /\ managed' = "new"
    /\ acceptor' = "allocate"
    /\ UNCHANGED <<net, caller, world, refs, registered, closing, m_Session, session, allocated, output>>

\* WorldSocketMgr::OnSocketOpen, ReactorRunnable::AddSocket
AddSocket ==
    /\ acceptor = "add"
    /\ managed' = "new"
    /\ refs' = refs + 1
    /\ acceptor' = "allocate"
    /\ UNCHANGED <<net, caller, world, registered, closing, m_Session, session, allocated, output>>

\* The buffer, then the peer's address and m_forceCloseTime: both may fail.
Allocate ==
    /\ acceptor = "allocate"
    /\ allocated' \in BOOLEAN
    /\ acceptor' \in (IF allocated' THEN {"greet", "close"} ELSE {"close"})
    /\ UNCHANGED <<net, caller, world, life, closing, m_Session, session, output>>

\* The first packet.
Greet ==
    /\ acceptor = "greet"
    /\ ~OutBufferLocked
    /\ IF ~closing /\ CanPut
       THEN Put /\ acceptor' = "register"
       ELSE acceptor' = "close" /\ UNCHANGED output
    /\ UNCHANGED <<net, caller, world, life, closing, m_Session, session, allocated>>

\* Mutant: the handler is registered for READ_MASK only.
Register_ReadOnly ==
    /\ acceptor = "register"
    /\ registered' = TRUE
    /\ refs' = refs + 1
    /\ acceptor' = "release"
    /\ UNCHANGED <<net, caller, world, managed, closing, m_Session, session, allocated, output>>

Register ==
    /\ acceptor = "register"
    /\ \/ registered' = TRUE /\ writeMask' = TRUE /\ refs' = refs + 1 /\ acceptor' = "release"
       \/ acceptor' = "close" /\ UNCHANGED <<registered, writeMask, refs>>
    /\ UNCHANGED <<net, caller, world, managed, closing, m_Session, session, allocated,
                   outActive, buffer, queue, sent, lost, failed, count>>

\* close, which takes no lock.
CloseAccepted ==
    /\ acceptor = "close"
    /\ closing' = TRUE
    /\ acceptor' = "release"
    /\ UNCHANGED <<net, caller, world, life, m_Session, session, allocated, output>>

ReleaseAccepted ==
    /\ acceptor = "release"
    /\ refs' = refs - 1
    /\ acceptor' = "done"
    /\ UNCHANGED <<net, caller, world, registered, managed, closing, m_Session, session, allocated, output>>

-----------------------------------------------------------------------------
(***************************************************************************)
(* The network thread: ReactorRunnable::svc.                               *)
(***************************************************************************)
Goes(place) ==
    /\ net' = place
    /\ UNCHANGED <<acceptor, world>>

\* A handler returns 0, or -1 to the reactor, which calls handle_close, or to svc, which calls CloseSocket.
Failed == IF caller = "reactor" THEN "handle_close" ELSE "CloseSocket"

\* Mutant: a socket that is closed already is dropped with its reference.
AddNewSockets_Dropped ==
    /\ net = "loop"
    /\ managed = "new"
    /\ managed' = (IF closing THEN "no" ELSE "in")
    /\ UNCHANGED <<acceptor, net, caller, world, refs, registered, closing, m_Session, session, allocated, output>>

AddNewSockets ==
    /\ net = "loop"
    /\ managed = "new"
    /\ IF closing THEN managed' = "no" /\ refs' = refs - 1
                  ELSE managed' = "in" /\ UNCHANGED refs
    /\ UNCHANGED <<acceptor, net, caller, world, registered, closing, m_Session, session, allocated, output>>

\* svc calls Update on the socket.
BeginUpdate ==
    /\ net = "loop"
    /\ managed = "in"
    /\ Goes("Update")
    /\ caller' = "manager"
    /\ UNCHANGED <<life, closing, m_Session, session, allocated, output>>

\* The reactor calls handle_input or handle_output.
HandleInput ==
    /\ net = "loop"
    /\ registered
    /\ Goes("handle_input")
    /\ caller' = "reactor"
    /\ UNCHANGED <<life, closing, m_Session, session, allocated, output>>

HandleOutput ==
    /\ net = "loop"
    /\ registered
    /\ writeMask
    /\ Goes("handle_output")
    /\ caller' = "reactor"
    /\ UNCHANGED <<life, closing, m_Session, session, allocated, output>>

\* Nothing more to read, or the peer has closed.
InputEnds ==
    /\ net = "handle_input"
    /\ \/ ~closing /\ Goes("Update")
       \/ Goes("handle_close")
    /\ UNCHANGED <<caller, life, closing, m_Session, session, allocated, output>>

\* A packet is dealt with: there is another one in what was read, or Update follows.
Processed ==
    /\ net' \in {"handle_input", "Update"}
    /\ UNCHANGED <<acceptor, world>>

\* A packet has come: ProcessIncoming looks at closing_ without a lock.
ProcessIncoming ==
    /\ net = "handle_input"
    /\ ~closing
    /\ Goes("trace")
    /\ UNCHANGED <<caller, life, closing, m_Session, session, allocated, output>>

(***************************************************************************)
(* The log line with the name of the session's player, then the switch:    *)
(* packets with nothing more to do, an unreadable one, the client's        *)
(* greeting (answered by HandleSendAuthSession), and the cases below.      *)
(***************************************************************************)
Trace ==
    /\ net = "trace"
    /\ \/ Processed
       \/ Goes("handle_close")
       \/ count < MaxPackets /\ Goes("SendPacket")
       \/ count < MaxPackets /\ Goes("CMSG_PING")
       \/ \E opcode \in {"CMSG_AUTH_SESSION", "CMSG_ENABLE_NAGLE", "default"} : Goes(opcode)
    /\ UNCHANGED <<caller, life, closing, m_Session, session, allocated, output>>

(***************************************************************************)
(* HandleAuthSession: refused, with a packet that says why unless there is *)
(* a session, or a session with a reference of its own.  Bound: one        *)
(* session for a socket.                                                   *)
(***************************************************************************)
HandleAuthSession ==
    /\ net = "CMSG_AUTH_SESSION"
    /\ \/ /\ \/ UNCHANGED output
             \/ ~m_Session /\ ~closing /\ CanPut /\ count < MaxPackets /\ Put
          /\ Goes("handle_close")
          /\ UNCHANGED <<refs, m_Session, session>>
       \/ /\ ~m_Session
          /\ session = "none"
          /\ m_Session' = TRUE
          /\ session' = "new"
          /\ refs' = refs + 1
          /\ Goes("AddSession")
          /\ UNCHANGED output
    /\ UNCHANGED <<caller, registered, managed, closing, allocated>>

AddSession ==
    /\ net = "AddSession"
    /\ session' = "added"
    /\ Processed
    /\ UNCHANGED <<caller, life, closing, m_Session, allocated, output>>

\* m_Session is asked for and used without a lock.
EnableNagle ==
    /\ \/ net = "CMSG_ENABLE_NAGLE" /\ Goes(IF m_Session THEN "nagle" ELSE "handle_close")
       \/ net = "nagle" /\ (Processed \/ Goes("handle_close"))
    /\ UNCHANGED <<caller, life, closing, m_Session, session, allocated, output>>

\* m_SessionLock is taken and m_Session asked for; a ping that comes too soon after the last is refused.
TakeSession ==
    /\ \/ net \in {"CMSG_PING", "default"} /\ ~m_Session /\ Goes("handle_close")
       \/ net = "CMSG_PING" /\ m_Session /\ (Goes("latency") \/ Goes("handle_close"))
       \/ net = "default" /\ m_Session /\ Goes("queueing")
    /\ UNCHANGED <<caller, life, closing, m_Session, session, allocated, output>>

\* QueuePacket, or SetLatency, under m_SessionLock.
UseSession ==
    /\ \/ net = "queueing" /\ Processed
       \/ net = "latency" /\ Goes("SendPacket")
    /\ UNCHANGED <<caller, life, closing, m_Session, session, allocated, output>>

\* SendPacket takes m_OutBufferLock.
SendPacket ==
    /\ net = "SendPacket"
    /\ IF closing THEN Goes("handle_close") ELSE Goes("sending")
    /\ UNCHANGED <<caller, life, closing, m_Session, session, allocated, output>>

\* The session's stream and its player's name are used if there is a session, and the packet is put.
PacketSent ==
    /\ net = "sending"
    /\ IF CanPut THEN Put /\ Processed ELSE Goes("handle_close") /\ UNCHANGED output
    /\ UNCHANGED <<caller, life, closing, m_Session, session, allocated>>

\* m_forceCloseTime is set and may be over: nobody has authenticated in time.
MayForceClose == allocated /\ acceptor \notin {"allocate", "close"} /\ session = "none"

\* Update returns -1 (the socket is closing, or too old), 0, or calls handle_output.
Update ==
    /\ net = "Update"
    /\ \/ closing /\ Goes(Failed)
       \/ ~closing /\ MayForceClose /\ Goes(Failed)
       \/ ~closing /\ Goes(IF outActive \/ (buffer = <<>> /\ queue = <<>>) THEN "loop" ELSE "handle_output")
    /\ UNCHANGED <<caller, life, closing, m_Session, session, allocated, output>>

(***************************************************************************)
(* handle_output and handle_output_queue, under m_OutBufferLock: the       *)
(* buffer goes out first, then one packet of the queue at a time; what the *)
(* peer does not take waits for the reactor.                               *)
(***************************************************************************)
OutputClosed ==
    /\ net = "handle_output"
    /\ closing
    /\ Goes(Failed)
    /\ UNCHANGED <<caller, life, closing, m_Session, session, allocated, output>>

(***************************************************************************)
(* The write of the buffer fails; or the buffer goes out and the write of  *)
(* the queue's first packet fails, or is a partial one after which the     *)
(* queue is too full to take the rest back: the packet is released.        *)
(***************************************************************************)
OutputFails ==
    /\ net = "handle_output"
    /\ ~closing
    /\ \/ buffer # <<>> /\ UNCHANGED <<buffer, queue, sent, failed>>
       \/ /\ queue # <<>>
          /\ sent' = sent \o buffer
          /\ buffer' = <<>>
          /\ queue' = Tail(queue)
          /\ failed' = failed \cup {Head(queue)}
    /\ Goes(Failed)
    /\ UNCHANGED <<caller, life, closing, m_Session, session, allocated, outActive, writeMask, lost, count>>

\* The peer takes the first n packets of the buffer, and possibly a part of the next, but not all.
OutputBlocked ==
    /\ net = "handle_output"
    /\ ~closing
    /\ buffer # <<>>
    /\ \E n \in 0..Len(buffer) - 1 :
        /\ sent' = sent \o SubSeq(buffer, 1, n)
        /\ buffer' = SubSeq(buffer, n + 1, Len(buffer))
    /\ outActive' = TRUE
    /\ writeMask' = TRUE
    /\ Goes("loop")
    /\ UNCHANGED <<caller, life, closing, m_Session, session, allocated, queue, lost, failed, count>>

(***************************************************************************)
(* The peer takes the whole buffer, and nothing of the queue's first       *)
(* packet, or no more than a part of it: what is left is put back.  When   *)
(* nothing of it was taken, the result of enqueue_head is not looked at,   *)
(* and a queue that is still full without the packet loses it.             *)
(***************************************************************************)
QueueBlocked ==
    /\ net = "handle_output"
    /\ ~closing
    /\ queue # <<>>
    /\ IF Full(Tail(queue)) THEN queue' = Tail(queue) /\ lost' = lost \cup {Head(queue)}
                            ELSE UNCHANGED <<queue, lost>>
    /\ sent' = sent \o buffer
    /\ buffer' = <<>>
    /\ outActive' = TRUE
    /\ writeMask' = TRUE
    /\ Goes("loop")
    /\ UNCHANGED <<caller, life, closing, m_Session, session, allocated, failed, count>>

\* The peer takes the whole buffer and the first packet of the queue, if any; with more in the queue, once again.
OutputSent ==
    /\ net = "handle_output"
    /\ ~closing
    /\ buffer' = <<>>
    /\ IF queue = <<>> THEN sent' = sent \o buffer /\ UNCHANGED queue
                       ELSE sent' = Append(sent \o buffer, Head(queue)) /\ queue' = Tail(queue)
    /\ outActive' = (queue' # <<>> /\ outActive)
    /\ writeMask' = (queue' # <<>> /\ writeMask)
    /\ Goes(IF queue' = <<>> THEN "loop" ELSE "handle_output")
    /\ UNCHANGED <<caller, life, closing, m_Session, session, allocated, lost, failed, count>>

\* handle_close: closing_ under one lock, m_Session under the other, and out of the reactor.
HandleClose ==
    /\ \/ net = "handle_close" /\ closing' = TRUE /\ Goes("forget") /\ UNCHANGED <<refs, registered, m_Session>>
       \/ net = "forget" /\ m_Session' = FALSE /\ Goes("remove_handler") /\ UNCHANGED <<refs, registered, closing>>
       \/ net = "remove_handler" /\ registered' = FALSE /\ refs' = refs - 1 /\ Goes("loop") /\ UNCHANGED <<closing, m_Session>>
    /\ UNCHANGED <<caller, managed, session, allocated, output>>

\* CloseSocket, and svc's own reference.
CloseManaged ==
    /\ \/ /\ net = "CloseSocket"
          /\ closing' = TRUE
          /\ Goes(IF closing THEN "erase" ELSE "clear")
          /\ UNCHANGED <<refs, managed, m_Session>>
       \/ /\ net = "clear"
          /\ m_Session' = FALSE
          /\ Goes("erase")
          /\ UNCHANGED <<refs, managed, closing>>
       \/ /\ net = "erase"
          /\ managed' = "no"
          /\ refs' = refs - 1
          /\ Goes("loop")
          /\ UNCHANGED <<closing, m_Session>>
    /\ UNCHANGED <<caller, registered, session, allocated, output>>

-----------------------------------------------------------------------------
(***************************************************************************)
(* The world thread: WorldSession's ends of the socket.                    *)
(***************************************************************************)
\* WorldSession::SendPacket; the socket is closed when the packet cannot be put.  Bound: MaxPackets.
SessionSendPacket ==
    /\ world = "idle"
    /\ session = "added"
    /\ ~OutBufferLocked
    /\ count < MaxPackets
    /\ IF ~closing /\ CanPut
       THEN Put /\ UNCHANGED world
       ELSE world' = "CloseSocket" /\ UNCHANGED output
    /\ UNCHANGED <<acceptor, net, caller, life, closing, m_Session, session, allocated>>

KickPlayer ==
    /\ world = "idle"
    /\ session = "added"
    /\ world' = "CloseSocket"
    /\ UNCHANGED <<acceptor, net, caller, life, closing, m_Session, session, allocated, output>>

\* Mutant: CloseSocket does not clear m_Session.
CloseSocket_NoClear ==
    /\ world = "CloseSocket"
    /\ ~OutBufferLocked
    /\ closing' = TRUE
    /\ world' = "idle"
    /\ UNCHANGED <<acceptor, net, caller, life, m_Session, session, allocated, output>>

\* CloseSocket: it returns at once when the socket is closing already.
CloseSocket ==
    /\ \/ /\ world = "CloseSocket"
          /\ ~OutBufferLocked
          /\ closing' = TRUE
          /\ world' = (IF closing THEN "idle" ELSE "clear")
          /\ UNCHANGED m_Session
       \/ /\ world = "clear"
          /\ ~SessionLocked
          /\ m_Session' = FALSE
          /\ world' = "idle"
          /\ UNCHANGED closing
    /\ UNCHANGED <<acceptor, net, caller, life, session, allocated, output>>

\* WorldSession::Update: the socket is lost and the time is up, so the session is deleted.
Expire ==
    /\ world = "idle"
    /\ session = "added"
    /\ closing
    /\ refs' = refs - 1
    /\ session' = "deleted"
    /\ UNCHANGED <<acceptor, net, caller, world, registered, managed, closing, m_Session, allocated, output>>

\* ~WorldSession of a session that still has its socket (another login, or the end of the server).
Destroy ==
    /\ world = "idle"
    /\ \/ session = "added" /\ session' = "dying" /\ world' = "CloseSocket" /\ UNCHANGED refs
       \/ session = "dying" /\ session' = "deleted" /\ refs' = refs - 1 /\ UNCHANGED world
    /\ UNCHANGED <<acceptor, net, caller, registered, managed, closing, m_Session, allocated, output>>

-----------------------------------------------------------------------------
Accept  == Open \/ AddSocket \/ Allocate \/ Greet \/ Register \/ CloseAccepted \/ ReleaseAccepted
Read    == InputEnds \/ ProcessIncoming \/ Trace \/ HandleAuthSession \/ AddSession \/ EnableNagle
           \/ TakeSession \/ UseSession \/ SendPacket \/ PacketSent
Write   == Update \/ OutputClosed \/ OutputFails \/ OutputBlocked \/ QueueBlocked \/ OutputSent
Network == AddNewSockets \/ BeginUpdate \/ HandleInput \/ HandleOutput \/ Read \/ Write \/ HandleClose \/ CloseManaged
World   == SessionSendPacket \/ KickPlayer \/ CloseSocket \/ Expire \/ Destroy

\* Nobody has the socket any more.
Done ==
    /\ acceptor = "done"
    /\ net = "loop"
    /\ world = "idle"
    /\ ~registered
    /\ managed = "no"
    /\ session \in {"none", "deleted"}
    /\ UNCHANGED vars

Next == Accept \/ Network \/ World \/ Done

Spec == Init /\ [][Next]_vars

(***************************************************************************)
(* The threads run on; svc comes to every socket, the world thread to      *)
(* every session.  Of the peer: it reads what it is sent, it does not fill *)
(* every read, and it closes its side when the server has closed.          *)
(***************************************************************************)
Fairness ==
    /\ WF_vars(Accept)
    /\ WF_vars(net # "loop" /\ Network)
    /\ SF_vars(AddNewSockets)
    /\ SF_vars(BeginUpdate)
    /\ SF_vars(HandleOutput)
    /\ SF_vars(OutputSent)
    /\ SF_vars(InputEnds)
    /\ SF_vars(closing /\ HandleInput)
    /\ WF_vars(CloseSocket)
    /\ SF_vars(Expire)
    /\ WF_vars(session = "dying" /\ Destroy)

FairSpec == Spec /\ Fairness

-----------------------------------------------------------------------------
(***************************************************************************)
(* No thread touches the socket after the last reference is gone, and      *)
(* m_OutBuffer is not used before the acceptor has allocated it although   *)
(* the network thread updates the socket from AddSocket on.                *)
(***************************************************************************)
SocketTouched ==
    \/ acceptor # "done"
    \/ registered \/ managed # "no" \/ net # "loop"
    \/ session \in {"new", "added", "dying"}

BufferTouched ==
    \/ acceptor = "greet"
    \/ net \in {"handle_output", "sending"}
    \/ net = "Update" /\ ~closing /\ ~outActive

SocketAlive ==
    /\ SocketTouched => refs > 0
    /\ BufferTouched => closing \/ allocated

(***************************************************************************)
(* Under either of its locks the socket never uses a session that has been *)
(* deleted: CloseSocket, handle_close and the destructor, which run on two *)
(* threads and take the locks one after the other, leave no moment for it. *)
(***************************************************************************)
LockedSessionAlive ==
    /\ SessionLocked => session \in {"added", "dying"}
    /\ OutBufferLocked /\ m_Session => session \in {"added", "dying"}

(***************************************************************************)
(* What the peer has been sent, what is buffered and what is queued is     *)
(* together what SendPacket took, in its order and none twice, however it  *)
(* went through the buffer, the queue and partial writes, with two         *)
(* exceptions: a packet whose write failed, after which nothing is sent    *)
(* and the socket closes, and a packet the full queue did not take back,   *)
(* which a larger packet that waited behind it has driven out.             *)
(***************************************************************************)
Outgoing == sent \o buffer \o queue

Ending == closing \/ net \in {"handle_close", "CloseSocket"}

OutInOrder ==
    /\ \A i, j \in DOMAIN Outgoing : i < j => Outgoing[i] < Outgoing[j]
    /\ {Outgoing[i] : i \in DOMAIN Outgoing} = (1..count) \ (lost \cup failed)
    /\ \A p \in failed : Ending /\ \A i \in DOMAIN sent : sent[i] < p
    /\ \A p \in lost : \E q \in p + 1..count : Size(p) < Size(q)

(***************************************************************************)
(* A packet SendPacket has taken is sent, or the socket closes: it is not  *)
(* forgotten between the wakeup of the reactor and Update.                 *)
(***************************************************************************)
OutputDrains == buffer \o queue # <<>> ~> closing \/ buffer \o queue = <<>>

(***************************************************************************)
(* A closed socket is released by everyone who holds it, and deleted.      *)
(***************************************************************************)
SocketFreed == closing ~> refs = 0

=============================================================================
