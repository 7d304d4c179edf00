---------------------------- MODULE PacketQueue -----------------------------
(***************************************************************************)
(* The packets of one session: WorldSocket::ProcessIncoming puts them into *)
(* WorldSession::_recvQueue from a network thread, and the packet loop of  *)
(* WorldSession::Update takes them out, in World::UpdateSessions and in    *)
(* Map::Update, which never overlap.  A STATUS_LOGGEDIN packet that comes  *)
(* before its player is put back and handled later.                        *)
(*                                                                         *)
(* A packet is its heap object; addresses are not used again.  The race of *)
(* the two threads on the throttler's counters is in the model: the world  *)
(* thread reads a counter in Delay and writes it in Requeue.               *)
(***************************************************************************)
EXTENDS Integers, Sequences, FiniteSets, Functions

CONSTANTS
    Packets,     \* the packets of a run
    Opcodes,
    OpcodeOf,    \* WorldPacket::GetOpcode
    Status,      \* OpcodeHandler::Status
    Place,       \* OpcodeHandler::ProcessingPlace
    PerSecond,   \* opcodePerSecond; 0 for the 3.9 billion that memset leaves as the default
    CharEnum,    \* CMSG_CHAR_ENUM
    PlayerLogin, \* CMSG_PLAYER_LOGIN
    NoPacket     \* NULL

StatusSet == {"LOGGEDIN", "LOGGEDIN_OR_RECENTLY_LOGGOUT", "TRANSFER", "AUTHED", "NEVER"}

ASSUME PacketAssumption ==
    /\ IsFiniteSet(Packets) /\ NoPacket \notin Packets
    /\ OpcodeOf \in [Packets -> Opcodes]
    /\ Status \in [Opcodes -> StatusSet]
    /\ Place \in [Opcodes -> {"INPLACE", "THREADUNSAFE", "THREADSAFE"}]
    /\ PerSecond \in [Opcodes -> Nat]

VARIABLES
    socket,         \* m_Socket is open
    unsent,         \* the packets the client has not sent
    recvQueue,      \* WorldSession::_recvQueue
    heap,           \* the packets that are allocated
    count,          \* PacketThrottler::m_opcodes, in the present second
    player,         \* _player, and the login query before it
    recentlyLogout, \* m_playerRecentlyLogout
    inQueue,        \* m_inQueue
    pc,             \* where Update is
    place,          \* the filter of the present or last Update
    packet,         \* the packet of this turn of the loop
    firstDelayed,   \* firstDelayedPacket
    deletePacket,   \* the local deletePacket
    seen            \* the counter that MustDiscard has read for a packet put back

sessionVars == <<player, recentlyLogout, inQueue>>
loopVars    == <<pc, place, packet, firstDelayed, deletePacket, seen>>
netVars     == <<socket, unsent>>
vars        == <<netVars, recvQueue, heap, count, sessionVars, loopVars>>

Init ==
    /\ socket = TRUE
    /\ unsent = Packets
    /\ recvQueue = <<>>
    /\ heap = {}
    /\ count = [o \in Opcodes |-> 0]
    /\ player = "none"
    /\ recentlyLogout = FALSE
    /\ inQueue \in BOOLEAN
    /\ pc = "idle"
    /\ place = "world"
    /\ packet = NoPacket
    /\ firstDelayed = NoPacket
    /\ deletePacket = TRUE
    /\ seen = 0

NoPlayer == player \in {"none", "loading", "ready"}

-----------------------------------------------------------------------------
(* PacketThrottler::MustDiscard and WorldSession::QueuePacket *)

Bump(n) == n + 1

MustDiscard(o, n) == PerSecond[o] > 0 /\ Bump(n) > PerSecond[o]

(***************************************************************************)
(* p is thrown away when its opcode has used up this second, and queued    *)
(* otherwise; n is the counter as this thread read it.                     *)
(***************************************************************************)
QueuePacket(p, n) ==
    LET o == OpcodeOf[p]
    IN  /\ count' = IF PerSecond[o] > 0 THEN [count EXCEPT ![o] = Bump(n)] ELSE count
        /\ recvQueue' = IF MustDiscard(o, n) THEN recvQueue ELSE Append(recvQueue, p)
        /\ heap' = IF MustDiscard(o, n) THEN heap \ {p} ELSE heap \cup {p}

\* WorldSocket::ProcessIncoming on a network thread, with m_SessionLock.
Receive(p) ==
    /\ socket
    /\ pc # "deleted"
    /\ p \in unsent
    /\ unsent' = unsent \ {p}
    /\ QueuePacket(p, count[OpcodeOf[p]])
    /\ UNCHANGED <<socket, sessionVars, loopVars>>

\* The clock: an entry of another second starts again.
NewSecond ==
    /\ \E o \in Opcodes : count[o] > 0
    /\ count' = [o \in Opcodes |-> 0]
    /\ UNCHANGED <<netVars, recvQueue, heap, sessionVars, loopVars>>

LoseSocket ==
    /\ socket
    /\ socket' = FALSE
    /\ UNCHANGED <<unsent, recvQueue, heap, count, sessionVars, loopVars>>

-----------------------------------------------------------------------------
(* The loop of WorldSession::Update *)

\* UpdateSessions visits every session; Map::Update follows for a player in the world.
BeginUpdate(where) ==
    /\ pc = "idle"
    /\ where = "map" => place = "world" /\ player = "inworld"
    /\ place' = where
    /\ pc' = "loop"
    /\ firstDelayed' = NoPacket
    /\ deletePacket' = TRUE
    /\ UNCHANGED <<netVars, recvQueue, heap, count, sessionVars, packet, seen>>

\* WorldSessionFilter::Process and MapSessionFilter::Process.
Process(p) ==
    LET where == Place[OpcodeOf[p]]
    IN  \/ where = "INPLACE"
        \/ place = "world" /\ (where = "THREADUNSAFE" \/ player # "inworld")
        \/ place = "map" /\ where = "THREADSAFE" /\ player = "inworld"

\* Mutant: the filter looks for a packet it likes behind one it refuses.
Candidates_Any(q) == {k \in DOMAIN q : Process(q[k])}

\* LockedQueue::next with a filter looks at the front only.
Candidates(q) == {k \in DOMAIN q : k = 1 /\ Process(q[k])}

Without(q, k) == [i \in 1 .. Len(q) - 1 |-> IF i < k THEN q[i] ELSE q[i + 1]]

\* The condition of the loop.
Continues(q) == socket /\ q # <<>> /\ q[1] # firstDelayed /\ Candidates(q) # {}

NextPacket ==
    /\ pc = "loop"
    /\ Continues(recvQueue)
    /\ \E k \in Candidates(recvQueue) :
        /\ packet' = recvQueue[k]
        /\ recvQueue' = Without(recvQueue, k)
    /\ pc' = "dispatch"
    /\ UNCHANGED <<netVars, heap, count, sessionVars, place, firstDelayed, deletePacket, seen>>

\* Nothing is done with the packet but a line in the log.
Ignore ==
    /\ pc' = "done"
    /\ UNCHANGED <<netVars, recvQueue, heap, count, sessionVars, place, packet, firstDelayed, deletePacket, seen>>

\* A handler leaves the player p and the flag r behind it.
Handle(p, r) ==
    /\ player' = p
    /\ recentlyLogout' = r
    /\ pc' = "done"
    /\ UNCHANGED <<netVars, recvQueue, heap, count, inQueue, place, packet, firstDelayed, deletePacket, seen>>

\* Mutant: no packet is remembered as the first one put back.
MarkDelayed_Never == firstDelayed

MarkDelayed == IF firstDelayed = NoPacket THEN packet ELSE firstDelayed

\* Mutant: the loop deletes a packet it has put back.
KeepDelayed_Missing == deletePacket

KeepDelayed == FALSE

\* The packet came before its player: it goes to the back of the queue.
Delay ==
    /\ firstDelayed' = MarkDelayed
    /\ deletePacket' = KeepDelayed
    /\ seen' = count[OpcodeOf[packet]]
    /\ pc' = "requeue"
    /\ UNCHANGED <<netVars, recvQueue, heap, count, sessionVars, place, packet>>

\* Mutant: the player is not looked for before the packet is put back.
DispatchLoggedIn_Blind == (~recentlyLogout /\ Delay) \/ (recentlyLogout /\ Ignore)

\* In the world a handler may leave things as they are, teleport the player or, as
\* CMSG_LOGOUT_REQUEST is not thread-safe, in UpdateSessions log it out.
DispatchLoggedIn ==
    \/ NoPlayer /\ ~recentlyLogout /\ Delay
    \/ NoPlayer /\ recentlyLogout /\ Ignore
    \/ player = "transfer" /\ Ignore
    \/ player = "inworld" /\ \/ Handle("inworld", recentlyLogout)
                             \/ place = "world" /\ Handle("none", TRUE)
                             \/ Handle("transfer", recentlyLogout)

\* The handlers of these read and save cached data of the player.
DispatchRecently ==
    IF NoPlayer /\ ~recentlyLogout THEN Ignore ELSE Handle(player, recentlyLogout)

\* HandleMoveWorldportAckOpcode: the player arrives.
DispatchTransfer ==
    IF player = "transfer" THEN Handle("inworld", recentlyLogout) ELSE Ignore

DispatchAuthed ==
    \/ inQueue /\ Ignore
    \/ /\ ~inQueue
       /\ Handle(IF OpcodeOf[packet] = PlayerLogin /\ player = "none" THEN "loading" ELSE player,
                 recentlyLogout /\ OpcodeOf[packet] # CharEnum)

\* A handler that throws ByteBufferException has its packet skipped.
Dispatch ==
    /\ pc = "dispatch"
    /\ CASE Status[OpcodeOf[packet]] = "LOGGEDIN" -> DispatchLoggedIn
         [] Status[OpcodeOf[packet]] = "LOGGEDIN_OR_RECENTLY_LOGGOUT" -> DispatchRecently
         [] Status[OpcodeOf[packet]] = "TRANSFER" -> DispatchTransfer
         [] Status[OpcodeOf[packet]] = "AUTHED" -> DispatchAuthed
         [] Status[OpcodeOf[packet]] = "NEVER" -> Ignore

Requeue ==
    /\ pc = "requeue"
    /\ QueuePacket(packet, seen)
    /\ pc' = "done"
    /\ UNCHANGED <<netVars, sessionVars, place, packet, firstDelayed, deletePacket, seen>>

EndTurn ==
    /\ pc = "done"
    /\ heap' = IF deletePacket THEN heap \ {packet} ELSE heap
    /\ packet' = NoPacket
    /\ pc' = "loop"
    /\ UNCHANGED <<netVars, recvQueue, count, sessionVars, place, firstDelayed, deletePacket, seen>>

(***************************************************************************)
(* The loop ends, and ProcessQueryCallbacks applies a login query that has *)
(* been answered: the player enters the world, or is kicked.               *)
(***************************************************************************)
EndUpdate ==
    /\ pc = "loop"
    /\ ~Continues(recvQueue)
    /\ pc' = "idle"
    /\ \/ player # "ready" /\ UNCHANGED <<player, socket>>
       \/ player = "ready" /\ player' = "inworld" /\ UNCHANGED socket
       \/ player = "ready" /\ player' = "none" /\ socket' = FALSE
    /\ UNCHANGED <<unsent, recvQueue, heap, count, recentlyLogout, inQueue, place, packet, firstDelayed,
                   deletePacket, seen>>

\* The character database answers the login query.
QueryAnswers ==
    /\ player = "loading"
    /\ player' = "ready"
    /\ UNCHANGED <<netVars, recvQueue, heap, count, recentlyLogout, inQueue, loopVars>>

\* World::RemoveQueuedPlayer lets the client in.
LeaveQueue ==
    /\ pc = "idle"
    /\ inQueue
    /\ inQueue' = FALSE
    /\ UNCHANGED <<netVars, recvQueue, heap, count, player, recentlyLogout, loopVars>>

\* WorldSession::~WorldSession empties the queue.
Destroy ==
    /\ pc = "idle"
    /\ ~socket
    /\ pc' = "deleted"
    /\ heap' = heap \ Range(recvQueue)
    /\ recvQueue' = <<>>
    /\ player' = "none"
    /\ UNCHANGED <<netVars, count, recentlyLogout, inQueue, place, packet, firstDelayed, deletePacket, seen>>

Deleted == pc = "deleted" /\ UNCHANGED vars

-----------------------------------------------------------------------------
UpdateStep ==
    \/ \E where \in {"world", "map"} : BeginUpdate(where)
    \/ NextPacket \/ Dispatch \/ Requeue \/ EndTurn \/ EndUpdate

Next ==
    \/ UpdateStep
    \/ \E p \in Packets : Receive(p)
    \/ NewSecond
    \/ LoseSocket
    \/ QueryAnswers
    \/ LeaveQueue
    \/ Destroy
    \/ Deleted

Spec == Init /\ [][Next]_vars

\* The world thread goes on and updates the maps again and again; the database worker answers.
FairSpec ==
    /\ Spec
    /\ WF_vars(UpdateStep)
    /\ SF_vars(BeginUpdate("map"))
    /\ WF_vars(QueryAnswers)

-----------------------------------------------------------------------------
(***************************************************************************)
(* The queue never holds a deleted packet, or a packet twice, although the *)
(* loop deletes what it handles and puts back what came too early.         *)
(***************************************************************************)
QueueAlive ==
    /\ Range(recvQueue) \subseteq heap
    /\ \A j, k \in DOMAIN recvQueue : recvQueue[j] = recvQueue[k] => j = k
    /\ pc = "dispatch" => packet \in heap \ Range(recvQueue)

\* Only STATUS_LOGGEDIN packets are put back.
Undelayed(p) == Status[OpcodeOf[p]] # "LOGGEDIN"

(***************************************************************************)
(* Two packets that are never put back leave the queue in the order they   *)
(* came in, although the two Updates take different kinds of packets and   *)
(* others move to the back.                                                *)
(***************************************************************************)
UndelayedInOrder ==
    [][\A j, k \in DOMAIN recvQueue :
        /\ j < k
        /\ Undelayed(recvQueue[j])
        /\ Undelayed(recvQueue[k])
        /\ recvQueue[j] \in Range(recvQueue')
        => recvQueue[k] \in Range(recvQueue')]_recvQueue

(***************************************************************************)
(* "we stop updating this session and continue updating others": the loop  *)
(* of an Update ends, although it puts packets back into its own queue.    *)
(***************************************************************************)
UpdateEnds == pc = "loop" ~> pc \in {"idle", "deleted"}

\* The packet is in the queue, or the loop has it in its hands and has neither handled nor ignored it.
Waiting(p) == p \in Range(recvQueue) \/ (packet = p /\ pc \in {"dispatch", "requeue"})

(***************************************************************************)
(* "We will re-add the packets to the bottom of the queue and process them *)
(* later": once its client has asked to log in, a packet that comes before *)
(* its player is given to its handler, or ignored with a line in the log,  *)
(* and is not taken and put back for ever, unless the connection breaks or *)
(* the player logs out again first.                                        *)
(***************************************************************************)
DelayedHandled ==
    \A p \in {p \in Packets : ~Undelayed(p)} :
        (Waiting(p) /\ player = "loading") ~> (~Waiting(p) \/ ~socket \/ player = "none")

=============================================================================
