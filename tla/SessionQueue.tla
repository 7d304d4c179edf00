---------------------------- MODULE SessionQueue ----------------------------
(***************************************************************************)
(* The sessions of the world server: World::AddSession_, the login queue   *)
(* m_QueuedPlayer with its player limit, the session part of               *)
(* World::UpdateSessions, the login of a character, kicks, the loss of a   *)
(* socket and the shutdown in WorldRunnable::run (game/World, game/Server, *)
(* game/Handlers, worldserver/WorldThread).                                *)
(*                                                                         *)
(* The world thread owns every structure here.  Network threads construct  *)
(* sessions, hand them over through addSessQueue, and lose sockets at any  *)
(* time.  A session object is constructed once: Sessions bounds how often  *)
(* an account connects.                                                    *)
(***************************************************************************)
EXTENDS Integers, Sequences, FiniteSets

CONSTANTS
    Accounts,    \* the accounts that connect
    Staff,       \* the accounts with a security level above SEC_PLAYER
    Sessions,    \* the WorldSession objects of a run
    AccountOf,   \* WorldSession::_accountId
    Players,     \* bound: the sessions whose client sends more than its authentication
    Kickable,    \* bound: the sessions that are kicked
    NoSession,   \* m_sessions has no entry
    Limits,      \* the player limits the configuration and .server plimit set
    Tolerance,   \* CONFIG_INTERVAL_DISCONNECT_TOLERANCE is not zero
    ExpireTime,  \* the life of a session after its socket, in units of a tick
    MaxDiff      \* the longest tick

ASSUME SessionAssumption ==
    /\ IsFiniteSet(Sessions)
    /\ AccountOf \in [Sessions -> Accounts]
    /\ NoSession \notin Sessions
    /\ Staff \subseteq Accounts
    /\ Players \subseteq Sessions
    /\ Kickable \subseteq Sessions

ASSUME ConfigAssumption ==
    /\ Limits \subseteq Nat /\ Limits # {}
    /\ Tolerance \in BOOLEAN
    /\ ExpireTime \in Nat \ {0}
    /\ MaxDiff \in Nat \ {0}

VARIABLES
    phase,       \* where the world thread is
    stopping,    \* World::KickAll has been called
    todo,        \* the sessions ahead of the iterator of UpdateSessions
    cur,         \* the session whose Update runs
    unborn,      \* the sessions no client has opened yet
    addSessQueue,\* World::addSessQueue
    world,       \* m_sessions, m_QueuedPlayer and the session objects
    limit,       \* World::m_playerLimit
    disconnects  \* the accounts in World::m_disconnects

vars == <<phase, stopping, todo, cur, unborn, addSessQueue, world, limit, disconnects>>

\* A WorldSession as its constructor leaves it.  pos is the place last sent to the client;
\* player is "loading" while the login query runs, "refused" when m_playerLoading is set and
\* there is no query, "leaving" in the world with _logoutTime set.
Fresh == [inQueue |-> FALSE, open |-> TRUE, forceExit |-> FALSE, expireTime |-> ExpireTime,
          player |-> "none", chars |-> "unknown", pos |-> 0]

PlayerLoading(f) == f.player \in {"loading", "refused"}
InWorld(f)       == f.player \in {"inworld", "leaving"}

Init ==
    /\ phase = "idle"
    /\ stopping = FALSE
    /\ todo = {}
    /\ cur = NoSession
    /\ unborn = Sessions
    /\ addSessQueue = <<>>
    /\ world = [sessions |-> [a \in Accounts |-> NoSession],
                queue    |-> <<>>,
                alive    |-> {},
                sess     |-> [s \in Sessions |-> Fresh]]
    /\ limit \in Limits
    /\ disconnects = {}

-----------------------------------------------------------------------------
(* The structures of World. *)

Listed(q, s)   == \E k \in DOMAIN q : q[k] = s
QueuePos(q, s) == CHOOSE k \in DOMAIN q : q[k] = s
EraseAt(q, k)  == [i \in 1 .. Len(q) - 1 |-> IF i < k THEN q[i] ELSE q[i + 1]]

\* The sessions in m_sessions, and their number with and without the queued ones.
Online(w) == {s \in Sessions : w.sessions[AccountOf[s]] = s}
GetActiveAndQueuedSessionCount(w) == Cardinality(Online(w))
GetActiveSessionCount(w) == Cardinality(Online(w)) - Len(w.queue)

SetField(w, s, f) == [w EXCEPT !.sess[s] = f]

\* WorldSession::KickPlayer closes the socket and has the next Update remove the session.
KickPlayer(w, s) == SetField(w, s, [w.sess[s] EXCEPT !.open = FALSE, !.forceExit = TRUE])

\* Mutant: the destructor is not called.
Delete_Leak(w, s) == w

\* WorldSession::~WorldSession: the player is saved and logged out with the session.
Delete(w, s) == [w EXCEPT !.alive = @ \ {s}, !.sess[s] = Fresh]

-----------------------------------------------------------------------------
(* World::RemoveQueuedPlayer *)

\* Mutant: the session that leaves still counts.
CountWithout_All(active, found) == active

\* A session that is not queued is about to leave m_sessions.
CountWithout(active, found) == IF ~found /\ active # 0 THEN active - 1 ELSE active

\* Mutant: one session too many.
MayAccept_OffByOne(n) == limit = 0 \/ n <= limit

MayAccept(n) == limit = 0 \/ n < limit

\* Mutant: the positions are not sent again from the head after an accepted session.
FirstMoved_Hole(accepted, found, k, q) == IF found THEN k ELSE Len(q) + 1

\* Where the loop over the clients whose position has changed starts.
FirstMoved(accepted, found, k, q) ==
    CASE accepted           -> 1
      [] ~accepted /\ found -> k
      [] OTHER              -> Len(q) + 1

\* A session after the call: m_inQueue is reset when it leaves the queue; SendAuthWaitQue sends it its
\* position, and 0 when it is admitted.
Notified(f, removed, admitted, moved, position) ==
    [f EXCEPT !.inQueue = f.inQueue /\ ~removed /\ ~admitted,
              !.pos = CASE moved              -> position
                        [] ~moved /\ admitted -> 0
                        [] OTHER              -> f.pos]

(***************************************************************************)
(* Take s out of the queue if it waits there, admit the first in the queue *)
(* if there is room, and tell the clients whose position has changed.      *)
(***************************************************************************)
RemoveQueuedPlayer(w, s) ==
    LET found    == Listed(w.queue, s)
        k        == QueuePos(w.queue, s)
        rest     == IF found THEN EraseAt(w.queue, k) ELSE w.queue
        accepted == rest # <<>> /\ MayAccept(CountWithout(GetActiveSessionCount(w), found))
        left     == IF accepted THEN Tail(rest) ELSE rest
        moved(t) == Listed(left, t) /\ QueuePos(left, t) >= FirstMoved(accepted, found, k, left)
    IN  [w EXCEPT
            !.queue = left,
            !.sess  = [t \in Sessions |-> Notified(w.sess[t], found /\ t = s, accepted /\ t = Head(rest),
                                                   moved(t), QueuePos(left, t))]]

-----------------------------------------------------------------------------
(* World::AddSession_ *)

\* Mutant: the newcomer goes to the front.
PushBack_Front(q, s) == <<s>> \o q

PushBack(q, s) == Append(q, s)

AddQueuedPlayer(w, s) ==
    LET q == PushBack(w.queue, s)
    IN  [w EXCEPT !.queue = q,
                  !.sess[s] = [w.sess[s] EXCEPT !.inQueue = TRUE, !.pos = QueuePos(q, s)]]

\* World::RemoveSession: the account's session may be replaced unless its player is loading.
RemoveSession(old) == old # NoSession => ~PlayerLoading(world.sess[old])

\* IsPlayerAccount fails, or HasRecentlyDisconnected: difftime(then, now) is never
\* positive, so an entry of m_disconnects is always "recent" and never erased.
Exempt(a) == a \in Staff \/ (Tolerance /\ a \in disconnects)

(***************************************************************************)
(* A new session replaces its account's old one, which gives up its place  *)
(* in the queue, or the slot in the world it held; the newcomer is         *)
(* admitted, or queued when the sessions but itself fill the limit.        *)
(***************************************************************************)
Admit(s) ==
    LET acc  == AccountOf[s]
        old  == world.sessions[acc]
        wasQueued == old # NoSession /\ Listed(world.queue, old)
        w1   == IF old = NoSession THEN world
                ELSE Delete(RemoveQueuedPlayer(KickPlayer(world, old), old), old)
        w2   == [w1 EXCEPT !.sessions[acc] = s]
        n    == GetActiveAndQueuedSessionCount(w2) - (IF wasQueued THEN 0 ELSE 1)
    IN  IF limit > 0 /\ n >= limit /\ ~Exempt(acc) THEN AddQueuedPlayer(w2, s) ELSE w2

\* UpdateSessions drains addSessQueue first.
BeginUpdate ==
    /\ phase = "idle"
    /\ phase' = "adding"
    /\ UNCHANGED <<stopping, todo, cur, unborn, addSessQueue, world, limit, disconnects>>

AddSession_ ==
    /\ phase = "adding"
    /\ addSessQueue # <<>>
    /\ LET s == Head(addSessQueue)
       IN  world' = IF RemoveSession(world.sessions[AccountOf[s]])
                    THEN Admit(s)
                    ELSE Delete(KickPlayer(world, s), s)
    /\ addSessQueue' = Tail(addSessQueue)
    /\ UNCHANGED <<phase, stopping, todo, cur, unborn, limit, disconnects>>

EndAdding ==
    /\ phase = "adding"
    /\ addSessQueue = <<>>
    /\ phase' = "updating"
    /\ todo' = Online(world)
    /\ UNCHANGED <<stopping, cur, unborn, addSessQueue, world, limit, disconnects>>

-----------------------------------------------------------------------------
(* WorldSession::Update: the idle check, the packets, the callbacks, the removal. *)

\* The time-out of the connection, which any packet resets, does not run out in the queue.
IsConnectionIdle(f, quiet) == quiet /\ ~f.inQueue

\* The iterator moves to s, whose Update closes an idle connection before anything else.
StartSession(s) ==
    /\ phase = "updating"
    /\ cur = NoSession
    /\ s \in todo
    /\ cur' = s
    /\ todo' = todo \ {s}
    /\ \E quiet \in BOOLEAN :
        world' = SetField(world, s, [world.sess[s] EXCEPT
                                        !.open = @ /\ ~IsConnectionIdle(world.sess[s], quiet)])
    /\ UNCHANGED <<phase, stopping, unborn, addSessQueue, limit, disconnects>>

\* The packet loop runs while the socket is open.
Handles(s) == cur = s /\ s \in Players /\ world.sess[s].open

\* "prevent cheating with skip queue wait": a queued client passes no STATUS_AUTHED packet.
HandlesAuthed(s) == Handles(s) /\ ~world.sess[s].inQueue

Handled(s, f) ==
    /\ world' = SetField(world, s, f)
    /\ UNCHANGED <<phase, stopping, todo, cur, unborn, addSessQueue, limit, disconnects>>

HandleCharEnumOpcode(s) ==
    /\ HandlesAuthed(s)
    /\ world.sess[s].chars = "unknown"
    /\ Handled(s, [world.sess[s] EXCEPT !.chars = "asked"])

\* Mutant: any character guid is accepted.
CharCanLogin_Any(s, own) == own

\* The guid is one of the last enumeration that found characters.
CharCanLogin(s, own) == own /\ world.sess[s].chars = "known"

(***************************************************************************)
(* CMSG_PLAYER_LOGIN: only a character of an answered enumeration may log  *)
(* in; otherwise the client is kicked and m_playerLoading stays set.       *)
(***************************************************************************)
HandlePlayerLoginOpcode(s) ==
    /\ HandlesAuthed(s)
    /\ world.sess[s].player = "none"
    /\ \E own \in BOOLEAN :
        Handled(s, IF CharCanLogin(s, own)
                   THEN [world.sess[s] EXCEPT !.player = "loading"]
                   ELSE [KickPlayer(world, s).sess[s] EXCEPT !.player = "refused"])

\* CMSG_LOGOUT_REQUEST: refused, at once (LogoutPlayer), or 20 seconds from now.
HandleLogoutRequestOpcode(s) ==
    /\ Handles(s)
    /\ InWorld(world.sess[s])
    /\ \E p \in {"inworld", "none", "leaving"} :
        Handled(s, [world.sess[s] EXCEPT !.player = p])

HandleLogoutCancelOpcode(s) ==
    /\ Handles(s)
    /\ world.sess[s].player = "leaving"
    /\ Handled(s, [world.sess[s] EXCEPT !.player = "inworld"])

(***************************************************************************)
(* ProcessQueryCallbacks.  A query answers when it answers.  An account    *)
(* without characters leaves _allowedCharsToLogin alone; a character that  *)
(* fails to load has its client kicked.                                    *)
(***************************************************************************)
EnumAnswers(f)  ==
    IF f.chars = "asked" THEN {[f EXCEPT !.chars = c] : c \in {"asked", "known", "unknown"}} ELSE {f}

LoginAnswers(f) ==
    IF f.player = "loading"
    THEN {f, [f EXCEPT !.player = "inworld"],
          [f EXCEPT !.player = "none", !.open = FALSE, !.forceExit = TRUE]}
    ELSE {f}

\* ShouldLogOut: the 20 seconds have passed, or not yet.
LogoutAnswers(f) ==
    IF f.player = "leaving" THEN {f, [f EXCEPT !.player = "none"]} ELSE {f}

Answers(f) == UNION {UNION {LogoutAnswers(h) : h \in LoginAnswers(e)} : e \in EnumAnswers(f)}

\* Mutant: the last part of the time is not taken off.
Countdown_Kept(e, diff) == IF e > diff THEN e - diff ELSE e

Countdown(e, diff) == e - (IF e > diff THEN diff ELSE e)

Expires(f, diff) == Countdown(f.expireTime, diff) < diff \/ f.forceExit

\* Mutant: the session leaves m_sessions and stays in the queue.
LeaveQueue_Missing(w, s) == {w}

\* UpdateSessions calls RemoveQueuedPlayer twice for a session it removes.  The one result is given as a set,
\* so that TLC computes it once.
LeaveQueue(w, s) == {RemoveQueuedPlayer(v, s) : v \in {RemoveQueuedPlayer(w, s)}}

(***************************************************************************)
(* The rest of Update, with what UpdateSessions makes of its result.  A    *)
(* session whose socket is closed is removed when it was kicked or its     *)
(* time has run out.                                                       *)
(***************************************************************************)
FinishSession(s) ==
    /\ cur = s
    /\ \E diff \in 1 .. MaxDiff, f \in Answers(world.sess[s]) :
        \E w \in {SetField(world, s, [f EXCEPT !.expireTime = IF f.open THEN @ ELSE Countdown(@, diff)])} :
            IF ~f.open /\ Expires(f, diff)
            THEN /\ \E v \in LeaveQueue(w, s) :
                        world' = [Delete(v, s) EXCEPT !.sessions[AccountOf[s]] = NoSession]
                 /\ disconnects' = IF Tolerance /\ ~Listed(world.queue, s)
                                   THEN disconnects \cup {AccountOf[s]} ELSE disconnects
            ELSE world' = w /\ UNCHANGED disconnects
    /\ cur' = NoSession
    /\ UNCHANGED <<phase, stopping, todo, unborn, addSessQueue, limit>>

\* The rest of World::Update, or after KickAll the stop of the network and the maps.
EndUpdate ==
    /\ phase = "updating"
    /\ cur = NoSession
    /\ todo = {}
    /\ phase' = IF stopping THEN "stopped" ELSE "idle"
    /\ UNCHANGED <<stopping, todo, cur, unborn, addSessQueue, world, limit, disconnects>>

-----------------------------------------------------------------------------
(* The network threads, the administrator and the end. *)

\* The end of WorldSocket::HandleAuthSession: new WorldSession, World::AddSession.
AddSession(s) ==
    /\ s \in unborn
    /\ phase \notin {"stopped", "gone"}
    /\ unborn' = unborn \ {s}
    /\ world' = [world EXCEPT !.alive = @ \cup {s}]
    /\ addSessQueue' = Append(addSessQueue, s)
    /\ UNCHANGED <<phase, stopping, todo, cur, limit, disconnects>>

\* The client goes away: WorldSocket::handle_close sets closing_.
LoseSocket(s) ==
    /\ s \in world.alive
    /\ phase \notin {"stopped", "gone"}
    /\ world.sess[s].open
    /\ world' = SetField(world, s, [world.sess[s] EXCEPT !.open = FALSE])
    /\ UNCHANGED <<phase, stopping, todo, cur, unborn, addSessQueue, limit, disconnects>>

\* A command, a ban, or a handler of another session kicks an online session.
Kick(s) ==
    /\ phase = "idle" \/ cur # NoSession
    /\ s \in Kickable \cap Online(world)
    /\ ~world.sess[s].forceExit
    /\ world' = KickPlayer(world, s)
    /\ UNCHANGED <<phase, stopping, todo, cur, unborn, addSessQueue, limit, disconnects>>

SetPlayerAmountLimit(n) ==
    /\ phase = "idle"
    /\ limit' = n
    /\ UNCHANGED <<phase, stopping, todo, cur, unborn, addSessQueue, world, disconnects>>

\* WorldRunnable::run after its loop: KickAll, then one last UpdateSessions.
KickAll ==
    /\ phase = "idle"
    /\ phase' = "adding"
    /\ stopping' = TRUE
    /\ world' = [world EXCEPT
                    !.queue = <<>>,
                    !.sess = [s \in Sessions |-> IF s \in Online(world)
                                                 THEN KickPlayer(world, s).sess[s] ELSE @[s]]]
    /\ UNCHANGED <<todo, cur, unborn, addSessQueue, limit, disconnects>>

\* World::~World deletes the sessions that are left and the list; addSessQueue is not freed.
Destroy ==
    /\ phase = "stopped"
    /\ phase' = "gone"
    /\ world' = [world EXCEPT
                    !.sessions = [a \in Accounts |-> NoSession],
                    !.queue = <<>>,
                    !.alive = @ \ Online(world),
                    !.sess = [s \in Sessions |-> IF s \in Online(world) THEN Fresh ELSE @[s]]]
    /\ UNCHANGED <<stopping, todo, cur, unborn, addSessQueue, limit, disconnects>>

Stopped == phase = "gone" /\ UNCHANGED vars

-----------------------------------------------------------------------------
WorldStep ==
    \/ BeginUpdate
    \/ AddSession_
    \/ EndAdding
    \/ \E s \in Sessions : StartSession(s) \/ FinishSession(s)
    \/ EndUpdate
    \/ Destroy

Next ==
    \/ WorldStep
    \/ \E s \in Sessions :
        \/ HandleCharEnumOpcode(s)
        \/ HandlePlayerLoginOpcode(s)
        \/ HandleLogoutRequestOpcode(s)
        \/ HandleLogoutCancelOpcode(s)
    \/ \E s \in Sessions : AddSession(s) \/ LoseSocket(s) \/ Kick(s)
    \/ \E n \in Limits \ {limit} : SetPlayerAmountLimit(n)
    \/ KickAll
    \/ Stopped

Spec == Init /\ [][Next]_vars

\* WorldRunnable::run calls World::Update for ever, and UpdateSessions visits every session.
FairSpec == Spec /\ WF_vars(WorldStep)

-----------------------------------------------------------------------------
(***************************************************************************)
(* m_QueuedPlayer holds pointers: each one refers to a session that has    *)
(* not been deleted and that m_sessions has, once, with m_inQueue set and  *)
(* no character logged in.  Until KickAll, which clears only the list, the *)
(* flag is set for nobody else, so that no client is refused its packets   *)
(* for ever.                                                               *)
(***************************************************************************)
QueueSound ==
    /\ \A j, k \in DOMAIN world.queue : world.queue[j] = world.queue[k] => j = k
    /\ \A k \in DOMAIN world.queue :
        LET s == world.queue[k]
        IN  /\ s \in world.alive \cap Online(world)
            /\ world.sess[s].inQueue
            /\ world.sess[s].player = "none"
    /\ \A s \in world.alive : world.sess[s].inQueue /\ ~stopping => Listed(world.queue, s)

(***************************************************************************)
(* An account never has two sessions with a character in the world or on   *)
(* its way into it, reconnections included.                                *)
(***************************************************************************)
OnePlayerPerAccount ==
    \A s, t \in world.alive :
        /\ AccountOf[s] = AccountOf[t]
        /\ PlayerLoading(world.sess[s]) \/ InWorld(world.sess[s])
        /\ PlayerLoading(world.sess[t]) \/ InWorld(world.sess[t])
        => s = t

\* The position a waiting client was last told is its position in m_QueuedPlayer.
PositionsShown ==
    \A k \in DOMAIN world.queue : world.sess[world.queue[k]].pos = k

(***************************************************************************)
(* As long as the limit is not changed, nobody waits while there is room:  *)
(* every session that leaves, is replaced or gives up its place in the     *)
(* queue lets the next one in.                                             *)
(***************************************************************************)
NoIdleSlot ==
    Limits = {limit} /\ world.queue # <<>> => limit > 0 /\ GetActiveSessionCount(world) >= limit

Active(w) == {s \in Online(w) : ~Listed(w.queue, s)}

\* Let in by a step although the limit may be reached.
LetPast == {s \in Active(world') \ Active(world) : Exempt(AccountOf[s])}

\* What a step lets into the world, those apart, is within the limit.
AdmitsWithinLimit ==
    \/ Active(world') \ Active(world) = LetPast
    \/ stopping'
    \/ limit = 0
    \/ Cardinality(Active(world') \ LetPast) <= limit

(***************************************************************************)
(* A step that lets a session that is not exempt into the world leaves no  *)
(* more sessions in the world than the limit, whatever the limit was       *)
(* before and although a removal calls RemoveQueuedPlayer twice.  A        *)
(* session of the staff that is let in by the same step, because it        *)
(* reconnects, does not count.                                             *)
(***************************************************************************)
AdmissionRespectsLimit == [][AdmitsWithinLimit]_vars

\* Whoever was ahead stays ahead, and nobody is let in while an earlier one still waits.
KeepsOrder ==
    \A j, k \in DOMAIN world.queue :
        LET s == world.queue[j]
            t == world.queue[k]
        IN  /\ j < k
            /\ Listed(world.queue', s)
            => \/ Listed(world.queue', t) /\ QueuePos(world.queue', s) < QueuePos(world.queue', t)
               \/ t \notin Online(world')

\* Nobody who waited is behind a newcomer.
NewcomersLast ==
    \A s \in Sessions : ~Listed(world.queue, s) /\ Listed(world.queue', s) =>
        \A k \in DOMAIN world.queue' : k > QueuePos(world.queue', s) => ~Listed(world.queue, world.queue'[k])

\* A newcomer that is not exempt and is let in finds nobody waiting.
NobodyPasses ==
    Limits = {limit} =>
        \A s \in Active(world') \ Online(world) : Exempt(AccountOf[s]) \/ world.queue' = <<>>

(***************************************************************************)
(* First come, first served: the queue keeps its order, nobody is let in   *)
(* while an earlier one still waits, a newcomer, a reconnecting client     *)
(* included, waits behind everyone, and as long as the limit is not        *)
(* changed no newcomer that is not exempt passes the queue.                *)
(***************************************************************************)
FirstComeFirstServed == [][KeepsOrder /\ NewcomersLast /\ NobodyPasses]_vars

(***************************************************************************)
(* "real players unload required UpdateSessions call": when the network is *)
(* stopped and the maps are unloaded nobody is in the world, the sessions  *)
(* that entered during the last UpdateSessions included.                   *)
(***************************************************************************)
ShutdownLeavesNoPlayer ==
    phase \in {"stopped", "gone"} => \A s \in world.alive : ~InWorld(world.sess[s])

\* A session that has lost its socket does not stay in m_sessions for ever.
SessionsExpire ==
    \A s \in Sessions : s \in Online(world) /\ ~world.sess[s].open ~> s \notin Online(world)

=============================================================================
