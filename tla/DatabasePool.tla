---------------------------- MODULE DatabasePool ----------------------------
(***************************************************************************)
(* The database layer (shared/Database): a DatabaseWorkerPool with its     *)
(* asynchronous connections, each driven by one DatabaseWorker thread from *)
(* a common ACE activation queue, its synchronous connections, which the   *)
(* threads of the server lock for one call, MySQLConnection's execution of *)
(* statements and transactions, and the close of the pool.                 *)
(*                                                                         *)
(* One step is one request to the MySQL server.  Statements are known by   *)
(* their operation and their place in it; db lists those that are durable  *)
(* in the order in which they became so.  The MySQL server and the client  *)
(* library are external: an open transaction holds its statements back, a  *)
(* deadlock or a lost connection rolls it back, START TRANSACTION commits  *)
(* an open one, a COMMIT or ROLLBACK that the server refuses ends the      *)
(* transaction without effect, and mysql_errno is that of the latest       *)
(* request.  A NULL handle is tested by Execute and _Query only: the       *)
(* destructor asserts that there is one and mysql_ping dereferences it, so *)
(* that there the process ends.                                            *)
(***************************************************************************)
EXTENDS Integers, Sequences, FiniteSets

CONSTANTS
    Workers,    \* the connections of _connections[IDX_ASYNC], one thread each
    Synch,      \* the connections of _connections[IDX_SYNCH]
    Callers,    \* the threads that use the pool
    NoCaller,   \* a connection's m_Mutex is free
    Size,       \* statements of a transaction or a query holder
    QueueCap,   \* operations the activation queue holds before enqueue blocks
    Kinds,      \* bound: the operations that are submitted
    Errors,     \* bound: what goes wrong with a request
    MaxFaults,  \* bound: how often something goes wrong
    MaxOps      \* bound: operations submitted in a run

AllKinds == {"stmt", "query", "holder", "trans", "empty", "ping"}

ASSUME PoolAssumption ==
    /\ Workers \cap Synch = {}
    /\ IsFiniteSet(Workers)
    /\ NoCaller \notin Callers
    /\ Kinds \subseteq AllKinds \ {"ping"}
    /\ Errors \subseteq {"deadlock", "other", "lost"}

ASSUME BoundAssumption ==
    /\ Size \in Nat \ {0}
    /\ QueueCap \in Nat \ {0}
    /\ MaxFaults \in Nat
    /\ MaxOps \in Nat

VARIABLES
    ops,      \* the operations submitted so far, with what became of them
    queue,    \* the operations in the activation queue
    qstate,   \* the queue is "active", "closed" or "deleted"
    thread,   \* a DatabaseWorker runs svc, has "ended" or is "deleted"
    lock,     \* the holder of a synchronous connection's m_Mutex
    call,     \* the operation a caller waits with in GetFreeConnection, or 0
    pings,    \* the PingOperations a caller in KeepAlive has yet to enqueue
    conn,     \* the MySQLConnections
    session,  \* the MySQL server's side of each connection
    db,       \* the durable statements
    closing,  \* Close has not begun, is "joining" the workers, is "done", or
              \* the process has "crashed"
    faults    \* how often something went wrong

clients == <<lock, call, pings>>
server  == <<session, db>>
vars == <<ops, queue, qstate, thread, clients, conn, server, closing, faults>>

Conns == Workers \cup Synch

LoopBreaker == 5

NoTransaction == [tx |-> FALSE, held |-> <<>>]

\* mysql is "up", "lost" (in _HandleMySQLErrno), "null" or "deleted"; el is
\* the statement at hand and tries the loop counter of the deadlock retry.
Connected == [mysql |-> "up", pc |-> "idle", op |-> 0, el |-> 0, tries |-> 0,
              err |-> "none"]

\* DatabaseWorkerPool::Open: every connection is opened, every worker runs.
Init ==
    /\ ops = <<>>
    /\ queue = <<>>
    /\ qstate = "active"
    /\ thread = [w \in Workers |-> "svc"]
    /\ lock = [c \in Synch |-> NoCaller]
    /\ call = [k \in Callers |-> 0]
    /\ pings = [k \in Callers |-> 0]
    /\ conn = [c \in Conns |-> Connected]
    /\ session = [c \in Conns |-> NoTransaction]
    /\ db = <<>>
    /\ closing = "no"
    /\ faults = 0

Kind(o)  == ops[o].kind
Writes(o) == Kind(o) \in {"stmt", "trans"}

\* A caller outside every call of the pool, while the server runs.
Free(k) == closing = "no" /\ call[k] = 0 /\ pings[k] = 0

\* lost remembers that the operation lost its transaction: the connection
\* broke under it or START TRANSACTION was refused; refused that COMMIT was.
New(kind, direct) == [kind |-> kind, direct |-> direct, status |-> "waiting",
                      lost |-> FALSE, refused |-> FALSE]

\* m_Mysql is NULL: a reconnection has failed.
NoHandle(c) == conn[c].mysql = "null"

\* The process ends where it is.
Crash ==
    /\ closing' = "crashed"
    /\ UNCHANGED <<ops, queue, qstate, thread, clients, conn, server, faults>>

Running == closing # "crashed"

-----------------------------------------------------------------------------
(* The threads that use the pool. *)

(***************************************************************************)
(* Execute, AsyncQuery, DelayQueryHolder and CommitTransaction: a task is  *)
(* made and enqueued.  enqueue blocks while the queue is full.             *)
(***************************************************************************)
Enqueue(kind) ==
    /\ qstate = "active"
    /\ Len(queue) < QueueCap
    /\ ops' = Append(ops, New(kind, FALSE))
    /\ queue' = Append(queue, Len(ops) + 1)

Delay(k) ==
    /\ Free(k)
    /\ Len(ops) < MaxOps
    /\ \E kind \in Kinds : Enqueue(kind)
    /\ UNCHANGED <<qstate, thread, clients, conn, server, closing, faults>>

\* DirectExecute, Query and DirectCommitTransaction, up to GetFreeConnection.
Direct(k) ==
    /\ Free(k)
    /\ Len(ops) < MaxOps
    /\ \E kind \in Kinds \ {"holder"} : ops' = Append(ops, New(kind, TRUE))
    /\ call' = [call EXCEPT ![k] = Len(ops) + 1]
    /\ UNCHANGED <<queue, qstate, thread, lock, pings, conn, server, closing,
                   faults>>

\* KeepAlive, which one thread calls on a timer, pings the synchronous
\* connections it can lock; mysql_ping does not survive a NULL handle.  The
\* answer is not looked at; of an answered ping mysql_errno remains, which is
\* zero.
Pinged == {c \in Synch : lock[c] = NoCaller}

KeepAliveDue(k) ==
    /\ Free(k)
    /\ \A j \in Callers : pings[j] = 0
    /\ Len(ops) < MaxOps

KeepAlive(k) ==
    /\ KeepAliveDue(k)
    /\ \A c \in Pinged : ~NoHandle(c)
    /\ conn' = [c \in Conns |-> IF c \in Pinged THEN [conn[c] EXCEPT !.err = "none"]
                                ELSE conn[c]]
    /\ pings' = [pings EXCEPT ![k] = Cardinality(Workers)]
    /\ UNCHANGED <<ops, queue, qstate, thread, lock, call, server, closing,
                   faults>>

KeepAliveCrashes(k) ==
    /\ KeepAliveDue(k)
    /\ \E c \in Pinged : NoHandle(c)
    /\ Crash

\* The second loop of KeepAlive.
EnqueuePing(k) ==
    /\ Running
    /\ pings[k] > 0
    /\ Enqueue("ping")
    /\ pings' = [pings EXCEPT ![k] = @ - 1]
    /\ UNCHANGED <<qstate, thread, lock, call, conn, server, closing, faults>>

-----------------------------------------------------------------------------
(* Where a connection goes from one request to the next. *)

\* TransactionTask and the statement tasks: what Execute does first.  A
\* transaction without statements returns before any request.
Start(r, kind) ==
    [r EXCEPT !.el = 1,
              !.err = IF kind = "ping" THEN "none" ELSE @,
              !.pc = CASE kind = "trans" -> "begin"
                       [] kind = "empty" -> "check"
                       [] kind = "ping"  -> "won"
                       [] OTHER          -> "exec"]

\* Mutant: a transaction goes on after a statement that failed.
AfterTransactionElement_Ignored(r, ok) ==
    IF r.el < Size THEN [r EXCEPT !.el = @ + 1] ELSE [r EXCEPT !.pc = "commit"]

\* Mutant: a failed transaction is not rolled back.
AfterTransactionElement_NoRollback(r, ok) ==
    IF ~ok THEN [r EXCEPT !.pc = "check"]
    ELSE IF r.el < Size THEN [r EXCEPT !.el = @ + 1]
    ELSE [r EXCEPT !.pc = "commit"]

\* ExecuteTransaction's loop over the statements.
AfterTransactionElement(r, ok) ==
    IF ~ok THEN [r EXCEPT !.pc = "rollback"]
    ELSE IF r.el < Size THEN [r EXCEPT !.el = @ + 1]
    ELSE [r EXCEPT !.pc = "commit"]

\* SQLQueryHolderTask::Execute stores what each query returned, NULL too.
AfterHolderElement(r) ==
    IF r.el < Size THEN [r EXCEPT !.el = @ + 1] ELSE [r EXCEPT !.pc = "won"]

\* MySQLConnection::Execute or _Query returned ok.  The results of START
\* TRANSACTION, ROLLBACK and COMMIT are not looked at.
Returned(r, ok) ==
    CASE r.pc = "begin"    -> [r EXCEPT !.pc = "exec"]
      [] r.pc = "rollback" -> [r EXCEPT !.pc = "check"]
      [] r.pc = "commit"   -> [r EXCEPT !.pc = "won"]
      [] r.pc = "exec" /\ Kind(r.op) = "trans" ->
            AfterTransactionElement(r, ok)
      [] r.pc = "exec" /\ Kind(r.op) = "holder" ->
            AfterHolderElement(r)
      [] OTHER -> [r EXCEPT !.pc = IF ok THEN "won" ELSE "failed"]

-----------------------------------------------------------------------------
(* Getting an operation to a connection. *)

\* GetFreeConnection goes round the connections until LockIfReady.
GetFreeConnection(k, c) ==
    /\ Running
    /\ call[k] # 0
    /\ \A d \in Synch : lock[d] # k
    /\ lock[c] = NoCaller
    /\ lock' = [lock EXCEPT ![c] = k]
    /\ conn' = [conn EXCEPT ![c] = Start([@ EXCEPT !.op = call[k]],
                                         Kind(call[k]))]
    /\ UNCHANGED <<ops, queue, qstate, thread, call, pings, server, closing,
                   faults>>

\* Mutant: a worker takes the latest operation.
Next_Latest(q) == Len(q)

\* ACE_Activation_Queue::dequeue: priorities are equal, so first in, first
\* out; the place in the queue of the operation a worker gets.
NextOf(q) == 1

Without(q, n) == SubSeq(q, 1, n - 1) \o SubSeq(q, n + 1, Len(q))

Ready(w) ==
    /\ Running
    /\ thread[w] = "svc"
    /\ conn[w].pc = "idle"

\* PingOperation::Execute on a connection without a handle.
PingsNull(w, o) == Kind(o) = "ping" /\ NoHandle(w)

Dequeue(w) ==
    /\ Ready(w)
    /\ qstate = "active"
    /\ queue # <<>>
    /\ LET n == NextOf(queue)
       IN  /\ ~PingsNull(w, queue[n])
           /\ queue' = Without(queue, n)
           /\ conn' = [conn EXCEPT ![w] = Start([@ EXCEPT !.op = queue[n]],
                                                Kind(queue[n]))]
    /\ UNCHANGED <<ops, qstate, thread, clients, server, closing, faults>>

PingCrashes(w) ==
    /\ Ready(w)
    /\ qstate = "active"
    /\ queue # <<>>
    /\ PingsNull(w, queue[NextOf(queue)])
    /\ Crash

\* Mutant: a worker also ends when it finds the queue empty.
NoRequest_Empty == qstate = "closed" \/ queue = <<>>

\* dequeue returns NULL: the queue has been closed.
NoRequest == qstate = "closed"

EndWorker(w) ==
    /\ Ready(w)
    /\ NoRequest
    /\ thread' = [thread EXCEPT ![w] = "ended"]
    /\ UNCHANGED <<ops, queue, qstate, clients, conn, server, closing, faults>>

-----------------------------------------------------------------------------
(* The MySQL server. *)

\* The statement connection c has at hand.
Statement(c) == <<conn[c].op, conn[c].el>>

\* The durable statements once the server has done what c asks for.
DbAfter(c) ==
    CASE conn[c].pc \in {"begin", "commit"} -> db \o session[c].held
      [] conn[c].pc = "exec" /\ Writes(conn[c].op) /\ ~session[c].tx ->
            Append(db, Statement(c))
      [] OTHER -> db

\* Mutant: START TRANSACTION is not sent.
SessionAfter_NoBegin(c) ==
    CASE conn[c].pc \in {"begin", "rollback", "commit"} -> NoTransaction
      [] conn[c].pc = "exec" /\ Writes(conn[c].op) /\ session[c].tx ->
            [session[c] EXCEPT !.held = Append(@, Statement(c))]
      [] OTHER -> session[c]

\* BeginTransaction, Execute, RollbackTransaction and CommitTransaction.
SessionAfter(c) ==
    CASE conn[c].pc = "begin" -> [tx |-> TRUE, held |-> <<>>]
      [] conn[c].pc \in {"rollback", "commit"} -> NoTransaction
      [] conn[c].pc = "exec" /\ Writes(conn[c].op) /\ session[c].tx ->
            [session[c] EXCEPT !.held = Append(@, Statement(c))]
      [] OTHER -> session[c]

-----------------------------------------------------------------------------
(* One request of a connection to the server, and what can go wrong. *)

Requesting(c) == conn[c].pc \in {"begin", "exec", "rollback", "commit"}

Returns(c, ok, err) ==
    conn' = [conn EXCEPT ![c] = Returned([@ EXCEPT !.err = err], ok)]

Elsewhere == UNCHANGED <<ops, queue, qstate, thread, clients, closing>>

Fault ==
    /\ faults < MaxFaults
    /\ faults' = faults + 1

Succeeds(c) ==
    /\ Requesting(c)
    /\ conn[c].mysql = "up"
    /\ Returns(c, TRUE, "none")
    /\ db' = DbAfter(c)
    /\ session' = [session EXCEPT ![c] = SessionAfter(c)]
    /\ Elsewhere
    /\ UNCHANGED faults

\* An errno that _HandleMySQLErrno does not handle.  A write can be chosen as
\* the victim of a deadlock, which ends its transaction.
Fails(c) ==
    /\ conn[c].pc = "exec"
    /\ conn[c].mysql = "up"
    /\ Fault
    /\ \/ /\ "deadlock" \in Errors
          /\ Writes(conn[c].op)
          /\ Returns(c, FALSE, "deadlock")
          /\ session' = [session EXCEPT ![c] = NoTransaction]
       \/ /\ "other" \in Errors
          /\ Returns(c, FALSE, "other")
          /\ UNCHANGED session
    /\ UNCHANGED db
    /\ Elsewhere

\* The server refuses START TRANSACTION, ROLLBACK or COMMIT.  The result is not
\* looked at: without START TRANSACTION every statement is durable at once, and
\* after a refused COMMIT the operation reports success.
Refused(c) ==
    /\ "other" \in Errors
    /\ conn[c].pc \in {"begin", "rollback", "commit"}
    /\ conn[c].mysql = "up"
    /\ Fault
    /\ Returns(c, FALSE, "other")
    /\ ops' = [ops EXCEPT ![conn[c].op].lost = @ \/ conn[c].pc = "begin",
                          ![conn[c].op].refused = @ \/ conn[c].pc = "commit"]
    /\ session' = [session EXCEPT ![c] = NoTransaction]
    /\ UNCHANGED <<db, queue, qstate, thread, clients, closing>>

\* CR_SERVER_GONE_ERROR and its like; whether the server had done what was
\* asked before the connection broke cannot be told.
Loses(c) ==
    /\ "lost" \in Errors
    /\ Requesting(c)
    /\ conn[c].mysql = "up"
    /\ Fault
    /\ conn' = [conn EXCEPT ![c].mysql = "lost"]
    /\ ops' = [ops EXCEPT ![conn[c].op].lost = TRUE]
    /\ db' \in {db, DbAfter(c)}
    /\ session' = [session EXCEPT ![c] = NoTransaction]
    /\ UNCHANGED <<queue, qstate, thread, clients, closing>>

\* _HandleMySQLErrno opens the connection again and the statement, not the
\* transaction, is tried again.
Reopens(c) ==
    /\ conn[c].mysql = "lost"
    /\ conn' = [conn EXCEPT ![c].mysql = "up", ![c].err = "none"]
    /\ UNCHANGED <<server, faults>>
    /\ Elsewhere

\* Open fails.  When the connection breaks again while statements are prepared
\* there is another attempt; when there is no connection m_Mysql is NULL, of
\* which the errno is none, the statement fails and no later call opens it again.
ReopenFails(c) ==
    /\ conn[c].mysql = "lost"
    /\ Fault
    /\ \/ UNCHANGED conn
       \/ conn' = [conn EXCEPT ![c] =
                     Returned([@ EXCEPT !.mysql = "null", !.err = "none"], FALSE)]
    /\ UNCHANGED server
    /\ Elsewhere

\* Execute and _Query return at once when m_Mysql is NULL.
HasNoHandle(c) ==
    /\ Requesting(c)
    /\ conn[c].mysql = "null"
    /\ Returns(c, FALSE, "none")
    /\ UNCHANGED <<server, faults>>
    /\ Elsewhere

\* TransactionTask::Execute and DirectCommitTransaction ask for the latest
\* errno after ExecuteTransaction has failed; in the loop they do not.
TryAgain(r) ==
    \/ r.tries = 0 /\ r.err = "deadlock"
    \/ r.tries \in 1 .. LoopBreaker - 1

\* ExecuteTransaction returned false: another attempt, or Cleanup.
AfterFailure(r) ==
    IF TryAgain(r) THEN Start([r EXCEPT !.tries = @ + 1], Kind(r.op))
    ELSE [r EXCEPT !.pc = "failed"]

Checks(c) ==
    /\ conn[c].pc = "check"
    /\ conn' = [conn EXCEPT ![c] = AfterFailure(@)]
    /\ UNCHANGED <<server, faults>>
    /\ Elsewhere

\* Mutant: a direct call that succeeds returns without Unlock.
Unlock_Missing(c) ==
    IF conn[c].pc = "won" THEN UNCHANGED <<lock, call>>
    ELSE /\ lock' = [lock EXCEPT ![c] = NoCaller]
         /\ call' = [call EXCEPT ![lock[c]] = 0]

\* The end of a direct call: Unlock, and the caller goes on.
Unlock(c) ==
    /\ lock' = [lock EXCEPT ![c] = NoCaller]
    /\ call' = [call EXCEPT ![lock[c]] = 0]

\* The operation is over: a future gets its value, a worker deletes the
\* request, a caller unlocks the connection.
Finish(c) ==
    /\ conn[c].pc \in {"won", "failed"}
    /\ ops' = [ops EXCEPT ![conn[c].op].status =
                  IF conn[c].pc = "won" THEN "ok" ELSE "failed"]
    /\ conn' = [conn EXCEPT ![c] = [Connected EXCEPT !.mysql = conn[c].mysql,
                                                     !.err = conn[c].err]]
    /\ IF c \in Synch THEN Unlock(c) ELSE UNCHANGED <<lock, call>>
    /\ UNCHANGED <<queue, qstate, thread, pings, server, closing, faults>>

-----------------------------------------------------------------------------
(* DatabaseWorkerPool::Close, after all other threads have ended. *)

\* Mutant: close leaves the queue active.
QueueAfterClose_Active == "active"

\* ACE_Message_Queue::close deactivates the queue and releases what is in it.
QueueAfterClose == "closed"

Close ==
    /\ closing = "no"
    /\ \A k \in Callers : Free(k)
    /\ closing' = "joining"
    /\ qstate' = QueueAfterClose
    /\ queue' = <<>>
    /\ ops' = [o \in DOMAIN ops |->
                 IF \E i \in DOMAIN queue : queue[i] = o
                 THEN [ops[o] EXCEPT !.status = "flushed"] ELSE ops[o]]
    /\ UNCHANGED <<thread, clients, conn, server, faults>>

\* Mutant: Close does not wait for the worker.
Waited_Missing(w) == thread[w] # "deleted"

\* worker->wait()
Waited(w) == thread[w] = "ended"

JoinWorker(w) ==
    /\ closing = "joining"
    /\ Waited(w)
    /\ ~NoHandle(w)
    /\ thread' = [thread EXCEPT ![w] = "deleted"]
    /\ conn' = [conn EXCEPT ![w].mysql = "deleted"]
    /\ UNCHANGED <<ops, queue, qstate, clients, server, closing, faults>>

CloseSynch ==
    /\ closing = "joining"
    /\ \A w \in Workers : thread[w] = "deleted"
    /\ \A c \in Synch : ~NoHandle(c)
    /\ conn' = [c \in Conns |-> [conn[c] EXCEPT !.mysql = "deleted"]]
    /\ qstate' = "deleted"
    /\ closing' = "done"
    /\ UNCHANGED <<ops, queue, thread, clients, server, faults>>

\* ~MySQLConnection: ASSERT(m_Mysql).
CloseCrashes ==
    /\ closing = "joining"
    /\ \/ \E w \in Workers : Waited(w) /\ NoHandle(w)
       \/ /\ \A w \in Workers : thread[w] = "deleted"
          /\ \E c \in Synch : NoHandle(c)
    /\ Crash

Halted == closing \in {"done", "crashed"} /\ UNCHANGED vars

-----------------------------------------------------------------------------
Step(c) ==
    /\ Running
    /\ \/ Succeeds(c)
       \/ Fails(c)
       \/ Refused(c)
       \/ Loses(c)
       \/ Reopens(c)
       \/ ReopenFails(c)
       \/ HasNoHandle(c)
       \/ Checks(c)
       \/ Finish(c)

Next ==
    \/ \E k \in Callers :
            Delay(k) \/ Direct(k) \/ KeepAlive(k) \/ KeepAliveCrashes(k) \/ EnqueuePing(k)
    \/ \E k \in Callers, c \in Synch : GetFreeConnection(k, c)
    \/ \E w \in Workers :
            Dequeue(w) \/ PingCrashes(w) \/ EndWorker(w) \/ JoinWorker(w)
    \/ \E c \in Conns : Step(c)
    \/ Close
    \/ CloseSynch
    \/ CloseCrashes
    \/ Halted

Spec == Init /\ [][Next]_vars

\* The threads of the workers run, a caller that has a connection goes on, and
\* so does the thread in Close.  Nobody has to call anything, and a caller
\* without a connection may spin for ever.
Fairness ==
    /\ \A w \in Workers : WF_vars(Dequeue(w) \/ PingCrashes(w) \/ EndWorker(w))
    /\ \A c \in Conns : WF_vars(Step(c))
    /\ WF_vars((\E w \in Workers : JoinWorker(w)) \/ CloseSynch \/ CloseCrashes)

FairSpec == Spec /\ Fairness

-----------------------------------------------------------------------------
(* Properties. *)

\* The statements operation o makes durable when it succeeds, in order.
Effects(o) ==
    CASE Kind(o) = "stmt"  -> <<<<o, 1>>>>
      [] Kind(o) = "trans" -> [i \in 1..Size |-> <<o, i>>]
      [] OTHER             -> <<>>

\* The database holds nothing of o.
Nothing(o) == \A i \in DOMAIN db : db[i][1] # o

\* The database holds all of o once, in order and in one piece.
Durable(o) ==
    \E n \in 0 .. Len(db) - Len(Effects(o)) :
        \A i \in DOMAIN db :
            IF i \in n + 1 .. n + Len(Effects(o)) THEN db[i] = Effects(o)[i - n]
            ELSE db[i][1] # o

\* What an operation reports is what the database holds: all its statements
\* when ExecuteTransaction or Execute returned true, or none if it was the
\* COMMIT that the server refused, whose result nobody looks at; none when it
\* returned false or the operation never left the queue.  Once the operation
\* has lost its transaction this is not so (see TransactionsAtomic).
Truthful ==
    \A o \in DOMAIN ops : ~ops[o].lost =>
        /\ ops[o].status = "ok" => Durable(o) \/ (ops[o].refused /\ Nothing(o))
        /\ ops[o].status \in {"failed", "flushed"} => Nothing(o)

Appended == SubSeq(db', Len(db) + 1, Len(db'))

\* The database changes by one whole operation at a time: no transaction is
\* ever seen, or left behind, in part, unless it lost its transaction itself,
\* whatever the other connections do, break under or are refused.
WholeOperations ==
    [][/\ SubSeq(db', 1, Len(db)) = db
       /\ \A i \in DOMAIN Appended : LET o == Appended[i][1] IN
            ops'[o].lost \/ Appended = Effects(o)]_vars

\* "Begins an automanaged transaction": a transaction is durable as a whole
\* or not at all.
TransactionsAtomic ==
    [][db' # db => \E o \in DOMAIN ops : db' = db \o Effects(o)]_vars

\* A connection that goes back to the queue or to the pool has no transaction
\* open at the server: its next user would commit it with START TRANSACTION.
NoStrayTransaction ==
    \A c \in Conns : conn[c].pc = "idle" => session[c] = NoTransaction

\* With one worker, what was queued first is durable first, whatever fails,
\* is retried or is executed on the synchronous connections meanwhile.
InOrder ==
    \A i, j \in DOMAIN db :
        i < j /\ ~ops[db[i][1]].direct /\ ~ops[db[j][1]].direct =>
            db[i][1] <= db[j][1]

\* Close deletes a connection only when nobody executes on it, and the queue
\* only when no worker can read it again.
NoUseAfterClose ==
    /\ \A c \in Conns : conn[c].mysql = "deleted" => conn[c].pc = "idle"
    /\ \A w \in Workers : conn[w].mysql = "deleted" => thread[w] = "deleted"
    /\ qstate = "deleted" => \A w \in Workers : thread[w] = "deleted"

\* An operation that is in the queue is executed, or flushed by Close, while
\* the process lives: the callback that waits for its future does not wait for
\* ever.
QueuedEnds ==
    \A o \in 1 .. MaxOps + Cardinality(Workers) :
        (o \in DOMAIN ops /\ ~ops[o].direct)
            ~> ((o \in DOMAIN ops /\ ops[o].status # "waiting") \/ ~Running)

\* A synchronous connection that is locked is unlocked again, on every path.
LocksReleased ==
    \A c \in Synch : (lock[c] # NoCaller) ~> (lock[c] = NoCaller \/ ~Running)

\* Close ends, although workers may be in a transaction or reconnecting: with
\* everything deleted, or at the assertion of ~MySQLConnection when a
\* reconnection had left a connection without a handle.
CloseEnds ==
    (closing = "joining") ~>
        \/ closing = "done"
        \/ ~Running /\ \E c \in Conns : NoHandle(c)

\* Where deadlocks are all that goes wrong: no transaction is given up before
\* there have been more of them than the retry loop takes.
DeadlockRecovered ==
    faults <= LoopBreaker =>
        \A o \in DOMAIN ops : Kind(o) = "trans" => ops[o].status # "failed"
=============================================================================
