------------------------- MODULE DatabasePoolProofs -------------------------
(***************************************************************************)
(* The proofs about DatabasePool.  Control says which connection has which *)
(* operation and how far Close has come; SessionInv what the MySQL server  *)
(* holds back for a connection; DbInv what the database holds of an        *)
(* operation; OrderInv, for a pool with one worker, in which order it got  *)
(* there.  A step is either outside the server, and then for a connection  *)
(* nothing, the begin or the end of an operation, or a request within one. *)
(***************************************************************************)
EXTENDS DatabasePool, FiniteSetTheorems, TLAPS

Places == {"idle", "begin", "exec", "rollback", "commit", "check", "won", "failed"}

Statuses == {"waiting", "ok", "failed", "flushed"}

Operations  == [kind : AllKinds, direct : BOOLEAN, status : Statuses,
                lost : BOOLEAN, refused : BOOLEAN]

Connections == [mysql : {"up", "lost", "null", "deleted"}, pc : Places,
                op : Nat, el : Nat, tries : Nat,
                err : {"none", "deadlock", "other"}]

Sessions == [tx : BOOLEAN, held : Seq(Nat \X Nat)]

ControlTypes ==
    /\ ops \in Seq(Operations)
    /\ queue \in Seq(Nat)
    /\ qstate \in {"active", "closed", "deleted"}
    /\ thread \in [Workers -> {"svc", "ended", "deleted"}]
    /\ lock \in [Synch -> Callers \cup {NoCaller}]
    /\ call \in [Callers -> Nat]
    /\ pings \in [Callers -> Nat]
    /\ conn \in [Conns -> Connections]
    /\ closing \in {"no", "joining", "done", "crashed"}

Busy(c) == conn[c].pc # "idle"

\* What waits in the queue was queued and nobody has begun it.
QueueInv ==
    /\ \A i \in DOMAIN queue :
            /\ queue[i] \in DOMAIN ops
            /\ ops[queue[i]].status = "waiting"
            /\ ~ops[queue[i]].direct
    /\ \A i, j \in DOMAIN queue : i < j => queue[i] < queue[j]
    /\ \A c \in Conns : Busy(c) => \A i \in DOMAIN queue : queue[i] # conn[c].op

\* A synchronous connection is busy exactly while it is locked, with the
\* operation of the caller that locked it.
CallInv ==
    /\ \A k \in Callers : call[k] # 0 =>
            /\ call[k] \in DOMAIN ops
            /\ ops[call[k]].status = "waiting"
            /\ ops[call[k]].direct
    /\ \A k, l \in Callers : call[k] # 0 /\ call[k] = call[l] => k = l
    /\ \A c \in Synch : Busy(c) <=> lock[c] # NoCaller
    /\ \A c \in Synch : Busy(c) => call[lock[c]] = conn[c].op
    /\ \A c, d \in Synch : lock[c] # NoCaller /\ lock[c] = lock[d] => c = d

\* A busy connection has an operation that is not over and that no other
\* connection has.
OpInv ==
    /\ \A c \in Conns : Busy(c) =>
            /\ conn[c].op \in DOMAIN ops
            /\ ops[conn[c].op].status = "waiting"
            /\ c \in Workers => ~ops[conn[c].op].direct
            /\ c \in Synch => ops[conn[c].op].direct
    /\ \A c, d \in Conns :
            Busy(c) /\ Busy(d) /\ conn[c].op = conn[d].op => c = d

\* Where in its operation a connection can be.
PlaceAt(c) ==
    /\ conn[c].mysql = "lost" => Requesting(c)
    /\ Busy(c) =>
        /\ conn[c].pc \in {"begin", "rollback", "commit"} => Kind(conn[c].op) = "trans"
        /\ conn[c].pc = "begin" => conn[c].el = 1
        /\ conn[c].pc = "check" => Kind(conn[c].op) \in {"trans", "empty"}
        /\ conn[c].pc = "exec" =>
            /\ Kind(conn[c].op) \in {"stmt", "query", "holder", "trans"}
            /\ conn[c].el \in 1..Size
            /\ Kind(conn[c].op) \in {"stmt", "query"} => conn[c].el = 1
        /\ conn[c].mysql = "lost" => ops[conn[c].op].lost

PlaceInv == \A c \in Conns : PlaceAt(c)

\* How far Close has come.
CloseInv ==
    /\ closing = "no" => qstate = "active"
    /\ closing = "joining" => qstate = "closed"
    /\ qstate # "active" => \A k \in Callers : call[k] = 0 /\ pings[k] = 0
    /\ qstate # "active" => queue = <<>>
    /\ \A w \in Workers : thread[w] # "svc" => conn[w].pc = "idle" /\ qstate # "active"
    /\ \A w \in Workers : conn[w].mysql = "deleted" => thread[w] = "deleted"
    /\ \A c \in Synch : conn[c].mysql = "deleted" => qstate = "deleted"
    /\ qstate = "deleted" => \A w \in Workers : thread[w] = "deleted"

Control == ControlTypes /\ QueueInv /\ CallInv /\ OpInv /\ PlaceInv /\ CloseInv

-----------------------------------------------------------------------------
(* The operators of the model. *)

\* A sequence with one element replaced.
LEMMA SeqExcept ==
  ASSUME NEW S, NEW q \in Seq(S), NEW o \in DOMAIN q, NEW x \in S,
         NEW r, r = [q EXCEPT ![o] = x]
  PROVE  /\ r \in Seq(S)
         /\ DOMAIN r = DOMAIN q
         /\ r[o] = x
         /\ \A p \in DOMAIN q : p # o => r[p] = q[p]
  OBVIOUS

\* _HandleMySQLErrno marks an operation: its other fields stay.
LEMMA LostRecord ==
  ASSUME NEW x \in Operations
  PROVE  /\ [x EXCEPT !.lost = TRUE] \in Operations
         /\ [x EXCEPT !.lost = TRUE].kind = x.kind
         /\ [x EXCEPT !.lost = TRUE].direct = x.direct
         /\ [x EXCEPT !.lost = TRUE].status = x.status
         /\ [x EXCEPT !.lost = TRUE].refused = x.refused
         /\ [x EXCEPT !.lost = TRUE].lost
<1>1. [x EXCEPT !.lost = TRUE] \in Operations
  BY Zenon DEF Operations
<1>2. [x EXCEPT !.lost = TRUE].kind = x.kind
  BY DEF Operations
<1>3. [x EXCEPT !.lost = TRUE].direct = x.direct
  BY DEF Operations
<1>4. [x EXCEPT !.lost = TRUE].status = x.status
  BY DEF Operations
<1>5. [x EXCEPT !.lost = TRUE].lost
  BY Zenon DEF Operations
<1>6. [x EXCEPT !.lost = TRUE].refused = x.refused
  BY DEF Operations
<1> QED BY <1>1, <1>2, <1>3, <1>4, <1>5, <1>6

\* An operation gets a status: its other fields stay.
LEMMA StatusRecord ==
  ASSUME NEW x \in Operations, NEW s \in Statuses
  PROVE  /\ [x EXCEPT !.status = s] \in Operations
         /\ [x EXCEPT !.status = s].kind = x.kind
         /\ [x EXCEPT !.status = s].direct = x.direct
         /\ [x EXCEPT !.status = s].lost = x.lost
         /\ [x EXCEPT !.status = s].refused = x.refused
         /\ [x EXCEPT !.status = s].status = s
  BY DEF Operations

\* An operation as it is submitted.
LEMMA NewRecord ==
  ASSUME NEW kind \in AllKinds, NEW direct \in BOOLEAN
  PROVE  /\ New(kind, direct) \in Operations
         /\ New(kind, direct).kind = kind
         /\ New(kind, direct).direct = direct
         /\ New(kind, direct).status = "waiting"
         /\ New(kind, direct).lost = FALSE
  BY DEF Operations, Statuses, New

\* What an appended operation leaves alone.
LEMMA NewFields ==
  ASSUME ops \in Seq(Operations), NEW kind \in AllKinds, NEW direct \in BOOLEAN,
         ops' = Append(ops, New(kind, direct))
  PROVE  /\ ops' \in Seq(Operations)
         /\ \A p \in DOMAIN ops : p \in DOMAIN ops' /\ ops'[p] = ops[p]
         /\ \A p \in DOMAIN ops' : p \in DOMAIN ops \/ p = Len(ops) + 1
         /\ Len(ops) + 1 \in DOMAIN ops'
         /\ \A p \in DOMAIN ops : p < Len(ops) + 1
         /\ Len(ops) + 1 \in Nat
         /\ Len(ops) + 1 # 0
         /\ ops'[Len(ops) + 1].kind = kind
         /\ ops'[Len(ops) + 1].direct = direct
         /\ ops'[Len(ops) + 1].status = "waiting"
         /\ ops'[Len(ops) + 1].lost = FALSE
<1> DEFINE x == New(kind, direct)
<1>1. /\ x \in Operations
      /\ x.kind = kind
      /\ x.direct = direct
      /\ x.status = "waiting"
      /\ x.lost = FALSE
  BY NewRecord
<1> HIDE DEF x
<1>2. ops' = Append(ops, x)
  BY DEF x
<1>3. /\ ops' \in Seq(Operations)
      /\ \A p \in DOMAIN ops : p \in DOMAIN ops' /\ ops'[p] = ops[p]
      /\ \A p \in DOMAIN ops' : p \in DOMAIN ops \/ p = Len(ops) + 1
      /\ Len(ops) + 1 \in DOMAIN ops'
      /\ \A p \in DOMAIN ops : p < Len(ops) + 1
      /\ Len(ops) + 1 \in Nat
      /\ Len(ops) + 1 # 0
      /\ ops'[Len(ops) + 1] = x
  BY <1>1, <1>2
<1> QED BY <1>1, <1>3

\* The same marking, seen from the sequence of operations.
LEMMA LostFields ==
  ASSUME ops \in Seq(Operations), NEW o \in DOMAIN ops,
         ops' = [ops EXCEPT ![o].lost = TRUE]
  PROVE  /\ ops' \in Seq(Operations)
         /\ DOMAIN ops' = DOMAIN ops
         /\ \A p \in DOMAIN ops : /\ ops'[p].kind = ops[p].kind
                                  /\ ops'[p].direct = ops[p].direct
                                  /\ ops'[p].status = ops[p].status
                                  /\ ops'[p].refused = ops[p].refused
         /\ \A p \in DOMAIN ops : p # o => ops'[p].lost = ops[p].lost
         /\ ops'[o].lost
<1> DEFINE x == [ops[o] EXCEPT !.lost = TRUE]
<1>1. ops[o] \in Operations
  OBVIOUS
<1>2. /\ x \in Operations
      /\ x.kind = ops[o].kind
      /\ x.direct = ops[o].direct
      /\ x.status = ops[o].status
      /\ x.refused = ops[o].refused
      /\ x.lost
  BY <1>1, LostRecord
<1>3. ops' = [ops EXCEPT ![o] = x]
  OBVIOUS
<1>4. x \in Operations
  BY <1>2
<1> HIDE DEF x
<1>5. ASSUME NEW r, r = [ops EXCEPT ![o] = x]
      PROVE  /\ r \in Seq(Operations)
             /\ DOMAIN r = DOMAIN ops
             /\ r[o] = x
             /\ \A p \in DOMAIN ops : p # o => r[p] = ops[p]
  BY <1>4, <1>5, SeqExcept, Zenon
<1>6. /\ ops' \in Seq(Operations)
      /\ DOMAIN ops' = DOMAIN ops
      /\ ops'[o] = x
      /\ \A p \in DOMAIN ops : p # o => ops'[p] = ops[p]
  BY <1>5, <1>3, Zenon
<1> QED BY <1>2, <1>6

\* The same change of status, seen from the sequence of operations.
LEMMA StatusFields ==
  ASSUME ops \in Seq(Operations), NEW o \in DOMAIN ops, NEW s \in Statuses,
         ops' = [ops EXCEPT ![o].status = s]
  PROVE  /\ ops' \in Seq(Operations)
         /\ DOMAIN ops' = DOMAIN ops
         /\ \A p \in DOMAIN ops : /\ ops'[p].kind = ops[p].kind
                                  /\ ops'[p].direct = ops[p].direct
                                  /\ ops'[p].lost = ops[p].lost
                                  /\ ops'[p].refused = ops[p].refused
         /\ \A p \in DOMAIN ops : p # o => ops'[p].status = ops[p].status
         /\ ops'[o].status = s
<1> DEFINE x == [ops[o] EXCEPT !.status = s]
<1>1. ops[o] \in Operations
  OBVIOUS
<1>2. /\ x \in Operations
      /\ x.kind = ops[o].kind
      /\ x.direct = ops[o].direct
      /\ x.lost = ops[o].lost
      /\ x.refused = ops[o].refused
      /\ x.status = s
  BY <1>1, StatusRecord
<1>3. ops' = [ops EXCEPT ![o] = x]
  OBVIOUS
<1> HIDE DEF x
<1>4. /\ ops' \in Seq(Operations)
      /\ DOMAIN ops' = DOMAIN ops
      /\ ops'[o] = x
      /\ \A p \in DOMAIN ops : p # o => ops'[p] = ops[p]
  BY <1>2, <1>3, SeqExcept
<1> QED BY <1>2, <1>4

\* Where SQLOperation::call begins, by kind of operation.
LEMMA StartFields ==
  ASSUME NEW r \in Connections, NEW kind \in AllKinds
  PROVE  /\ Start(r, kind) \in Connections
         /\ Start(r, kind).mysql = r.mysql
         /\ Start(r, kind).op = r.op
         /\ Start(r, kind).el = 1
         /\ Start(r, kind).pc # "idle"
         /\ kind = "trans" => Start(r, kind).pc = "begin"
         /\ kind = "empty" => Start(r, kind).pc = "check"
         /\ kind = "ping" => Start(r, kind).pc = "won"
         /\ kind \notin {"trans", "empty", "ping"} => Start(r, kind).pc = "exec"
  BY DEF Start, Connections, Places

\* TransactionTask::Execute after a failure: from the beginning, once more, or given up.
LEMMA AfterFailureFields ==
  ASSUME NEW r \in Connections, Kind(r.op) \in {"trans", "empty"}
  PROVE  /\ AfterFailure(r) \in Connections
         /\ AfterFailure(r).mysql = r.mysql
         /\ AfterFailure(r).op = r.op
         /\ \/ /\ AfterFailure(r).pc = "begin"
               /\ AfterFailure(r).el = 1
               /\ Kind(r.op) = "trans"
            \/ AfterFailure(r).pc = "check"
            \/ AfterFailure(r).pc = "failed"
<1> DEFINE s == [r EXCEPT !.tries = @ + 1]
           f == [r EXCEPT !.pc = "failed"]
<1>1. s \in Connections /\ s.mysql = r.mysql /\ s.op = r.op
  BY DEF Connections
<1>2. f \in Connections /\ f.mysql = r.mysql /\ f.op = r.op /\ f.pc = "failed"
  BY DEF Connections, Places
<1>3. AfterFailure(r) = IF TryAgain(r) THEN Start(s, Kind(r.op)) ELSE f
  BY DEF AfterFailure
<1> HIDE DEF s, f
<1>4. CASE TryAgain(r)
  BY <1>1, <1>3, <1>4, StartFields DEF AllKinds
<1>5. CASE ~TryAgain(r)
  BY <1>2, <1>3, <1>5
<1> QED BY <1>4, <1>5

\* Where Returned leads from each place.
LEMMA ReturnedFields ==
  ASSUME NEW r \in Connections, NEW ok \in BOOLEAN, r.pc # "idle"
  PROVE  /\ Returned(r, ok) \in Connections
         /\ Returned(r, ok).mysql = r.mysql
         /\ Returned(r, ok).op = r.op
         /\ Returned(r, ok).pc # "idle"
         /\ r.pc = "begin" => Returned(r, ok).pc = "exec" /\ Returned(r, ok).el = r.el
         /\ r.pc = "rollback" => Returned(r, ok).pc = "check"
         /\ r.pc = "commit" => Returned(r, ok).pc = "won"
         /\ r.pc = "exec" /\ Kind(r.op) \notin {"trans", "holder"} =>
                Returned(r, ok).pc = IF ok THEN "won" ELSE "failed"
         /\ r.pc = "exec" /\ Kind(r.op) = "holder" =>
                \/ r.el < Size /\ Returned(r, ok).pc = "exec" /\ Returned(r, ok).el = r.el + 1
                \/ Returned(r, ok).pc = "won"
         /\ r.pc = "exec" /\ Kind(r.op) = "trans" /\ ~ok => Returned(r, ok).pc = "rollback"
         /\ r.pc = "exec" /\ Kind(r.op) = "trans" /\ ok =>
                \/ r.el < Size /\ Returned(r, ok).pc = "exec" /\ Returned(r, ok).el = r.el + 1
                \/ ~(r.el < Size) /\ Returned(r, ok).pc = "commit"
  BY BoundAssumption DEF Returned, Connections, Places, AfterTransactionElement, AfterHolderElement

\* The queue without its first operation: the others move up by one place.
LEMMA Rest ==
  ASSUME NEW q \in Seq(Nat), q # <<>>
  PROVE  /\ Without(q, 1) \in Seq(Nat)
         /\ Len(Without(q, 1)) = Len(q) - 1
         /\ \A i \in DOMAIN Without(q, 1) :
                i + 1 \in DOMAIN q /\ Without(q, 1)[i] = q[i + 1]
         /\ 1 \in DOMAIN q /\ q[1] \in Nat
<1>1. Len(q) \in Nat /\ Len(q) # 0 /\ 1 \in DOMAIN q /\ q[1] \in Nat
  OBVIOUS
<1> DEFINE a == SubSeq(q, 1, 0)
           b == SubSeq(q, 2, Len(q))
<1>2. a \in Seq(Nat) /\ Len(a) = 0
  BY <1>1
<1>3. b \in Seq(Nat)
  BY <1>1
<1>4. Len(q) = 1 => Len(b) = 0
  BY <1>1
<1>5. Len(q) >= 2 => Len(b) = Len(q) - 1
  BY <1>1
<1> HIDE DEF b
<1>6. \A n \in Nat : n = 0 \/ n = 1 \/ n >= 2
  OBVIOUS
<1>7. Len(q) = 1 \/ Len(q) >= 2
  BY <1>1, <1>6, Zenon
<1>8. Len(q) = 1 => Len(q) - 1 = 0
  OBVIOUS
<1>9. b \in Seq(Nat) /\ Len(b) = Len(q) - 1
  BY <1>3, <1>4, <1>5, <1>7, <1>8
<1>10. \A i \in DOMAIN b : i + 1 \in DOMAIN q /\ b[i] = q[i + 1]
  BY <1>1 DEF b
<1>11. Without(q, 1) = a \o b
  BY DEF Without, b
<1> HIDE DEF a
<1>12. /\ a \o b \in Seq(Nat)
      /\ Len(a \o b) = Len(b)
      /\ DOMAIN (a \o b) = DOMAIN b
      /\ \A i \in DOMAIN b : (a \o b)[i] = b[i]
  BY <1>2, <1>9
<1> QED BY <1>1, <1>9, <1>11, <1>10, <1>12

-----------------------------------------------------------------------------
(* What the steps do. *)

\* Enqueue puts a new operation at the back.
LEMMA EnqueueEffect ==
  ASSUME Control, NEW kind \in AllKinds, Enqueue(kind)
  PROVE  /\ qstate = "active"
         /\ ops' = Append(ops, New(kind, FALSE))
         /\ queue' \in Seq(Nat)
         /\ \A i \in DOMAIN queue : i \in DOMAIN queue' /\ queue'[i] = queue[i]
         /\ \A i \in DOMAIN queue' :
                i \in DOMAIN queue \/ (i = Len(queue) + 1 /\ queue'[i] = Len(ops) + 1)
         /\ \A i \in DOMAIN queue : i < Len(queue) + 1
<1>1. Len(ops) + 1 \in Nat
  BY DEF Control, ControlTypes
<1> QED BY <1>1 DEF Enqueue, Control, ControlTypes

\* A step of a connection that does not end its operation.
Within(c) ==
    \/ Succeeds(c)
    \/ Fails(c)
    \/ Refused(c)
    \/ Loses(c)
    \/ Reopens(c)
    \/ ReopenFails(c)
    \/ HasNoHandle(c)
    \/ Checks(c)

\* Nothing is deleted under a connection that executes.
LEMMA BusyUndeleted ==
  ASSUME Control, NEW c \in Conns, conn[c].mysql = "deleted"
  PROVE  conn[c].pc = "idle"
<1>1. CASE c \in Workers
  BY <1>1 DEF Control, CloseInv
<1>2. CASE c \in Synch
  <2>1. qstate = "deleted"
    BY <1>2 DEF Control, CloseInv
  <2>2. \A k \in Callers : call[k] = 0
    BY <2>1 DEF Control, CloseInv
  <2>3. SUFFICES ASSUME Busy(c) PROVE FALSE
    BY DEF Busy
  <2>4. lock[c] \in Callers /\ call[lock[c]] = conn[c].op
    BY <1>2, <2>3 DEF Control, CallInv, ControlTypes
  <2>5. conn[c].op \in DOMAIN ops
    BY <2>3 DEF Control, OpInv
  <2> QED BY <2>2, <2>4, <2>5 DEF Control, ControlTypes
<1> QED BY <1>1, <1>2 DEF Conns

\* A connection that breaks marks its own operation and no other.
LEMMA LostEffect ==
  ASSUME Control, NEW c \in Conns, Loses(c)
  PROVE  /\ ops' \in Seq(Operations)
         /\ DOMAIN ops' = DOMAIN ops
         /\ \A p \in DOMAIN ops : /\ ops'[p].kind = ops[p].kind
                                  /\ ops'[p].direct = ops[p].direct
                                  /\ ops'[p].status = ops[p].status
                                  /\ ops'[p].refused = ops[p].refused
         /\ \A p \in DOMAIN ops : p # conn[c].op => ops'[p].lost = ops[p].lost
         /\ ops'[conn[c].op].lost
<1>1. conn[c].op \in DOMAIN ops
  BY DEF Control, OpInv, Busy, Loses, Requesting
<1>2. ops \in Seq(Operations)
  BY DEF Control, ControlTypes
<1>3. ops' = [ops EXCEPT ![conn[c].op].lost = TRUE]
  BY Zenon DEF Loses
<1> QED BY <1>1, <1>2, <1>3, LostFields, Zenon

\* A request that is refused marks its own operation and no other.
LEMMA RefusedEffect ==
  ASSUME Control, NEW c \in Conns, Refused(c)
  PROVE  /\ ops' \in Seq(Operations)
         /\ DOMAIN ops' = DOMAIN ops
         /\ \A p \in DOMAIN ops : /\ ops'[p].kind = ops[p].kind
                                  /\ ops'[p].direct = ops[p].direct
                                  /\ ops'[p].status = ops[p].status
         /\ \A p \in DOMAIN ops : p # conn[c].op => ops'[p] = ops[p]
         /\ \A p \in DOMAIN ops : ops[p].lost => ops'[p].lost
         /\ conn[c].pc = "begin" => ops'[conn[c].op].lost
         /\ conn[c].pc = "commit" => ops'[conn[c].op].refused
<1>1. conn[c].op \in DOMAIN ops
  BY DEF Control, OpInv, Busy, Refused
<1>2. ops \in Seq(Operations)
  BY DEF Control, ControlTypes
<1> DEFINE x == ops[conn[c].op]
           l == x.lost \/ conn[c].pc = "begin"
           f == x.refused \/ conn[c].pc = "commit"
           y == [x EXCEPT !.lost = l, !.refused = f]
<1>3. ops' = [ops EXCEPT ![conn[c].op].lost = @ \/ conn[c].pc = "begin",
                         ![conn[c].op].refused = @ \/ conn[c].pc = "commit"]
  BY DEF Refused
<1>4. ops' = [ops EXCEPT ![conn[c].op] = y]
  BY <1>1, <1>2, <1>3
<1>5. x \in Operations
  BY <1>1, <1>2
<1>6. l \in BOOLEAN /\ f \in BOOLEAN
  OBVIOUS
<1>7. l = (x.lost \/ conn[c].pc = "begin") /\ f = (x.refused \/ conn[c].pc = "commit")
  OBVIOUS
<1>8. x = ops[conn[c].op]
  OBVIOUS
<1> HIDE DEF x, l, f
<1>9. y \in Operations
  BY <1>5, <1>6, Zenon DEF Operations
<1>10. y.kind = x.kind /\ y.direct = x.direct /\ y.status = x.status
  BY <1>5 DEF Operations
<1>11. y.lost = l /\ y.refused = f
  BY <1>5 DEF Operations
<1>12. /\ y \in Operations
      /\ y.kind = x.kind
      /\ y.direct = x.direct
      /\ y.status = x.status
      /\ y.lost = l
      /\ y.refused = f
  BY <1>9, <1>10, <1>11
<1> HIDE DEF y
<1>13. /\ ops' \in Seq(Operations)
      /\ DOMAIN ops' = DOMAIN ops
      /\ ops'[conn[c].op] = y
      /\ \A p \in DOMAIN ops : p # conn[c].op => ops'[p] = ops[p]
  BY <1>1, <1>2, <1>4, <1>12, SeqExcept
<1> QED BY <1>12, <1>13, <1>7, <1>8

\* What a step within an operation does to the operations.
LEMMA WithinOps ==
  ASSUME Control, NEW c \in Conns, Within(c)
  PROVE  /\ ops' \in Seq(Operations)
         /\ DOMAIN ops' = DOMAIN ops
         /\ \A p \in DOMAIN ops : /\ ops'[p].kind = ops[p].kind
                                  /\ ops'[p].direct = ops[p].direct
                                  /\ ops'[p].status = ops[p].status
         /\ \A p \in DOMAIN ops : p # conn[c].op =>
                ops'[p].lost = ops[p].lost /\ ops'[p].refused = ops[p].refused
         /\ \A p \in DOMAIN ops : ops[p].lost => ops'[p].lost
<1>1. CASE Loses(c)
  BY <1>1, LostEffect, Zenon
<1>3. CASE Refused(c)
  BY <1>3, RefusedEffect, Zenon
<1>2. CASE ~Loses(c) /\ ~Refused(c)
  <2>1. ops' = ops
    BY <1>2, Zenon DEF Within, Succeeds, Fails, Reopens, ReopenFails, HasNoHandle, Checks, Elsewhere
  <2> QED BY <2>1 DEF Control, ControlTypes
<1> QED BY <1>1, <1>2, <1>3

\* And to everything but the session.
LEMMA WithinFrame ==
  ASSUME Control, NEW c \in Conns, Within(c)
  PROVE  UNCHANGED <<queue, qstate, thread, lock, call, pings, closing>>
  BY DEF Within, Succeeds, Fails, Refused, Loses, Reopens, ReopenFails, HasNoHandle, Checks, Elsewhere, clients

\* A request changes its own connection only, and leads to a place that fits the operation.
LEMMA WithinConn ==
  ASSUME Control, NEW c \in Conns, Within(c)
  PROVE  /\ conn' \in [Conns -> Connections]
         /\ \A d \in Conns : d # c => conn'[d] = conn[d]
         /\ conn[c].pc # "idle"
         /\ conn'[c].pc # "idle"
         /\ conn'[c].op = conn[c].op
         /\ conn'[c].mysql # "deleted"
         /\ PlaceAt(c)'
<1>1. /\ conn \in [Conns -> Connections]
      /\ conn[c] \in Connections
      /\ PlaceAt(c)
  BY DEF Control, ControlTypes, PlaceInv
<1>2. conn[c].pc # "idle" => /\ conn[c].op \in DOMAIN ops
                             /\ Kind(conn[c].op) \in AllKinds
                             /\ ops'[conn[c].op].kind = Kind(conn[c].op)
                             /\ ops[conn[c].op].lost => ops'[conn[c].op].lost
                             /\ conn[c].mysql # "deleted"
  <2>1. SUFFICES ASSUME conn[c].pc # "idle"
                 PROVE  /\ conn[c].op \in DOMAIN ops
                        /\ Kind(conn[c].op) \in AllKinds
                        /\ ops'[conn[c].op].kind = Kind(conn[c].op)
                        /\ ops[conn[c].op].lost => ops'[conn[c].op].lost
                        /\ conn[c].mysql # "deleted"
    OBVIOUS
  <2>2. conn[c].op \in DOMAIN ops
    BY <2>1 DEF Control, OpInv, Busy
  <2>3. ops[conn[c].op] \in Operations
    BY <2>2 DEF Control, ControlTypes
  <2>4. Kind(conn[c].op) \in AllKinds
    BY <2>3 DEF Operations, Kind
  <2>5. /\ ops'[conn[c].op].kind = ops[conn[c].op].kind
        /\ ops[conn[c].op].lost => ops'[conn[c].op].lost
    BY <2>2, WithinOps
  <2> QED BY <2>1, <2>2, <2>4, <2>5, BusyUndeleted DEF Kind
<1>3. ASSUME NEW r \in Connections, NEW ok \in BOOLEAN,
             r.mysql \in {"up", "null"},
             r.op = conn[c].op,
             r.el = conn[c].el,
             r.pc = conn[c].pc,
             Requesting(c),
             conn' = [conn EXCEPT ![c] = Returned(r, ok)]
      PROVE  /\ conn' \in [Conns -> Connections]
             /\ \A d \in Conns : d # c => conn'[d] = conn[d]
             /\ conn[c].pc # "idle"
             /\ conn'[c].pc # "idle"
             /\ conn'[c].op = conn[c].op
             /\ conn'[c].mysql # "deleted"
             /\ PlaceAt(c)'
  <2> DEFINE x == Returned(r, ok)
  <2>1. conn[c].pc \in {"begin", "exec", "rollback", "commit"}
    BY <1>3 DEF Requesting
  <2>2. /\ x \in Connections
        /\ x.mysql = r.mysql
        /\ x.op = conn[c].op
        /\ x.pc # "idle"
    BY <2>1, <1>3, ReturnedFields
  <2>3. x.pc \in {"begin", "rollback", "commit"} => Kind(x.op) = "trans"
    BY <2>1, <1>1, <1>2, <1>3, ReturnedFields DEF PlaceAt, Busy
  <2>4. x.pc = "begin" => x.el = 1
    BY <2>1, <1>1, <1>2, <1>3, ReturnedFields DEF PlaceAt, Busy
  <2>5. x.pc = "check" => Kind(x.op) \in {"trans", "empty"}
    BY <2>1, <1>1, <1>2, <1>3, ReturnedFields DEF PlaceAt, Busy
  <2>6. x.pc = "exec" => /\ Kind(x.op) \in {"stmt", "query", "holder", "trans"}
                         /\ x.el \in 1..Size
                         /\ Kind(x.op) \in {"stmt", "query"} => x.el = 1
    BY <2>1, <1>1, <1>2, <1>3, ReturnedFields, BoundAssumption DEF PlaceAt, Busy
  <2> HIDE DEF x
  <2>7. /\ conn' \in [Conns -> Connections]
        /\ conn'[c] = x
        /\ \A d \in Conns : d # c => conn'[d] = conn[d]
    BY <2>2, <1>3, <1>1 DEF x
  <2> QED BY <2>1, <2>2, <2>3, <2>5, <2>6, <2>7, <2>4, <1>2, <1>3 DEF PlaceAt, Busy, Kind
<1>4. ASSUME NEW e \in {"none", "deadlock", "other"}, NEW ok \in BOOLEAN,
             Returns(c, ok, e), conn[c].mysql \in {"up", "null"}, Requesting(c)
      PROVE  \E r \in Connections :
                /\ r.mysql \in {"up", "null"}
                /\ r.op = conn[c].op
                /\ r.el = conn[c].el
                /\ r.pc = conn[c].pc
                /\ conn' = [conn EXCEPT ![c] = Returned(r, ok)]
  <2> DEFINE r == [conn[c] EXCEPT !.err = e]
  <2>1. /\ r \in Connections
        /\ r.mysql = conn[c].mysql
        /\ r.op = conn[c].op
        /\ r.el = conn[c].el
        /\ r.pc = conn[c].pc
    BY <1>1 DEF Connections
  <2>2. conn' = [conn EXCEPT ![c] = Returned(r, ok)]
    BY <1>1, <1>4 DEF Returns
  <2> HIDE DEF r
  <2> QED BY <2>1, <2>2, <1>4
<1>5. CASE Succeeds(c)
  BY <1>3, <1>4, <1>5 DEF Succeeds, Requesting
<1>6. CASE Fails(c)
  BY <1>3, <1>4, <1>6 DEF Fails, Requesting
<1>12. CASE Refused(c)
  BY <1>3, <1>4, <1>12 DEF Refused, Requesting
<1>7. CASE HasNoHandle(c)
  BY <1>3, <1>4, <1>7 DEF HasNoHandle, Requesting
<1>8. CASE Loses(c)
  <2>1. /\ conn[c].pc # "idle"
        /\ conn' = [conn EXCEPT ![c].mysql = "lost"]
        /\ ops'[conn[c].op].lost
    BY <1>8, LostEffect DEF Loses, Requesting
  <2>2. /\ conn' \in [Conns -> Connections]
        /\ \A d \in Conns : d # c => conn'[d] = conn[d]
        /\ conn'[c].pc = conn[c].pc
        /\ conn'[c].op = conn[c].op
        /\ conn'[c].el = conn[c].el
        /\ conn'[c].mysql = "lost"
    BY <2>1, <1>1 DEF Connections
  <2> QED BY <1>1, <1>2, <1>8, <2>1, <2>2 DEF PlaceAt, Busy, Kind, Loses, Requesting
<1>9. CASE Reopens(c)
  <2>1. conn[c].mysql = "lost" /\ conn' = [conn EXCEPT ![c].mysql = "up", ![c].err = "none"]
    BY <1>9 DEF Reopens
  <2>2. /\ conn' \in [Conns -> Connections]
        /\ \A d \in Conns : d # c => conn'[d] = conn[d]
        /\ conn'[c].pc = conn[c].pc
        /\ conn'[c].op = conn[c].op
        /\ conn'[c].el = conn[c].el
        /\ conn'[c].mysql = "up"
    BY <2>1, <1>1 DEF Connections
  <2>3. Requesting(c)
    BY <2>1, <1>1 DEF PlaceAt
  <2> QED BY <1>1, <1>2, <2>1, <2>2, <2>3 DEF PlaceAt, Busy, Kind, Requesting
<1>10. CASE ReopenFails(c)
  <2>1. conn[c].mysql = "lost" /\ Requesting(c)
    BY <1>1, <1>10 DEF ReopenFails, PlaceAt
  <2>2. CASE conn' = conn
    BY <1>1, <1>2, <2>1, <2>2 DEF PlaceAt, Busy, Kind, Requesting
  <2>3. CASE conn' = [conn EXCEPT ![c] =
                         Returned([@ EXCEPT !.mysql = "null", !.err = "none"], FALSE)]
    <3> DEFINE r == [conn[c] EXCEPT !.mysql = "null", !.err = "none"]
    <3>1. /\ r \in Connections
          /\ r.mysql = "null"
          /\ r.op = conn[c].op
          /\ r.el = conn[c].el
          /\ r.pc = conn[c].pc
      BY <1>1 DEF Connections
    <3>2. conn' = [conn EXCEPT ![c] = Returned(r, FALSE)]
      BY <1>1, <2>3
    <3> HIDE DEF r
    <3> QED BY <3>1, <3>2, <2>1, <1>3
  <2> QED BY <1>10, <2>2, <2>3 DEF ReopenFails
<1>11. CASE Checks(c)
  <2>1. /\ conn[c].pc = "check"
        /\ Kind(conn[c].op) \in {"trans", "empty"}
        /\ conn[c].mysql # "lost"
    BY <1>1, <1>11 DEF Checks, PlaceAt, Busy, Requesting
  <2> DEFINE x == AfterFailure(conn[c])
  <2>2. conn' = [conn EXCEPT ![c] = x]
    BY <1>11 DEF Checks
  <2>3. /\ x \in Connections
        /\ x.mysql = conn[c].mysql
        /\ x.op = conn[c].op
        /\ \/ x.pc = "begin" /\ x.el = 1 /\ Kind(conn[c].op) = "trans"
           \/ x.pc = "check"
           \/ x.pc = "failed"
    BY <1>1, <2>1, AfterFailureFields
  <2> HIDE DEF x
  <2>4. /\ conn' \in [Conns -> Connections]
        /\ conn'[c] = x
        /\ \A d \in Conns : d # c => conn'[d] = conn[d]
    BY <2>2, <2>3, <1>1
  <2> QED BY <1>1, <1>2, <2>1, <2>3, <2>4 DEF PlaceAt, Busy, Kind, Requesting
<1> QED BY <1>5, <1>6, <1>7, <1>8, <1>9, <1>10, <1>11, <1>12 DEF Within

\* The end of an operation gives it the status its place has earned.
LEMMA FinishEffect ==
  ASSUME Control, NEW c \in Conns, Finish(c)
  PROVE  /\ conn[c].pc \in {"won", "failed"}
         /\ conn[c].op \in DOMAIN ops
         /\ ops' \in Seq(Operations)
         /\ DOMAIN ops' = DOMAIN ops
         /\ \A p \in DOMAIN ops : /\ ops'[p].kind = ops[p].kind
                                  /\ ops'[p].direct = ops[p].direct
                                  /\ ops'[p].lost = ops[p].lost
                                  /\ ops'[p].refused = ops[p].refused
         /\ \A p \in DOMAIN ops : p # conn[c].op => ops'[p].status = ops[p].status
         /\ ops'[conn[c].op].status = IF conn[c].pc = "won" THEN "ok" ELSE "failed"
         /\ conn' \in [Conns -> Connections]
         /\ \A d \in Conns : d # c => conn'[d] = conn[d]
         /\ conn'[c].pc = "idle"
         /\ conn'[c].mysql = conn[c].mysql
         /\ conn[c].mysql \notin {"lost", "deleted"}
<1>1. conn[c].pc \in {"won", "failed"} /\ Busy(c)
  BY DEF Finish, Busy
<1>2. conn[c].op \in DOMAIN ops
  BY <1>1 DEF Control, OpInv
<1> DEFINE s == IF conn[c].pc = "won" THEN "ok" ELSE "failed"
<1>3. s \in Statuses
  BY DEF Statuses
<1>4. ops' = [ops EXCEPT ![conn[c].op].status = s]
  BY DEF Finish
<1>5. ops \in Seq(Operations) /\ conn \in [Conns -> Connections]
  BY DEF Control, ControlTypes
<1> HIDE DEF s
<1>6. /\ ops' \in Seq(Operations)
      /\ DOMAIN ops' = DOMAIN ops
      /\ \A p \in DOMAIN ops : /\ ops'[p].kind = ops[p].kind
                               /\ ops'[p].direct = ops[p].direct
                               /\ ops'[p].lost = ops[p].lost
                               /\ ops'[p].refused = ops[p].refused
      /\ \A p \in DOMAIN ops : p # conn[c].op => ops'[p].status = ops[p].status
      /\ ops'[conn[c].op].status = s
  BY <1>2, <1>3, <1>4, <1>5, StatusFields, Zenon
<1> DEFINE x == [Connected EXCEPT !.mysql = conn[c].mysql, !.err = conn[c].err]
<1>7. x \in Connections /\ x.pc = "idle" /\ x.mysql = conn[c].mysql
  BY <1>5 DEF Connections, Connected, Places
<1>8. conn' = [conn EXCEPT ![c] = x]
  BY DEF Finish
<1> HIDE DEF x
<1>9. /\ conn' \in [Conns -> Connections]
      /\ \A d \in Conns : d # c => conn'[d] = conn[d]
      /\ conn'[c] = x
  BY <1>5, <1>7, <1>8
<1>10. conn[c].mysql # "deleted"
  BY <1>1, BusyUndeleted DEF Busy
<1>11. conn[c].mysql # "lost"
  BY <1>1 DEF Control, PlaceInv, PlaceAt, Requesting
<1> QED BY <1>1, <1>2, <1>6, <1>7, <1>9, <1>10, <1>11 DEF s

\* What GetFreeConnection and Dequeue have in common.
LEMMA StartEffect ==
  ASSUME Control, NEW c \in Conns, ~Busy(c), NEW o \in DOMAIN ops,
         conn' = [conn EXCEPT ![c] = Start([@ EXCEPT !.op = o], Kind(o))],
         ops' = ops
  PROVE  /\ conn' \in [Conns -> Connections]
         /\ \A d \in Conns : d # c => conn'[d] = conn[d]
         /\ conn'[c].pc \in {"begin", "check", "won", "exec"}
         /\ conn'[c].op = o
         /\ conn'[c].mysql = conn[c].mysql
         /\ conn'[c].el = 1
         /\ conn'[c].pc = "won" => Kind(o) = "ping"
         /\ conn'[c].pc = "exec" => Kind(o) \in {"stmt", "query", "holder"}
         /\ PlaceAt(c)'
<1> DEFINE r == [conn[c] EXCEPT !.op = o]
           x == Start(r, Kind(o))
<1>1. conn[c] \in Connections /\ conn \in [Conns -> Connections] /\ PlaceAt(c)
  BY DEF Control, ControlTypes, PlaceInv
<1>2. o \in Nat /\ Kind(o) \in AllKinds
  <2>1. o \in Nat /\ ops[o] \in Operations
    BY DEF Control, ControlTypes
  <2> QED BY <2>1 DEF Kind, Operations
<1>3. r \in Connections /\ r.mysql = conn[c].mysql /\ r.op = o
  BY <1>1, <1>2 DEF Connections
<1>4. conn' = [conn EXCEPT ![c] = x]
  BY <1>1
<1> HIDE DEF r
<1>5. /\ x \in Connections
      /\ x.mysql = conn[c].mysql
      /\ x.op = o
      /\ x.el = 1
      /\ x.pc \in {"begin", "check", "won", "exec"}
      /\ x.pc = "won" => Kind(o) = "ping"
      /\ x.pc = "begin" => Kind(o) = "trans"
      /\ x.pc = "check" => Kind(o) = "empty"
      /\ x.pc = "exec" => Kind(o) \in {"stmt", "query", "holder"}
  BY <1>2, <1>3, StartFields DEF AllKinds
<1> HIDE DEF x
<1>6. /\ conn' \in [Conns -> Connections]
      /\ conn'[c] = x
      /\ \A d \in Conns : d # c => conn'[d] = conn[d]
  BY <1>1, <1>4, <1>5
<1>7. conn[c].mysql # "lost"
  BY <1>1 DEF PlaceAt, Busy, Requesting
<1>8. Kind(o)' = Kind(o)
  BY DEF Kind
<1>9. 1 \in 1 .. Size
  BY BoundAssumption
<1> QED BY <1>5, <1>6, <1>7, <1>8, <1>9 DEF PlaceAt, Busy, Requesting, Kind

-----------------------------------------------------------------------------
(* The control of the pool: the invariant holds at first and every step    *)
(* keeps it.                                                               *)

\* The initial states satisfy Control.
LEMMA ControlInit == Init => Control
<1> SUFFICES ASSUME Init PROVE Control
  OBVIOUS
<1>1. Connected \in Connections /\ Connected.pc = "idle" /\ Connected.mysql = "up"
  BY DEF Connected, Connections, Places
<1>2. \A c \in Conns : conn[c] = Connected
  BY DEF Init
<1>3. ControlTypes
  <2>1. conn \in [Conns -> Connections]
    BY <1>1 DEF Init
  <2>2. ops \in Seq(Operations) /\ queue \in Seq(Nat)
    BY DEF Init
  <2> QED BY <2>1, <2>2 DEF ControlTypes, Init
<1>4. QueueInv
  BY <1>1, <1>2 DEF QueueInv, Init, Busy
<1>5. CallInv
  BY <1>1, <1>2 DEF CallInv, Init, Busy, Conns
<1>6. OpInv
  BY <1>1, <1>2 DEF OpInv, Busy
<1>7. PlaceInv
  BY <1>1, <1>2 DEF PlaceInv, PlaceAt, Busy
<1>8. CloseInv
  BY <1>1, <1>2 DEF CloseInv, Init, Conns
<1> QED BY <1>3, <1>4, <1>5, <1>6, <1>7, <1>8 DEF Control

\* A new operation is nobody's yet.
LEMMA ControlSubmit ==
  ASSUME Control, NEW kind \in AllKinds, NEW direct \in BOOLEAN,
         ops' = Append(ops, New(kind, direct)), UNCHANGED conn
  PROVE  /\ OpInv'
         /\ PlaceInv'
         /\ \A c \in Conns : Busy(c) => conn[c].op # Len(ops) + 1
<1>1. ops \in Seq(Operations)
  BY DEF Control, ControlTypes
<1>2. /\ \A p \in DOMAIN ops : p \in DOMAIN ops' /\ ops'[p] = ops[p]
      /\ \A p \in DOMAIN ops : p < Len(ops) + 1
      /\ Len(ops) + 1 \in Nat
  BY <1>1, NewFields, Zenon
<1>3. \A c \in Conns : Busy(c) => conn[c].op \in DOMAIN ops
  BY DEF Control, OpInv
<1>4. OpInv'
  BY <1>2, <1>3 DEF Control, OpInv, Busy
<1>5. PlaceInv'
  BY <1>2, <1>3 DEF Control, PlaceInv, PlaceAt, Busy, Kind, Requesting
<1>6. \A c \in Conns : Busy(c) => conn[c].op # Len(ops) + 1
  BY <1>1, <1>2, <1>3
<1> QED BY <1>4, <1>5, <1>6

\* Enqueue keeps Control: the new operation is nobody's yet.
LEMMA ControlEnqueue ==
  ASSUME Control, NEW kind \in AllKinds, Enqueue(kind),
         UNCHANGED <<qstate, thread, lock, call, conn, closing>>,
         pings' \in [Callers -> Nat],
         qstate = "active"
  PROVE  Control'
<1>1. ops' = Append(ops, New(kind, FALSE))
  BY EnqueueEffect
<1>2. /\ queue' \in Seq(Nat)
      /\ \A i \in DOMAIN queue : i \in DOMAIN queue' /\ queue'[i] = queue[i]
      /\ \A i \in DOMAIN queue' :
             i \in DOMAIN queue \/ (i = Len(queue) + 1 /\ queue'[i] = Len(ops) + 1)
      /\ \A i \in DOMAIN queue : i < Len(queue) + 1
  BY EnqueueEffect
<1>3. /\ OpInv'
      /\ PlaceInv'
      /\ \A c \in Conns : Busy(c) => conn[c].op # Len(ops) + 1
  BY <1>1, ControlSubmit
<1>4. ops \in Seq(Operations)
  BY DEF Control, ControlTypes
<1>5. /\ ops' \in Seq(Operations)
      /\ \A p \in DOMAIN ops : p \in DOMAIN ops' /\ ops'[p] = ops[p]
      /\ Len(ops) + 1 \in DOMAIN ops'
      /\ \A p \in DOMAIN ops : p < Len(ops) + 1
      /\ ops'[Len(ops) + 1].direct = FALSE
      /\ ops'[Len(ops) + 1].status = "waiting"
  BY <1>1, <1>4, NewFields, Zenon
<1>6. ControlTypes'
  BY <1>2, <1>5 DEF Control, ControlTypes
<1>7. QueueInv'
  <2>1. \A i \in DOMAIN queue' : /\ queue'[i] \in DOMAIN ops'
                                 /\ ops'[queue'[i]].status = "waiting"
                                 /\ ~ops'[queue'[i]].direct
    BY <1>2, <1>5 DEF Control, QueueInv
  <2>2. \A i, j \in DOMAIN queue' : i < j => queue'[i] < queue'[j]
    BY <1>2, <1>5, SMTT(30) DEF Control, QueueInv, ControlTypes
  <2>3. \A c \in Conns : Busy(c) => \A i \in DOMAIN queue' : queue'[i] # conn[c].op
    BY <1>2, <1>3 DEF Control, QueueInv
  <2> QED BY <2>1, <2>2, <2>3 DEF QueueInv, Busy
<1>8. CallInv'
  BY <1>5 DEF Control, CallInv, Busy
<1>9. CloseInv'
  BY DEF Control, CloseInv
<1> QED BY <1>3, <1>6, <1>7, <1>8, <1>9 DEF Control

\* AsyncQuery, Execute and CommitTransaction keep Control.
LEMMA ControlDelay ==
  ASSUME Control, NEW k \in Callers, Delay(k)
  PROVE  Control'
<1>1. PICK kind \in Kinds : Enqueue(kind)
  BY DEF Delay
<1>2. kind \in AllKinds
  BY PoolAssumption
<1>3. /\ UNCHANGED <<qstate, thread, lock, call, pings, conn, closing>>
      /\ qstate = "active"
  BY DEF Delay, Enqueue, clients
<1>4. pings' \in [Callers -> Nat]
  BY <1>3 DEF Control, ControlTypes
<1> QED BY <1>1, <1>2, <1>3, <1>4, ControlEnqueue

\* A ping of KeepAlive keeps Control.
LEMMA ControlEnqueuePing ==
  ASSUME Control, NEW k \in Callers, EnqueuePing(k)
  PROVE  Control'
<1>1. Enqueue("ping") /\ "ping" \in AllKinds
  BY DEF EnqueuePing, AllKinds
<1>2. UNCHANGED <<qstate, thread, lock, call, conn, closing>>
  BY DEF EnqueuePing
<1>3. qstate = "active"
  BY DEF EnqueuePing, Enqueue
<1>4. pings' \in [Callers -> Nat]
  BY DEF EnqueuePing, Control, ControlTypes
<1> QED BY <1>1, <1>2, <1>3, <1>4, ControlEnqueue

\* DirectExecute and its kin keep Control: the caller has one operation at a time.
LEMMA ControlDirect ==
  ASSUME Control, NEW k \in Callers, Direct(k)
  PROVE  Control'
<1>1. PICK kind \in Kinds \ {"holder"} : ops' = Append(ops, New(kind, TRUE))
  BY Zenon DEF Direct
<1>2. kind \in AllKinds
  BY PoolAssumption
<1>3. /\ UNCHANGED <<queue, qstate, thread, lock, pings, conn, closing>>
      /\ call' = [call EXCEPT ![k] = Len(ops) + 1]
      /\ closing = "no"
      /\ call[k] = 0
  BY DEF Direct, Free
<1>4. ops \in Seq(Operations)
  BY DEF Control, ControlTypes
<1>5. /\ ops' \in Seq(Operations)
      /\ \A p \in DOMAIN ops : p \in DOMAIN ops' /\ ops'[p] = ops[p]
      /\ Len(ops) + 1 \in DOMAIN ops'
      /\ \A p \in DOMAIN ops : p < Len(ops) + 1
      /\ Len(ops) + 1 \in Nat
      /\ ops'[Len(ops) + 1].direct = TRUE
      /\ ops'[Len(ops) + 1].status = "waiting"
  BY <1>1, <1>2, <1>4, NewFields, Zenon
<1>6. /\ OpInv'
      /\ PlaceInv'
      /\ \A c \in Conns : Busy(c) => conn[c].op # Len(ops) + 1
  BY <1>1, <1>2, <1>3, ControlSubmit, Zenon
<1>7. ControlTypes'
  BY <1>3, <1>5 DEF Control, ControlTypes
<1>8. QueueInv'
  BY <1>3, <1>5 DEF Control, QueueInv, Busy
<1>9. CallInv'
  <2>1. \A l \in Callers : call'[l] = IF l = k THEN Len(ops) + 1 ELSE call[l]
    BY <1>3 DEF Control, ControlTypes
  <2>2. \A l \in Callers : call'[l] # 0 => /\ call'[l] \in DOMAIN ops'
                                           /\ ops'[call'[l]].status = "waiting"
                                           /\ ops'[call'[l]].direct
    BY <1>5, <2>1 DEF Control, CallInv
  <2>3. \A l, m \in Callers : call'[l] # 0 /\ call'[l] = call'[m] => l = m
    <3>1. \A l \in Callers : call[l] # 0 => call[l] # Len(ops) + 1
      BY <1>5 DEF Control, CallInv
    <3> QED BY <1>5, <2>1, <3>1 DEF Control, CallInv
  <2>4. \A c \in Synch : lock[c] # k
    <3>1. SUFFICES ASSUME NEW c \in Synch, lock[c] = k PROVE FALSE
      OBVIOUS
    <3>2. Busy(c) /\ call[k] = conn[c].op
      BY <3>1, PoolAssumption DEF Control, CallInv
    <3>3. conn[c].op \in DOMAIN ops
      BY <3>2 DEF Control, OpInv, Conns
    <3> QED BY <1>3, <1>4, <3>2, <3>3
  <2>5. \A c \in Synch : Busy(c) => call'[lock[c]] = conn[c].op
    <3>1. \A c \in Synch : Busy(c) => lock[c] \in Callers
      BY DEF Control, CallInv, ControlTypes
    <3> QED BY <2>1, <2>4, <3>1 DEF Control, CallInv
  <2>6. CallInv => /\ \A c \in Synch : Busy(c) <=> lock[c] # NoCaller
                   /\ \A c, d \in Synch : lock[c] # NoCaller /\ lock[c] = lock[d] => c = d
    BY DEF CallInv
  <2> QED BY <1>3, <2>2, <2>3, <2>5, <2>6 DEF Control, CallInv, Busy
<1>10. CloseInv'
  BY <1>3 DEF Control, CloseInv
<1> QED BY <1>6, <1>7, <1>8, <1>9, <1>10 DEF Control

\* The begin of KeepAlive keeps Control.
LEMMA ControlKeepAlive ==
  ASSUME Control, NEW k \in Callers, KeepAlive(k)
  PROVE  Control'
<1>1. /\ UNCHANGED <<ops, queue, qstate, thread, lock, call, closing>>
      /\ closing = "no"
  BY DEF KeepAlive, KeepAliveDue, Free
<1>2. /\ conn' \in [Conns -> Connections]
      /\ \A c \in Conns : /\ conn'[c].pc = conn[c].pc
                          /\ conn'[c].op = conn[c].op
                          /\ conn'[c].el = conn[c].el
                          /\ conn'[c].mysql = conn[c].mysql
  <2>1. conn \in [Conns -> Connections]
    BY DEF Control, ControlTypes
  <2>2. conn' = [c \in Conns |-> IF c \in Pinged THEN [conn[c] EXCEPT !.err = "none"]
                                 ELSE conn[c]]
    BY DEF KeepAlive
  <2> QED BY <2>1, <2>2 DEF Connections
<1>3. pings' \in [Callers -> Nat]
  BY PoolAssumption, FS_CardinalityType DEF KeepAlive, Control, ControlTypes
<1>4. ControlTypes'
  BY <1>1, <1>2, <1>3 DEF Control, ControlTypes
<1>5. QueueInv'
  BY <1>1, <1>2 DEF Control, QueueInv, Busy
<1>6. CallInv'
  BY <1>1, <1>2 DEF Control, CallInv, Busy, Conns
<1>7. OpInv'
  BY <1>1, <1>2 DEF Control, OpInv, Busy
<1>8. PlaceInv'
  BY <1>1, <1>2 DEF Control, PlaceInv, PlaceAt, Busy, Kind, Requesting
<1>9. CloseInv'
  BY <1>1, <1>2 DEF Control, CloseInv, Conns
<1> QED BY <1>4, <1>5, <1>6, <1>7, <1>8, <1>9 DEF Control

\* GetFreeConnection keeps Control: the lock was free, so the connection was idle.
LEMMA ControlGetFree ==
  ASSUME Control, NEW k \in Callers, NEW c \in Synch, GetFreeConnection(k, c)
  PROVE  Control'
<1>1. /\ UNCHANGED <<ops, queue, qstate, thread, call, pings, closing>>
      /\ call[k] # 0
      /\ \A d \in Synch : lock[d] # k
      /\ lock[c] = NoCaller
      /\ lock' = [lock EXCEPT ![c] = k]
      /\ conn' = [conn EXCEPT ![c] = Start([@ EXCEPT !.op = call[k]], Kind(call[k]))]
  BY DEF GetFreeConnection
<1>2. c \in Conns /\ ~Busy(c) /\ c \notin Workers
  BY <1>1, PoolAssumption DEF Control, CallInv, Conns
<1>3. call[k] \in DOMAIN ops /\ ops[call[k]].status = "waiting" /\ ops[call[k]].direct
  BY <1>1 DEF Control, CallInv
<1>4. /\ conn' \in [Conns -> Connections]
      /\ \A d \in Conns : d # c => conn'[d] = conn[d]
      /\ conn'[c].pc # "idle"
      /\ conn'[c].op = call[k]
      /\ conn'[c].mysql = conn[c].mysql
      /\ PlaceAt(c)'
  BY <1>1, <1>2, <1>3, StartEffect
<1>5. ControlTypes'
  BY <1>1, <1>4 DEF Control, ControlTypes
<1>6. QueueInv'
  <2>1. \A i \in DOMAIN queue : queue[i] # call[k]
    BY <1>3 DEF Control, QueueInv
  <2> QED BY <1>1, <1>4, <2>1 DEF Control, QueueInv, Busy
<1>7. \A d \in Synch : lock'[d] = IF d = c THEN k ELSE lock[d]
  BY <1>1 DEF Control, ControlTypes
<1>8. \A d \in Synch : d \in Conns
  BY DEF Conns
<1>9. CallInv'
  <2>1. \A d \in Synch : Busy(d)' <=> lock'[d] # NoCaller
    BY <1>4, <1>7, <1>8, PoolAssumption DEF Control, CallInv, Busy
  <2>2. \A d \in Synch : Busy(d)' => call[lock'[d]] = conn'[d].op
    BY <1>4, <1>7, <1>8 DEF Control, CallInv, Busy
  <2>3. \A d, e \in Synch : lock'[d] # NoCaller /\ lock'[d] = lock'[e] => d = e
    BY <1>1, <1>7 DEF Control, CallInv
  <2> QED BY <1>1, <2>1, <2>2, <2>3 DEF Control, CallInv, Busy
<1>10. \A d \in Conns : Busy(d) => conn[d].op # call[k]
  <2>1. SUFFICES ASSUME NEW d \in Conns, Busy(d), conn[d].op = call[k] PROVE FALSE
    OBVIOUS
  <2>2. d \in Synch
    BY <1>3, <2>1 DEF Control, OpInv, Conns
  <2>3. call[lock[d]] = call[k] /\ lock[d] \in Callers
    BY <2>1, <2>2 DEF Control, CallInv, ControlTypes
  <2> QED BY <1>1, <2>2, <2>3 DEF Control, CallInv
<1>11. OpInv'
  BY <1>1, <1>2, <1>3, <1>4, <1>10 DEF Control, OpInv, Busy
<1>12. PlaceInv'
  BY <1>1, <1>4, ZenonT(30) DEF Control, PlaceInv, PlaceAt, Busy, Kind, Requesting
<1>13. CloseInv'
  BY <1>1, <1>2, <1>4 DEF Control, CloseInv, Conns
<1> QED BY <1>5, <1>6, <1>9, <1>11, <1>12, <1>13 DEF Control

\* Dequeue keeps Control: what leaves the queue is the worker's alone.
LEMMA ControlDequeue ==
  ASSUME Control, NEW w \in Workers, Dequeue(w)
  PROVE  Control'
<1>1. /\ UNCHANGED <<ops, qstate, thread, lock, call, pings, closing>>
      /\ thread[w] = "svc"
      /\ conn[w].pc = "idle"
      /\ qstate = "active"
      /\ queue # <<>>
      /\ queue' = Without(queue, 1)
      /\ conn' = [conn EXCEPT ![w] = Start([@ EXCEPT !.op = queue[1]], Kind(queue[1]))]
  BY DEF Dequeue, Ready, clients, NextOf
<1>2. w \in Conns /\ ~Busy(w) /\ w \notin Synch
  BY <1>1, PoolAssumption DEF Conns, Busy
<1>3. queue \in Seq(Nat)
  BY DEF Control, ControlTypes
<1>4. /\ queue' \in Seq(Nat)
      /\ \A i \in DOMAIN queue' :
                i + 1 \in DOMAIN queue /\ queue'[i] = queue[i + 1]
      /\ 1 \in DOMAIN queue
  BY <1>1, <1>3, Rest
<1>5. /\ queue[1] \in DOMAIN ops
      /\ ops[queue[1]].status = "waiting"
      /\ ~ops[queue[1]].direct
  BY <1>4 DEF Control, QueueInv
<1>6. \A i \in DOMAIN queue' : i \in Nat /\ 1 < i + 1 /\ queue[1] < queue'[i]
  <2>1. \A i \in DOMAIN queue' : i \in Nat /\ 1 < i + 1
    BY <1>4
  <2> QED BY <1>4, <2>1 DEF Control, QueueInv
<1>7. \A i \in DOMAIN queue' : queue'[i] # queue[1]
  BY <1>3, <1>4, <1>6
<1>8. /\ conn' \in [Conns -> Connections]
      /\ \A d \in Conns : d # w => conn'[d] = conn[d]
      /\ conn'[w].pc # "idle"
      /\ conn'[w].op = queue[1]
      /\ conn'[w].mysql = conn[w].mysql
      /\ PlaceAt(w)'
  BY <1>1, <1>2, <1>5, StartEffect
<1>9. ControlTypes'
  BY <1>1, <1>4, <1>8 DEF Control, ControlTypes
<1>10. QueueInv'
  <2>1. \A i \in DOMAIN queue' : /\ queue'[i] \in DOMAIN ops
                                 /\ ops[queue'[i]].status = "waiting"
                                 /\ ~ops[queue'[i]].direct
    BY <1>4 DEF Control, QueueInv
  <2>2. \A i, j \in DOMAIN queue' : i < j => i + 1 < j + 1
    BY <1>4
  <2>3. \A i, j \in DOMAIN queue' : i < j => queue'[i] < queue'[j]
    BY <1>4, <2>2 DEF Control, QueueInv
  <2>4. \A d \in Conns : Busy(d)' => \A i \in DOMAIN queue' : queue'[i] # conn'[d].op
    BY <1>4, <1>7, <1>8 DEF Control, QueueInv, Busy
  <2> QED BY <1>1, <2>1, <2>3, <2>4 DEF QueueInv, Busy
<1>11. CallInv'
  BY <1>1, <1>2, <1>8 DEF Control, CallInv, Busy, Conns
<1>12. OpInv'
  <2>1. \A d \in Conns : Busy(d) => conn[d].op # queue[1]
    BY <1>4 DEF Control, QueueInv
  <2> QED BY <1>1, <1>2, <1>5, <1>8, <2>1 DEF Control, OpInv, Busy
<1>13. PlaceInv'
  BY <1>1, <1>8, ZenonT(30) DEF Control, PlaceInv, PlaceAt, Busy, Kind, Requesting
<1>14. CloseInv'
  BY <1>1, <1>2, <1>8 DEF Control, CloseInv, Conns
<1> QED BY <1>9, <1>10, <1>11, <1>12, <1>13, <1>14 DEF Control

\* A worker that leaves svc keeps Control.
LEMMA ControlEndWorker ==
  ASSUME Control, NEW w \in Workers, EndWorker(w)
  PROVE  Control'
<1>1. /\ UNCHANGED <<ops, queue, qstate, lock, call, pings, conn, closing>>
      /\ conn[w].pc = "idle"
      /\ thread' = [thread EXCEPT ![w] = "ended"]
      /\ thread[w] = "svc"
      /\ qstate = "closed"
  BY DEF EndWorker, Ready, NoRequest, clients
<1>2. \A v \in Workers : thread'[v] = IF v = w THEN "ended" ELSE thread[v]
  BY <1>1 DEF Control, ControlTypes
<1>3. ControlTypes'
  BY <1>1 DEF Control, ControlTypes
<1>4. QueueInv' /\ CallInv' /\ OpInv' /\ PlaceInv'
  BY <1>1 DEF Control, QueueInv, CallInv, OpInv, PlaceInv, PlaceAt, Busy, Kind, Requesting
<1>5. CloseInv'
  BY <1>1, <1>2 DEF Control, CloseInv
<1> QED BY <1>3, <1>4, <1>5 DEF Control

\* What Close does to a connection that is idle.
LEMMA ControlDelete ==
  ASSUME Control, NEW D \in SUBSET Conns,
         conn' \in [Conns -> Connections],
         \A d \in Conns : /\ conn'[d].pc = conn[d].pc
                          /\ conn'[d].op = conn[d].op
                          /\ conn'[d].el = conn[d].el
                          /\ d \in D => conn'[d].mysql = "deleted" /\ ~Busy(d)
                          /\ d \notin D => conn'[d].mysql = conn[d].mysql,
         UNCHANGED <<ops, queue, lock, call, pings>>,
         thread' \in [Workers -> {"svc", "ended", "deleted"}],
         qstate' \in {"active", "closed", "deleted"},
         closing' \in {"no", "joining", "done", "crashed"}
  PROVE  ControlTypes' /\ QueueInv' /\ CallInv' /\ OpInv' /\ PlaceInv'
<1>1. ControlTypes'
  BY DEF Control, ControlTypes
<1>2. QueueInv'
  BY DEF Control, QueueInv, Busy
<1>3. CallInv'
  BY DEF Control, CallInv, Busy, Conns
<1>4. OpInv'
  BY DEF Control, OpInv, Busy
<1>5. PlaceInv'
  BY DEF Control, PlaceInv, PlaceAt, Busy, Kind, Requesting
<1> QED BY <1>1, <1>2, <1>3, <1>4, <1>5

\* The deletion of a worker keeps Control.
LEMMA ControlJoinWorker ==
  ASSUME Control, NEW w \in Workers, JoinWorker(w)
  PROVE  Control'
<1>1. /\ UNCHANGED <<ops, queue, qstate, lock, call, pings, closing>>
      /\ closing = "joining"
      /\ thread[w] = "ended"
      /\ thread' = [thread EXCEPT ![w] = "deleted"]
      /\ conn' = [conn EXCEPT ![w].mysql = "deleted"]
  BY DEF JoinWorker, Waited, clients
<1>2. w \in Conns /\ w \notin Synch /\ ~Busy(w)
  BY <1>1, PoolAssumption DEF Conns, Control, CloseInv, Busy
<1>3. /\ conn' \in [Conns -> Connections]
      /\ \A d \in Conns : d # w => conn'[d] = conn[d]
      /\ conn'[w].pc = conn[w].pc
      /\ conn'[w].op = conn[w].op
      /\ conn'[w].el = conn[w].el
      /\ conn'[w].mysql = "deleted"
  BY <1>1, <1>2 DEF Control, ControlTypes, Connections
<1>4. \A v \in Workers : thread'[v] = IF v = w THEN "deleted" ELSE thread[v]
  BY <1>1 DEF Control, ControlTypes
<1>5. /\ thread' \in [Workers -> {"svc", "ended", "deleted"}]
      /\ qstate' \in {"active", "closed", "deleted"}
      /\ closing' \in {"no", "joining", "done", "crashed"}
  BY <1>1 DEF Control, ControlTypes
<1>6. ControlTypes' /\ QueueInv' /\ CallInv' /\ OpInv' /\ PlaceInv'
  <2> DEFINE D == {w}
  <2>1. D \in SUBSET Conns
    BY <1>2
  <2>2. \A d \in Conns : /\ conn'[d].pc = conn[d].pc
                         /\ conn'[d].op = conn[d].op
                         /\ conn'[d].el = conn[d].el
                         /\ d \in D => conn'[d].mysql = "deleted" /\ ~Busy(d)
                         /\ d \notin D => conn'[d].mysql = conn[d].mysql
    BY <1>2, <1>3
  <2> HIDE DEF D
  <2> QED BY <1>1, <1>3, <1>5, <2>1, <2>2, ControlDelete
<1>7. CloseInv'
  BY <1>1, <1>2, <1>3, <1>4 DEF Control, CloseInv, Conns
<1> QED BY <1>6, <1>7 DEF Control

\* Once the workers are gone nobody executes.
LEMMA NoneBusy ==
  ASSUME Control, closing = "joining", \A w \in Workers : thread[w] = "deleted"
  PROVE  \A c \in Conns : ~Busy(c)
<1>1. SUFFICES ASSUME NEW c \in Conns, Busy(c) PROVE FALSE
  OBVIOUS
<1>2. c \in Synch
  BY <1>1 DEF Control, CloseInv, Conns, Busy
<1>3. lock[c] \in Callers /\ call[lock[c]] = conn[c].op
  BY <1>1, <1>2 DEF Control, CallInv, ControlTypes
<1>4. conn[c].op # 0
  BY <1>1 DEF Control, OpInv, ControlTypes
<1> QED BY <1>3, <1>4 DEF Control, CloseInv

\* The end of Close keeps Control.
LEMMA ControlCloseSynch ==
  ASSUME Control, CloseSynch
  PROVE  Control'
<1>1. /\ UNCHANGED <<ops, queue, thread, lock, call, pings>>
      /\ closing = "joining"
      /\ \A w \in Workers : thread[w] = "deleted"
      /\ conn' = [c \in Conns |-> [conn[c] EXCEPT !.mysql = "deleted"]]
      /\ qstate' = "deleted"
      /\ closing' = "done"
  BY DEF CloseSynch, clients
<1>2. \A c \in Conns : ~Busy(c)
  BY <1>1, NoneBusy
<1>3. /\ conn' \in [Conns -> Connections]
      /\ \A d \in Conns : /\ conn'[d].pc = conn[d].pc
                          /\ conn'[d].op = conn[d].op
                          /\ conn'[d].el = conn[d].el
                          /\ conn'[d].mysql = "deleted"
  BY <1>1, ZenonT(30) DEF Control, ControlTypes, Connections
<1>4. ControlTypes' /\ QueueInv' /\ CallInv' /\ OpInv' /\ PlaceInv'
  <2> DEFINE D == Conns
  <2>1. /\ thread' \in [Workers -> {"svc", "ended", "deleted"}]
        /\ qstate' \in {"active", "closed", "deleted"}
        /\ closing' \in {"no", "joining", "done", "crashed"}
    BY <1>1 DEF Control, ControlTypes
  <2>2. D \in SUBSET Conns
    OBVIOUS
  <2>3. \A d \in Conns : /\ conn'[d].pc = conn[d].pc
                         /\ conn'[d].op = conn[d].op
                         /\ conn'[d].el = conn[d].el
                         /\ d \in D => conn'[d].mysql = "deleted" /\ ~Busy(d)
                         /\ d \notin D => conn'[d].mysql = conn[d].mysql
    BY <1>2, <1>3
  <2> HIDE DEF D
  <2> QED BY <1>1, <1>3, <2>1, <2>2, <2>3, ControlDelete
<1>5. CloseInv'
  <2>1. (closing = "no" => qstate = "active")' /\ (closing = "joining" => qstate = "closed")'
    BY <1>1
  <2>2. (\A k \in Callers : call[k] = 0 /\ pings[k] = 0)' /\ (queue = <<>>)'
    BY <1>1 DEF Control, CloseInv
  <2>3. \A w \in Workers : conn'[w].pc = "idle"
    BY <1>2, <1>3 DEF Conns, Busy
  <2>4. \A w \in Workers : thread'[w] = "deleted"
    BY <1>1
  <2> QED BY <1>1, <2>1, <2>2, <2>3, <2>4, Zenon DEF CloseInv
<1> QED BY <1>4, <1>5 DEF Control

\* The operations the close of the queue releases.
LEMMA CloseOps ==
  ASSUME Control, Close
  PROVE  /\ ops' \in Seq(Operations)
         /\ DOMAIN ops' = DOMAIN ops
         /\ \A p \in DOMAIN ops : /\ ops'[p].kind = ops[p].kind
                                  /\ ops'[p].direct = ops[p].direct
                                  /\ ops'[p].lost = ops[p].lost
                                  /\ ops'[p].refused = ops[p].refused
         /\ \A p \in DOMAIN ops : ops'[p].status \in {ops[p].status, "flushed"}
         /\ \A p \in DOMAIN ops : (\A i \in DOMAIN queue : queue[i] # p) => ops'[p] = ops[p]
         /\ \A p \in DOMAIN ops : (\E i \in DOMAIN queue : queue[i] = p)
                                    => ops'[p].status = "flushed"
<1> DEFINE F(o) == IF \E i \in DOMAIN queue : queue[i] = o
                   THEN [ops[o] EXCEPT !.status = "flushed"] ELSE ops[o]
<1>1. ops' = [o \in DOMAIN ops |-> F(o)]
  BY DEF Close
<1>2. ops \in Seq(Operations) /\ \A p \in DOMAIN ops : ops[p] \in Operations
  BY DEF Control, ControlTypes
<1>3. "flushed" \in Statuses
  BY DEF Statuses
<1>4. \A p \in DOMAIN ops :
        /\ F(p) \in Operations
        /\ F(p).kind = ops[p].kind
        /\ F(p).direct = ops[p].direct
        /\ F(p).lost = ops[p].lost
        /\ F(p).refused = ops[p].refused
        /\ F(p).status \in {ops[p].status, "flushed"}
        /\ (\A i \in DOMAIN queue : queue[i] # p) => F(p) = ops[p]
        /\ (\E i \in DOMAIN queue : queue[i] = p) => F(p).status = "flushed"
  <2>1. SUFFICES ASSUME NEW p \in DOMAIN ops
                 PROVE  /\ F(p) \in Operations
                        /\ F(p).kind = ops[p].kind
                        /\ F(p).direct = ops[p].direct
                        /\ F(p).lost = ops[p].lost
                        /\ F(p).refused = ops[p].refused
                        /\ F(p).status \in {ops[p].status, "flushed"}
                        /\ (\A i \in DOMAIN queue : queue[i] # p) => F(p) = ops[p]
                        /\ (\E i \in DOMAIN queue : queue[i] = p) => F(p).status = "flushed"
    BY Zenon
  <2>2. CASE \E i \in DOMAIN queue : queue[i] = p
    BY <1>2, <1>3, <2>2, StatusRecord
  <2>3. CASE ~\E i \in DOMAIN queue : queue[i] = p
    BY <1>2, <2>3
  <2> QED BY <2>2, <2>3
<1> HIDE DEF F
<1>5. /\ DOMAIN ops' = DOMAIN ops
      /\ \A p \in DOMAIN ops : ops'[p] = F(p)
  BY <1>1
<1>6. ops' \in Seq(Operations)
  <2>1. Len(ops) \in Nat /\ DOMAIN ops = 1 .. Len(ops)
    BY <1>2
  <2>2. \A p \in 1 .. Len(ops) : F(p) \in Operations
    BY <1>4, <2>1
  <2>3. ops' = [o \in 1 .. Len(ops) |-> F(o)]
    BY <1>1, <2>1
  <2> QED BY <2>1, <2>2, <2>3
<1> QED BY <1>4, <1>5, <1>6

\* The begin of Close keeps Control: what it releases was executed by nobody.
LEMMA ControlClose ==
  ASSUME Control, Close
  PROVE  Control'
<1>1. /\ UNCHANGED <<thread, lock, call, pings, conn>>
      /\ \A k \in Callers : call[k] = 0 /\ pings[k] = 0
      /\ closing' = "joining"
      /\ qstate' = "closed"
      /\ queue' = <<>>
  BY DEF Close, Free, QueueAfterClose, clients
<1>2. ControlTypes'
  BY <1>1, CloseOps DEF Control, ControlTypes
<1>3. QueueInv'
  BY <1>1 DEF QueueInv
<1>4. CallInv'
  BY <1>1 DEF Control, CallInv, Busy
<1>5. \A c \in Conns : Busy(c) => /\ conn[c].op \in DOMAIN ops
                                  /\ ops'[conn[c].op] = ops[conn[c].op]
  BY CloseOps DEF Control, OpInv, QueueInv
<1>6. OpInv'
  BY <1>1, <1>5, CloseOps DEF Control, OpInv, Busy
<1>7. PlaceInv'
  BY <1>1, <1>5 DEF Control, PlaceInv, PlaceAt, Busy, Kind, Requesting
<1>8. CloseInv'
  <2>1. qstate = "active"
    BY DEF Close, Control, CloseInv
  <2> QED BY <1>1, <2>1 DEF Control, CloseInv
<1> QED BY <1>2, <1>3, <1>4, <1>6, <1>7, <1>8 DEF Control

\* A request to the server keeps Control.
LEMMA ControlWithin ==
  ASSUME Control, NEW c \in Conns, Within(c)
  PROVE  Control'
<1>1. UNCHANGED <<queue, qstate, thread, lock, call, pings, closing>>
  BY WithinFrame
<1>2. /\ ops' \in Seq(Operations)
      /\ DOMAIN ops' = DOMAIN ops
      /\ \A p \in DOMAIN ops : /\ ops'[p].kind = ops[p].kind
                               /\ ops'[p].direct = ops[p].direct
                               /\ ops'[p].status = ops[p].status
      /\ \A p \in DOMAIN ops : p # conn[c].op => ops'[p].lost = ops[p].lost
  BY WithinOps
<1>3. /\ conn' \in [Conns -> Connections]
      /\ \A d \in Conns : d # c => conn'[d] = conn[d]
      /\ conn[c].pc # "idle"
      /\ conn'[c].pc # "idle"
      /\ conn'[c].op = conn[c].op
      /\ conn'[c].mysql # "deleted"
      /\ PlaceAt(c)'
  BY WithinConn
<1>4. \A d \in Conns : Busy(d)' <=> Busy(d)
  BY <1>3 DEF Busy
<1>5. \A d \in Conns : conn'[d].op = conn[d].op
  BY <1>3
<1>6. ControlTypes'
  BY <1>1, <1>2, <1>3 DEF Control, ControlTypes
<1>7. QueueInv'
  BY <1>1, <1>2, <1>4, <1>5 DEF Control, QueueInv
<1>8. CallInv'
  BY <1>1, <1>2, <1>4, <1>5 DEF Control, CallInv, Conns
<1>9. OpInv'
  BY <1>1, <1>2, <1>4, <1>5 DEF Control, OpInv
<1>10. PlaceInv'
  <2>1. SUFFICES ASSUME NEW d \in Conns, d # c PROVE PlaceAt(d)'
    BY <1>3 DEF PlaceInv
  <2>2. conn'[d] = conn[d] /\ PlaceAt(d)
    BY <1>3, <2>1 DEF Control, PlaceInv
  <2>3. Busy(d) => conn[d].op \in DOMAIN ops /\ conn[d].op # conn[c].op
    BY <1>3, <2>1 DEF Control, OpInv, Busy
  <2> QED BY <1>2, <2>2, <2>3 DEF PlaceAt, Busy, Kind, Requesting
<1>11. CloseInv'
  BY <1>1, <1>3 DEF Control, CloseInv, Conns
<1> QED BY <1>6, <1>7, <1>8, <1>9, <1>10, <1>11 DEF Control

\* The end of an operation keeps Control: lock and call are given up together.
LEMMA ControlFinish ==
  ASSUME Control, NEW c \in Conns, Finish(c)
  PROVE  Control'
<1>1. UNCHANGED <<queue, qstate, thread, pings, closing>>
  BY DEF Finish
<1>2. /\ conn[c].pc \in {"won", "failed"}
      /\ conn[c].op \in DOMAIN ops
      /\ ops' \in Seq(Operations)
      /\ DOMAIN ops' = DOMAIN ops
      /\ \A p \in DOMAIN ops : /\ ops'[p].kind = ops[p].kind
                               /\ ops'[p].direct = ops[p].direct
                               /\ ops'[p].lost = ops[p].lost
      /\ \A p \in DOMAIN ops : p # conn[c].op => ops'[p].status = ops[p].status
      /\ conn' \in [Conns -> Connections]
      /\ \A d \in Conns : d # c => conn'[d] = conn[d]
      /\ conn'[c].pc = "idle"
      /\ conn'[c].mysql = conn[c].mysql
      /\ conn[c].mysql \notin {"lost", "deleted"}
  BY FinishEffect
<1>3. Busy(c)
  BY <1>2 DEF Busy
<1>4. \A d \in Conns : d # c /\ Busy(d) => conn[d].op \in DOMAIN ops /\ conn[d].op # conn[c].op
  BY <1>3 DEF Control, OpInv
<1>5. \A i \in DOMAIN queue : queue[i] # conn[c].op
  BY <1>3 DEF Control, QueueInv
<1>6. \/ /\ c \in Workers
         /\ c \notin Synch
         /\ UNCHANGED <<lock, call>>
      \/ /\ c \in Synch
         /\ c \notin Workers
         /\ lock[c] \in Callers
         /\ call[lock[c]] = conn[c].op
         /\ lock' = [lock EXCEPT ![c] = NoCaller]
         /\ call' = [call EXCEPT ![lock[c]] = 0]
  BY <1>3, PoolAssumption DEF Finish, Unlock, Conns, Control, CallInv, ControlTypes
<1>7. ControlTypes'
  <2>1. lock' \in [Synch -> Callers \cup {NoCaller}]
    BY <1>6 DEF Control, ControlTypes
  <2>2. call' \in [Callers -> Nat]
    BY <1>6, SMTT(30) DEF Control, ControlTypes
  <2> QED BY <1>1, <1>2, <2>1, <2>2 DEF Control, ControlTypes
<1>8. QueueInv'
  BY <1>1, <1>2, <1>5 DEF Control, QueueInv, Busy
<1>9. OpInv'
  <2>1. \A d \in Conns : Busy(d)' => d # c /\ Busy(d) /\ conn'[d].op = conn[d].op
    BY <1>2 DEF Busy
  <2>2. \A d \in Conns : d # c /\ Busy(d) =>
            /\ ops'[conn[d].op].status = ops[conn[d].op].status
            /\ ops'[conn[d].op].direct = ops[conn[d].op].direct
    BY <1>2, <1>4
  <2>3. \A d \in Conns : Busy(d)' =>
            /\ conn'[d].op \in DOMAIN ops'
            /\ ops'[conn'[d].op].status = "waiting"
            /\ d \in Workers => ~ops'[conn'[d].op].direct
            /\ d \in Synch => ops'[conn'[d].op].direct
    BY <1>2, <2>1, <2>2 DEF Control, OpInv
  <2>4. \A d, e \in Conns : Busy(d)' /\ Busy(e)' /\ conn'[d].op = conn'[e].op => d = e
    BY <2>1 DEF Control, OpInv
  <2> QED BY <2>3, <2>4 DEF OpInv
<1>10. PlaceInv'
  BY <1>2, <1>4 DEF Control, PlaceInv, PlaceAt, Busy, Kind, Requesting
<1>11. CallInv'
  <2>1. CASE c \notin Synch
    <3>1. UNCHANGED <<lock, call>>
      BY <1>6, <2>1
    <3>2. \A k \in Callers : call[k] # 0 => call[k] # conn[c].op
      BY <1>3, <1>6, <2>1 DEF Control, CallInv, OpInv
    <3> QED BY <1>2, <2>1, <3>1, <3>2 DEF Control, CallInv, Busy, Conns
  <2>2. CASE c \in Synch
    <3>1. /\ \A d \in Synch : lock'[d] = IF d = c THEN NoCaller ELSE lock[d]
          /\ \A k \in Callers : call'[k] = IF k = lock[c] THEN 0 ELSE call[k]
      BY <1>6, <2>2 DEF Control, ControlTypes
    <3>2. \A k \in Callers : call'[k] # 0 => k # lock[c] /\ call[k] # conn[c].op
      BY <1>6, <2>2, <3>1 DEF Control, CallInv
    <3>3. \A k \in Callers : call'[k] # 0 => /\ call'[k] \in DOMAIN ops'
                                             /\ ops'[call'[k]].status = "waiting"
                                             /\ ops'[call'[k]].direct
      BY <1>2, <3>1, <3>2 DEF Control, CallInv
    <3>4. \A k, l \in Callers : call'[k] # 0 /\ call'[k] = call'[l] => k = l
      BY <3>1 DEF Control, CallInv
    <3>5. \A d \in Synch : Busy(d)' <=> lock'[d] # NoCaller
      BY <1>2, <3>1 DEF Control, CallInv, Busy, Conns
    <3>6. \A d \in Synch : d # c /\ Busy(d) => lock[d] \in Callers /\ lock[d] # lock[c]
      BY <1>3, <2>2 DEF Control, CallInv, ControlTypes
    <3>7. \A d \in Synch : Busy(d)' => call'[lock'[d]] = conn'[d].op
      BY <1>2, <3>1, <3>6 DEF Control, CallInv, Busy, Conns
    <3>8. \A d, e \in Synch : lock'[d] # NoCaller /\ lock'[d] = lock'[e] => d = e
      BY <3>1 DEF Control, CallInv
    <3> QED BY <3>3, <3>4, <3>5, <3>7, <3>8 DEF CallInv
  <2> QED BY <2>1, <2>2
<1>12. CloseInv'
  <2>1. qstate # "active" => \A k \in Callers : call'[k] = 0
    BY <1>6 DEF Control, CloseInv, ControlTypes
  <2> QED BY <1>1, <1>2, <2>1 DEF Control, CloseInv, Conns
<1> QED BY <1>7, <1>8, <1>9, <1>10, <1>11, <1>12 DEF Control

\* A use of a NULL handle.
CrashStep ==
    \/ \E k \in Callers : KeepAliveCrashes(k)
    \/ \E w \in Workers : PingCrashes(w)
    \/ CloseCrashes

\* A crash keeps Control: nothing but closing changes.
LEMMA ControlCrash ==
  ASSUME Control, Crash
  PROVE  Control'
<1>1. UNCHANGED <<ops, queue, qstate, thread, lock, call, pings, conn>> /\ closing' = "crashed"
  BY DEF Crash, clients
<1>2. ControlTypes' /\ QueueInv' /\ CallInv' /\ OpInv'
  BY <1>1 DEF Control, ControlTypes, QueueInv, CallInv, OpInv, Busy
<1>3. PlaceInv' /\ CloseInv'
  BY <1>1 DEF Control, PlaceInv, CloseInv, PlaceAt, Busy, Kind, Requesting
<1> QED BY <1>2, <1>3 DEF Control

\* Every step keeps Control.
LEMMA ControlStep ==
  ASSUME Control, [Next]_vars
  PROVE  Control'
<1>1. CASE UNCHANGED vars
  <2>1. UNCHANGED <<ops, queue, qstate, thread, lock, call, pings, conn, closing>>
    BY <1>1 DEF vars, clients
  <2>2. ControlTypes' /\ QueueInv' /\ CallInv' /\ OpInv'
    BY <2>1 DEF Control, ControlTypes, QueueInv, CallInv, OpInv, Busy
  <2>3. PlaceInv' /\ CloseInv'
    BY <2>1 DEF Control, PlaceInv, CloseInv, PlaceAt, Busy, Kind, Requesting
  <2> QED BY <2>2, <2>3 DEF Control
<1>9. CASE CrashStep
  BY <1>9, ControlCrash DEF CrashStep, KeepAliveCrashes, PingCrashes, CloseCrashes
<1>2. ASSUME NEW k \in Callers, Delay(k) \/ Direct(k) \/ KeepAlive(k) \/ EnqueuePing(k)
      PROVE  Control'
  BY <1>2, ControlDelay, ControlDirect, ControlKeepAlive, ControlEnqueuePing
<1>3. ASSUME NEW k \in Callers, NEW c \in Synch, GetFreeConnection(k, c)
      PROVE  Control'
  BY <1>3, ControlGetFree
<1>4. ASSUME NEW w \in Workers, Dequeue(w) \/ EndWorker(w) \/ JoinWorker(w)
      PROVE  Control'
  BY <1>4, ControlDequeue, ControlEndWorker, ControlJoinWorker
<1>5. ASSUME NEW c \in Conns, Step(c)
      PROVE  Control'
  <2>1. Within(c) \/ Finish(c)
    BY <1>5 DEF Step, Within
  <2> QED BY <2>1, ControlWithin, ControlFinish
<1>6. CASE Close
  BY <1>6, ControlClose
<1>7. CASE CloseSynch
  BY <1>7, ControlCloseSynch
<1>8. CASE Halted
  BY <1>1, <1>8 DEF Halted
<1> QED BY <1>1, <1>2, <1>3, <1>4, <1>5, <1>6, <1>7, <1>8, <1>9 DEF Next, CrashStep

\* Control holds in every reachable state.
LEMMA ControlAlways == Spec => []Control
  BY ControlInit, ControlStep, PTL DEF Spec

\* DatabaseWorkerPool::Close deletes a connection only when nobody executes on
\* it and the queue only when every worker has been joined, for every number
\* of workers, connections and callers.
THEOREM NoUseAfterCloseCorrect == Spec => []NoUseAfterClose
<1>1. Control => NoUseAfterClose
  <2> SUFFICES ASSUME Control PROVE NoUseAfterClose
    OBVIOUS
  <2>1. \A c \in Conns : conn[c].mysql = "deleted" => conn[c].pc = "idle"
    BY BusyUndeleted
  <2> QED BY <2>1 DEF Control, CloseInv, NoUseAfterClose
<1> QED BY <1>1, ControlAlways, PTL

-----------------------------------------------------------------------------
(* The server's side of the connections. *)

\* The first n statements of operation o.
Prefix(o, n) == [i \in 1..n |-> <<o, i>>]

SessionTypes == session \in [Conns -> Sessions]

\* What the server holds back for a connection: nothing, except between START
\* TRANSACTION and the end of a transaction, and then exactly the statements
\* before the one at hand, unless the connection was lost meanwhile.
SessionAt(c) ==
    /\ conn[c].mysql # "up" => session[c] = NoTransaction
    /\ conn[c].pc \in {"idle", "begin", "check", "won", "failed"} => session[c] = NoTransaction
    /\ conn[c].pc = "exec" /\ Kind(conn[c].op) # "trans" => session[c] = NoTransaction
    /\ conn[c].pc = "exec" /\ Kind(conn[c].op) = "trans" =>
         \/ session[c].tx /\ session[c].held = Prefix(conn[c].op, conn[c].el - 1)
         \/ session[c] = NoTransaction /\ (ops[conn[c].op].lost \/ conn[c].mysql = "null")
    /\ conn[c].pc = "commit" =>
         \/ session[c].held = Prefix(conn[c].op, Size)
         \/ session[c] = NoTransaction /\ ops[conn[c].op].lost

SessionInv == \A c \in Conns : SessionAt(c)

\* The first statements of a transaction, and one more.
LEMMA PrefixFacts ==
  ASSUME NEW o \in Nat, NEW n \in Nat
  PROVE  /\ Prefix(o, n) \in Seq(Nat \X Nat)
         /\ Len(Prefix(o, n)) = n
         /\ \A i \in 1..n : Prefix(o, n)[i] = <<o, i>>
         /\ Append(Prefix(o, n), <<o, n + 1>>) = Prefix(o, n + 1)
<1>1. \A i \in 1..n : <<o, i>> \in Nat \X Nat
  OBVIOUS
<1>2. Prefix(o, n) \in Seq(Nat \X Nat) /\ Len(Prefix(o, n)) = n
  BY <1>1 DEF Prefix
<1>3. \A i \in 1..n : Prefix(o, n)[i] = <<o, i>>
  BY DEF Prefix
<1>4. Append(Prefix(o, n), <<o, n + 1>>) = Prefix(o, n + 1)
  <2>1. Append(Prefix(o, n), <<o, n + 1>>) =
           [i \in 1 .. n + 1 |-> IF i = n + 1 THEN <<o, n + 1>> ELSE Prefix(o, n)[i]]
    BY <1>2
  <2>2. \A i \in 1 .. n + 1 : (IF i = n + 1 THEN <<o, n + 1>> ELSE Prefix(o, n)[i]) = <<o, i>>
    BY <1>3
  <2> QED BY <2>1, <2>2 DEF Prefix
<1> QED BY <1>2, <1>3, <1>4

\* Before its first statement a transaction holds nothing.
LEMMA PrefixNone == ASSUME NEW o PROVE Prefix(o, 0) = <<>>
  BY DEF Prefix

\* A session without a transaction holds nothing back.
LEMMA NoTransactionFacts ==
  NoTransaction \in Sessions /\ ~NoTransaction.tx /\ NoTransaction.held = <<>>
  BY DEF NoTransaction, Sessions

\* Where a request leads that returned ok.
Moves(c, ok) ==
    /\ conn[c].pc = "begin" => conn'[c].pc = "exec" /\ conn'[c].el = conn[c].el
    /\ conn[c].pc = "rollback" => conn'[c].pc = "check"
    /\ conn[c].pc = "commit" => conn'[c].pc = "won"
    /\ conn[c].pc = "exec" /\ Kind(conn[c].op) \notin {"trans", "holder"} =>
            conn'[c].pc = IF ok THEN "won" ELSE "failed"
    /\ conn[c].pc = "exec" /\ Kind(conn[c].op) = "holder" => conn'[c].pc \in {"exec", "won"}
    /\ conn[c].pc = "exec" /\ Kind(conn[c].op) = "trans" /\ ~ok => conn'[c].pc = "rollback"
    /\ conn[c].pc = "exec" /\ Kind(conn[c].op) = "trans" /\ ok =>
            \/ /\ conn[c].el < Size
               /\ conn'[c].pc = "exec"
               /\ conn'[c].el = conn[c].el + 1
            \/ /\ ~(conn[c].el < Size)
               /\ conn'[c].pc = "commit"

\* The control flow of ExecuteTransaction, read off the places before and after.
LEMMA ReturnedMoves ==
  ASSUME Control, NEW c \in Conns, Requesting(c), NEW r \in Connections, NEW ok \in BOOLEAN,
         r.op = conn[c].op, r.el = conn[c].el, r.pc = conn[c].pc,
         conn' = [conn EXCEPT ![c] = Returned(r, ok)]
  PROVE  Moves(c, ok) /\ conn'[c].mysql = r.mysql
<1>1. conn'[c] = Returned(r, ok)
  BY DEF Control, ControlTypes
<1>2. r.pc # "idle"
  BY DEF Requesting
<1>3. /\ Returned(r, ok).mysql = r.mysql
      /\ r.pc = "begin" => Returned(r, ok).pc = "exec" /\ Returned(r, ok).el = r.el
      /\ r.pc = "rollback" => Returned(r, ok).pc = "check"
      /\ r.pc = "commit" => Returned(r, ok).pc = "won"
      /\ r.pc = "exec" /\ Kind(r.op) \notin {"trans", "holder"} =>
                Returned(r, ok).pc = IF ok THEN "won" ELSE "failed"
      /\ r.pc = "exec" /\ Kind(r.op) = "holder" =>
                \/ r.el < Size /\ Returned(r, ok).pc = "exec" /\ Returned(r, ok).el = r.el + 1
                \/ Returned(r, ok).pc = "won"
      /\ r.pc = "exec" /\ Kind(r.op) = "trans" /\ ~ok => Returned(r, ok).pc = "rollback"
      /\ r.pc = "exec" /\ Kind(r.op) = "trans" /\ ok =>
                \/ r.el < Size /\ Returned(r, ok).pc = "exec" /\ Returned(r, ok).el = r.el + 1
                \/ ~(r.el < Size) /\ Returned(r, ok).pc = "commit"
  BY <1>2, ReturnedFields
<1> QED BY <1>1, <1>3 DEF Moves

\* The same for a request that was answered.
LEMMA ReturnsMoves ==
  ASSUME Control, NEW c \in Conns, Requesting(c), NEW ok \in BOOLEAN,
         NEW e \in {"none", "deadlock", "other"}, Returns(c, ok, e)
  PROVE  Moves(c, ok) /\ conn'[c].mysql = conn[c].mysql
<1> DEFINE r == [conn[c] EXCEPT !.err = e]
<1>1. conn[c] \in Connections
  BY DEF Control, ControlTypes
<1>2. /\ r \in Connections
      /\ r.mysql = conn[c].mysql
      /\ r.op = conn[c].op
      /\ r.el = conn[c].el
      /\ r.pc = conn[c].pc
  BY <1>1 DEF Connections
<1>3. conn' = [conn EXCEPT ![c] = Returned(r, ok)]
  BY DEF Returns
<1> HIDE DEF r
<1> QED BY <1>2, <1>3, ReturnedMoves

\* The connection after each kind of step.
LEMMA StepMoves ==
  ASSUME Control, NEW c \in Conns
  PROVE  /\ Succeeds(c) => /\ Requesting(c)
                           /\ Moves(c, TRUE)
                           /\ conn[c].mysql = "up"
                           /\ conn'[c].mysql = "up"
         /\ Fails(c) => /\ conn[c].pc = "exec"
                        /\ Moves(c, FALSE)
                        /\ conn[c].mysql = "up"
                        /\ conn'[c].mysql = "up"
         /\ Refused(c) => /\ conn[c].pc \in {"begin", "rollback", "commit"}
                          /\ Moves(c, FALSE)
                          /\ conn[c].mysql = "up"
                          /\ conn'[c].mysql = "up"
                          /\ conn[c].pc = "begin" => ops'[conn[c].op].lost
                          /\ conn[c].pc = "commit" => ops'[conn[c].op].refused
         /\ HasNoHandle(c) => /\ Requesting(c)
                              /\ Moves(c, FALSE)
                              /\ conn[c].mysql = "null"
                              /\ conn'[c].mysql = "null"
         /\ ReopenFails(c) => /\ Requesting(c)
                              /\ conn[c].mysql = "lost"
                              /\ \/ conn' = conn
                                 \/ conn'[c].mysql = "null" /\ Moves(c, FALSE)
         /\ Loses(c) => /\ Requesting(c)
                        /\ conn[c].mysql = "up"
                        /\ conn'[c].mysql = "lost"
                        /\ conn'[c].pc = conn[c].pc
                        /\ conn'[c].el = conn[c].el
                        /\ ops'[conn[c].op].lost
         /\ Reopens(c) => /\ Requesting(c)
                          /\ conn[c].mysql = "lost"
                          /\ conn'[c].mysql = "up"
                          /\ conn'[c].pc = conn[c].pc
                          /\ conn'[c].el = conn[c].el
         /\ Checks(c) => /\ conn[c].pc = "check"
                         /\ conn'[c].pc \in {"begin", "check", "failed"}
                         /\ conn'[c].mysql = conn[c].mysql
<1>1. conn \in [Conns -> Connections] /\ conn[c] \in Connections /\ PlaceAt(c)
  BY DEF Control, ControlTypes, PlaceInv
<1>2. ASSUME Succeeds(c)
      PROVE  Requesting(c) /\ Moves(c, TRUE) /\ conn[c].mysql = "up" /\ conn'[c].mysql = "up"
  BY <1>2, ReturnsMoves DEF Succeeds
<1>3. ASSUME Fails(c)
      PROVE  conn[c].pc = "exec" /\ Moves(c, FALSE) /\ conn[c].mysql = "up" /\ conn'[c].mysql = "up"
  BY <1>3, ReturnsMoves DEF Fails, Requesting
<1>9. ASSUME Refused(c)
      PROVE  /\ conn[c].pc \in {"begin", "rollback", "commit"}
             /\ Moves(c, FALSE)
             /\ conn[c].mysql = "up"
             /\ conn'[c].mysql = "up"
             /\ conn[c].pc = "begin" => ops'[conn[c].op].lost
             /\ conn[c].pc = "commit" => ops'[conn[c].op].refused
  <2>1. Moves(c, FALSE) /\ conn'[c].mysql = "up" /\ conn[c].mysql = "up"
    BY <1>9, ReturnsMoves DEF Refused, Requesting
  <2> QED BY <1>9, <2>1, RefusedEffect DEF Refused
<1>4. ASSUME HasNoHandle(c)
      PROVE  Requesting(c) /\ Moves(c, FALSE) /\ conn[c].mysql = "null" /\ conn'[c].mysql = "null"
  BY <1>4, ReturnsMoves DEF HasNoHandle
<1>5. ASSUME ReopenFails(c)
      PROVE  /\ Requesting(c)
             /\ conn[c].mysql = "lost"
             /\ \/ conn' = conn
                \/ conn'[c].mysql = "null" /\ Moves(c, FALSE)
  <2>1. conn[c].mysql = "lost" /\ Requesting(c)
    BY <1>1, <1>5 DEF ReopenFails, PlaceAt
  <2> DEFINE r == [conn[c] EXCEPT !.mysql = "null", !.err = "none"]
  <2>2. /\ r \in Connections
        /\ r.mysql = "null"
        /\ r.op = conn[c].op
        /\ r.el = conn[c].el
        /\ r.pc = conn[c].pc
    BY <1>1 DEF Connections
  <2>3. conn' = conn \/ conn' = [conn EXCEPT ![c] = Returned(r, FALSE)]
    BY <1>5 DEF ReopenFails
  <2> HIDE DEF r
  <2> QED BY <2>1, <2>2, <2>3, ReturnedMoves
<1>6. ASSUME Loses(c)
      PROVE  /\ Requesting(c)
             /\ conn[c].mysql = "up"
             /\ conn'[c].mysql = "lost"
             /\ conn'[c].pc = conn[c].pc
             /\ conn'[c].el = conn[c].el
             /\ ops'[conn[c].op].lost
  <2>1. /\ Requesting(c)
        /\ conn[c].mysql = "up"
        /\ conn' = [conn EXCEPT ![c].mysql = "lost"]
    BY <1>6, Zenon DEF Loses
  <2>2. ops'[conn[c].op].lost
    BY <1>6, LostEffect, Zenon
  <2>3. conn'[c].mysql = "lost" /\ conn'[c].pc = conn[c].pc /\ conn'[c].el = conn[c].el
    BY <1>1, <2>1 DEF Connections
  <2> QED BY <2>1, <2>2, <2>3
<1>7. ASSUME Reopens(c)
      PROVE  /\ Requesting(c)
             /\ conn[c].mysql = "lost"
             /\ conn'[c].mysql = "up"
             /\ conn'[c].pc = conn[c].pc
             /\ conn'[c].el = conn[c].el
  BY <1>1, <1>7 DEF Reopens, PlaceAt, Connections
<1>8. ASSUME Checks(c)
      PROVE  /\ conn[c].pc = "check"
             /\ conn'[c].pc \in {"begin", "check", "failed"}
             /\ conn'[c].mysql = conn[c].mysql
  <2>1. conn[c].pc = "check" /\ conn'[c] = AfterFailure(conn[c])
    BY <1>1, <1>8 DEF Checks
  <2>2. Kind(conn[c].op) \in {"trans", "empty"}
    BY <1>1, <2>1 DEF PlaceAt, Busy
  <2> QED BY <1>1, <2>1, <2>2, AfterFailureFields
<1> QED BY <1>2, <1>3, <1>4, <1>5, <1>6, <1>7, <1>8, <1>9

\* A step that leaves a connection and its session alone, or deletes an idle
\* connection.
LEMMA SessionFrame ==
  ASSUME NEW d, SessionAt(d),
         conn'[d].pc = conn[d].pc,
         conn'[d].op = conn[d].op,
         conn'[d].el = conn[d].el,
         conn'[d].mysql = conn[d].mysql \/ ~Busy(d),
         session'[d] = session[d],
         Busy(d) => /\ ops'[conn[d].op].kind = ops[conn[d].op].kind
                    /\ ops[conn[d].op].lost => ops'[conn[d].op].lost
  PROVE  SessionAt(d)'
<1>1. CASE ~Busy(d)
  BY <1>1 DEF SessionAt, Busy
<1>2. CASE Busy(d)
  BY <1>2 DEF SessionAt, Busy, Kind
<1> QED BY <1>1, <1>2

\* What the server does with a statement, START TRANSACTION, ROLLBACK and COMMIT.
LEMMA SessionAfterFields ==
  ASSUME Control, SessionTypes, NEW c \in Conns, Requesting(c), SessionAt(c)
  PROVE  /\ SessionAfter(c) \in Sessions
         /\ conn[c].pc = "begin" => SessionAfter(c).tx /\ SessionAfter(c).held = <<>>
         /\ conn[c].pc \in {"rollback", "commit"} => SessionAfter(c) = NoTransaction
         /\ conn[c].pc = "exec" /\ session[c] = NoTransaction => SessionAfter(c) = NoTransaction
         /\ conn[c].pc = "exec" /\ Kind(conn[c].op) = "trans" /\ session[c].tx =>
                /\ SessionAfter(c).tx
                /\ SessionAfter(c).held = Append(session[c].held, Statement(c))
<1>1. session[c] \in Sessions /\ conn[c].op \in Nat /\ conn[c].el \in Nat
  BY DEF Control, ControlTypes, Connections, SessionTypes
<1>2. conn[c].pc \in {"begin", "exec", "rollback", "commit"}
  BY DEF Requesting
<1>3. CASE conn[c].pc = "begin"
  <2> DEFINE s == [tx |-> TRUE, held |-> <<>>]
  <2>1. SessionAfter(c) = s
    BY <1>3 DEF SessionAfter
  <2>2. <<>> \in Seq(Nat \X Nat)
    OBVIOUS
  <2>3. s \in Sessions
    BY <2>2, Zenon DEF Sessions
  <2> QED BY <1>3, <2>1, <2>3
<1>4. CASE conn[c].pc \in {"rollback", "commit"}
  <2>1. SessionAfter(c) = NoTransaction
    BY <1>4 DEF SessionAfter
  <2> QED BY <1>4, <2>1, NoTransactionFacts
<1>5. CASE conn[c].pc = "exec" /\ Writes(conn[c].op) /\ session[c].tx
  <2> DEFINE h == Append(session[c].held, Statement(c))
             s == [session[c] EXCEPT !.held = h]
  <2>1. SessionAfter(c) = s
    BY <1>5 DEF SessionAfter
  <2>2. h \in Seq(Nat \X Nat)
    BY <1>1 DEF Statement, Sessions
  <2> HIDE DEF h
  <2>3. s \in Sessions
    BY <1>1, <2>2 DEF Sessions
  <2>4. s.held = h
    BY <1>1 DEF Sessions
  <2>5. s.tx
    BY <1>1, <1>5 DEF Sessions
  <2> QED BY <1>5, <2>1, <2>3, <2>4, <2>5, NoTransactionFacts DEF h
<1>6. CASE conn[c].pc = "exec" /\ ~(Writes(conn[c].op) /\ session[c].tx)
  <2>1. SessionAfter(c) = session[c]
    BY <1>6 DEF SessionAfter
  <2> QED BY <1>1, <1>6, <2>1 DEF Writes
<1> QED BY <1>2, <1>3, <1>4, <1>5, <1>6

\* A request keeps SessionInv: the server follows the statement at hand.
LEMMA WithinSession ==
  ASSUME Control, SessionTypes, SessionInv, NEW c \in Conns, Within(c)
  PROVE  SessionTypes' /\ SessionInv'
<1>1. /\ \A d \in Conns : d # c => conn'[d] = conn[d]
      /\ conn[c].pc # "idle"
      /\ conn'[c].pc # "idle"
      /\ conn'[c].op = conn[c].op
      /\ conn[c].op \in DOMAIN ops
      /\ ops'[conn[c].op].kind = ops[conn[c].op].kind
      /\ ops[conn[c].op].lost => ops'[conn[c].op].lost
  BY WithinConn, WithinOps DEF Control, OpInv, Busy
<1>2. PICK s \in Sessions : session' = [session EXCEPT ![c] = s] /\ SessionAt(c)'
  <2>1. SessionAt(c) /\ PlaceAt(c) /\ session[c] \in Sessions /\ conn[c] \in Connections
    BY DEF SessionInv, SessionTypes, Control, PlaceInv, ControlTypes
  <2>2. session = [session EXCEPT ![c] = session[c]]
    BY DEF SessionTypes
  <2>3. ASSUME NEW s \in Sessions, session' = [session EXCEPT ![c] = s]
        PROVE  session'[c] = s
    BY <2>3 DEF SessionTypes
  <2>4. CASE Succeeds(c)
    <3> DEFINE s == SessionAfter(c)
    <3>1. Requesting(c) /\ Moves(c, TRUE) /\ conn[c].mysql = "up" /\ conn'[c].mysql = "up"
      BY <2>4, StepMoves
    <3>2. session' = [session EXCEPT ![c] = s]
      BY <2>4 DEF Succeeds
    <3>3. s \in Sessions
      BY <2>1, <3>1, SessionAfterFields
    <3>4. session'[c] = s
      BY <2>3, <3>2, <3>3
    <3>5. CASE conn[c].pc = "begin"
      <4>1. /\ conn'[c].pc = "exec"
            /\ conn'[c].el = 1
            /\ ops'[conn[c].op].kind = "trans"
        BY <1>1, <2>1, <3>1, <3>5 DEF Moves, PlaceAt, Busy, Kind
      <4>2. session'[c].tx /\ session'[c].held = <<>>
        BY <2>1, <3>1, <3>4, <3>5, SessionAfterFields
      <4>3. <<>> = Prefix(conn'[c].op, conn'[c].el - 1)
        <5>1. conn'[c].el - 1 = 0
          BY <4>1
        <5> QED BY <5>1, PrefixNone
      <4>4. SessionAt(c)'
        BY <1>1, <3>1, <4>1, <4>2, <4>3 DEF SessionAt, Kind
      <4> QED BY <3>2, <3>3, <4>4
    <3>6. CASE conn[c].pc \in {"rollback", "commit"}
      <4>1. conn'[c].pc \in {"check", "won"}
        BY <3>1, <3>6 DEF Moves
      <4>2. session'[c] = NoTransaction
        BY <2>1, <3>1, <3>4, <3>6, SessionAfterFields
      <4>3. SessionAt(c)'
        BY <4>1, <4>2 DEF SessionAt
      <4> QED BY <3>2, <3>3, <4>3
    <3>7. CASE conn[c].pc = "exec" /\ Kind(conn[c].op) # "trans"
      <4>1. conn'[c].pc \in {"exec", "won"}
        BY <3>1, <3>7 DEF Moves
      <4>2. session'[c] = NoTransaction
        BY <2>1, <3>1, <3>4, <3>7, SessionAfterFields DEF SessionAt
      <4>3. SessionAt(c)'
        BY <1>1, <3>7, <4>1, <4>2 DEF SessionAt, Kind
      <4> QED BY <3>2, <3>3, <4>3
    <3>8. CASE conn[c].pc = "exec" /\ Kind(conn[c].op) = "trans"
      <4>1. \/ conn[c].el < Size /\ conn'[c].pc = "exec" /\ conn'[c].el = conn[c].el + 1
            \/ ~(conn[c].el < Size) /\ conn'[c].pc = "commit"
        BY <3>1, <3>8 DEF Moves
      <4>2. CASE session[c] = NoTransaction /\ ops[conn[c].op].lost
        <5>1. session'[c] = NoTransaction
          BY <2>1, <3>1, <3>4, <3>8, <4>2, SessionAfterFields
        <5>2. SessionAt(c)'
          BY <1>1, <3>8, <4>1, <4>2, <5>1 DEF SessionAt, Kind
        <5> QED BY <3>2, <3>3, <5>2
      <4>3. CASE session[c].tx /\ session[c].held = Prefix(conn[c].op, conn[c].el - 1)
        <5>1. session'[c].tx /\ session'[c].held = Append(session[c].held, Statement(c))
          BY <2>1, <3>1, <3>4, <3>8, <4>3, SessionAfterFields
        <5>2. conn[c].el \in 1..Size /\ conn[c].op \in Nat
          BY <2>1, <3>8 DEF PlaceAt, Busy, Connections
        <5> DEFINE n == conn[c].el - 1
        <5>3. n \in Nat /\ n + 1 = conn[c].el /\ conn[c].el + 1 - 1 = conn[c].el
          BY <5>2, BoundAssumption
        <5> HIDE DEF n
        <5>4. session'[c].held = Prefix(conn[c].op, n + 1)
          BY <4>3, <5>1, <5>2, <5>3, PrefixFacts DEF n, Statement
        <5>5. session'[c].held = Prefix(conn[c].op, conn[c].el)
          BY <5>3, <5>4
        <5>6. ~(conn[c].el < Size) => conn[c].el = Size
          BY <5>2, BoundAssumption
        <5>7. conn'[c].pc = "exec" => session'[c].held = Prefix(conn'[c].op, conn'[c].el - 1)
          BY <1>1, <4>1, <5>3, <5>5
        <5>8. conn'[c].pc = "commit" => session'[c].held = Prefix(conn'[c].op, Size)
          BY <1>1, <4>1, <5>5, <5>6
        <5>9. SessionAt(c)'
          BY <1>1, <3>1, <3>8, <4>1, <5>1, <5>7, <5>8 DEF SessionAt, Kind
        <5> QED BY <3>2, <3>3, <5>9
      <4> QED BY <2>1, <3>1, <3>8, <4>2, <4>3 DEF SessionAt
    <3> QED BY <3>1, <3>5, <3>6, <3>7, <3>8 DEF Requesting
  <2>5. CASE Fails(c)
    <3>1. conn[c].pc = "exec" /\ Moves(c, FALSE) /\ conn'[c].mysql = "up"
      BY <2>5, StepMoves
    <3>2. \/ session' = [session EXCEPT ![c] = NoTransaction]
          \/ session' = [session EXCEPT ![c] = session[c]]
      BY <2>2, <2>5 DEF Fails
    <3>3. \E s \in Sessions : /\ session' = [session EXCEPT ![c] = s]
                              /\ Kind(conn[c].op) # "trans" => s = NoTransaction
      BY <2>1, <3>1, <3>2, NoTransactionFacts DEF SessionAt
    <3>4. CASE Kind(conn[c].op) = "trans"
      <4>1. conn'[c].pc = "rollback"
        BY <3>1, <3>4 DEF Moves
      <4>2. SessionAt(c)'
        BY <3>1, <4>1 DEF SessionAt
      <4> QED BY <3>3, <4>2
    <3>5. CASE Kind(conn[c].op) # "trans"
      <4>1. conn'[c].pc \in {"exec", "won", "failed"}
        BY <3>1, <3>5 DEF Moves
      <4>2. session'[c] = NoTransaction
        BY <2>3, <3>3, <3>5
      <4>3. SessionAt(c)'
        BY <1>1, <3>5, <4>1, <4>2 DEF SessionAt, Kind
      <4> QED BY <3>3, <4>3
    <3> QED BY <3>4, <3>5
  <2>6. CASE Loses(c)
    <3>1. /\ Requesting(c)
          /\ conn'[c].pc = conn[c].pc
          /\ conn'[c].el = conn[c].el
          /\ ops'[conn[c].op].lost
      BY <2>6, StepMoves
    <3>2. session' = [session EXCEPT ![c] = NoTransaction]
      BY <2>6, Zenon DEF Loses
    <3>3. session'[c] = NoTransaction
      BY <2>3, <3>2, NoTransactionFacts
    <3>4. SessionAt(c)'
      BY <1>1, <3>1, <3>3 DEF SessionAt
    <3> QED BY <3>2, <3>4, NoTransactionFacts
  <2>7. CASE Reopens(c)
    <3>1. /\ conn[c].mysql = "lost"
          /\ conn'[c].pc = conn[c].pc
      BY <2>7, StepMoves
    <3>2. session' = session
      BY <2>7 DEF Reopens, server
    <3>3. session'[c] = NoTransaction
      BY <2>1, <3>1, <3>2 DEF SessionAt
    <3>4. ops[conn[c].op].lost
      BY <1>1, <2>1, <3>1 DEF PlaceAt, Busy
    <3>5. SessionAt(c)'
      BY <1>1, <3>3, <3>4 DEF SessionAt
    <3> QED BY <2>1, <2>2, <3>2, <3>5
  <2>8. CASE ReopenFails(c)
    <3>1. /\ conn[c].mysql = "lost"
          /\ conn' = conn \/ conn'[c].mysql = "null"
      BY <2>8, StepMoves
    <3>2. session' = session
      BY <2>8 DEF ReopenFails, server
    <3>3. session'[c] = NoTransaction
      BY <2>1, <3>1, <3>2 DEF SessionAt
    <3>4. ops[conn[c].op].lost
      BY <1>1, <2>1, <3>1 DEF PlaceAt, Busy
    <3>5. SessionAt(c)'
      BY <1>1, <3>3, <3>4 DEF SessionAt
    <3> QED BY <2>1, <2>2, <3>2, <3>5
  <2>9. CASE HasNoHandle(c)
    <3>1. /\ Requesting(c)
          /\ Moves(c, FALSE)
          /\ conn[c].mysql = "null"
          /\ conn'[c].mysql = "null"
      BY <2>9, StepMoves
    <3>2. session' = session
      BY <2>9 DEF HasNoHandle, server
    <3>3. session'[c] = NoTransaction
      BY <2>1, <3>1, <3>2 DEF SessionAt
    <3>4. conn'[c].pc # "commit"
      BY <3>1 DEF Moves, Requesting
    <3>5. SessionAt(c)'
      BY <1>1, <3>1, <3>3, <3>4 DEF SessionAt
    <3> QED BY <2>1, <2>2, <3>2, <3>5
  <2>10. CASE Checks(c)
    <3>1. /\ conn[c].pc = "check"
          /\ conn'[c].pc \in {"begin", "check", "failed"}
      BY <2>10, StepMoves
    <3>2. session' = session
      BY <2>10 DEF Checks, server
    <3>3. session'[c] = NoTransaction
      BY <2>1, <3>1, <3>2 DEF SessionAt
    <3>4. SessionAt(c)'
      BY <3>1, <3>3 DEF SessionAt
    <3> QED BY <2>1, <2>2, <3>2, <3>4
  <2>11. CASE Refused(c)
    <3>1. /\ conn[c].pc \in {"begin", "rollback", "commit"}
          /\ Moves(c, FALSE)
          /\ conn[c].pc = "begin" => ops'[conn[c].op].lost
      BY <2>11, StepMoves
    <3>2. session' = [session EXCEPT ![c] = NoTransaction]
      BY <2>11, Zenon DEF Refused
    <3>3. session'[c] = NoTransaction
      BY <2>3, <3>2, NoTransactionFacts
    <3>4. conn'[c].pc \in {"exec", "check", "won"} /\ (conn'[c].pc = "exec" => conn[c].pc = "begin")
      BY <3>1 DEF Moves
    <3>5. SessionAt(c)'
      BY <1>1, <3>1, <3>3, <3>4 DEF SessionAt
    <3> QED BY <3>2, <3>5, NoTransactionFacts
  <2> QED BY <2>4, <2>5, <2>6, <2>7, <2>8, <2>9, <2>10, <2>11 DEF Within
<1>3. SessionTypes'
  BY <1>2 DEF SessionTypes
<1>4. ASSUME NEW d \in Conns, d # c PROVE SessionAt(d)'
  <2>1. conn'[d] = conn[d] /\ SessionAt(d)
    BY <1>1, <1>4 DEF SessionInv
  <2>2. session'[d] = session[d]
    BY <1>2, <1>4 DEF SessionTypes
  <2>3. Busy(d) => /\ ops'[conn[d].op].kind = ops[conn[d].op].kind
                   /\ ops[conn[d].op].lost => ops'[conn[d].op].lost
    BY WithinOps DEF Control, OpInv
  <2> QED BY <2>1, <2>2, <2>3, SessionFrame
<1> QED BY <1>2, <1>3, <1>4 DEF SessionInv

-----------------------------------------------------------------------------
(* The steps that send nothing to the server: for a connection they are    *)
(* nothing, the begin of an operation or the end of one.                   *)

Outside ==
    \/ UNCHANGED vars
    \/ \E k \in Callers : Delay(k) \/ Direct(k) \/ KeepAlive(k) \/ EnqueuePing(k)
    \/ \E k \in Callers, c \in Synch : GetFreeConnection(k, c)
    \/ \E w \in Workers : Dequeue(w) \/ EndWorker(w) \/ JoinWorker(w)
    \/ \E c \in Conns : Finish(c)
    \/ Close
    \/ CloseSynch
    \/ CrashStep

Quiet(d) ==
    /\ conn'[d].pc = conn[d].pc
    /\ conn'[d].op = conn[d].op
    /\ conn'[d].el = conn[d].el
    /\ conn'[d].mysql = conn[d].mysql \/ ~Busy(d)

Begun(d) ==
    /\ ~Busy(d)
    /\ conn'[d].pc \in {"begin", "check", "won", "exec"}
    /\ conn'[d].op \in DOMAIN ops
    /\ conn'[d].pc = "won" => ops[conn'[d].op].kind = "ping"
    /\ conn'[d].pc = "exec" => ops[conn'[d].op].kind # "trans"
    /\ ops[conn'[d].op].status = "waiting"
    /\ \A e \in Conns : Busy(e) => conn[e].op # conn'[d].op

Ended(d) ==
    /\ conn[d].pc \in {"won", "failed"}
    /\ conn'[d].pc = "idle"
    /\ ops'[conn[d].op].status = IF conn[d].pc = "won" THEN "ok" ELSE "failed"

OpsFrame ==
    /\ \A p \in DOMAIN ops : /\ p \in DOMAIN ops'
                             /\ ops'[p].kind = ops[p].kind
                             /\ ops'[p].direct = ops[p].direct
                             /\ ops'[p].lost = ops[p].lost
                             /\ ops'[p].refused = ops[p].refused
    /\ \A p \in DOMAIN ops' : p \in DOMAIN ops \/ (p = Len(ops) + 1 /\ ops'[p].status = "waiting")

StatusFrame ==
    \A p \in DOMAIN ops :
        \/ ops'[p].status = ops[p].status
        \/ \E d \in Conns : Ended(d) /\ conn[d].op = p
        \/ ops'[p].status = "flushed" /\ \E i \in DOMAIN queue : queue[i] = p

OutsideFrame ==
    /\ UNCHANGED <<session, db>>
    /\ \A d \in Conns : Quiet(d) \/ Begun(d) \/ Ended(d)
    /\ OpsFrame
    /\ StatusFrame

\* An operation more, or none.
LEMMA FrameOfOps ==
  ASSUME Control
  PROVE  /\ ops' = ops => OpsFrame /\ StatusFrame
         /\ \A kind \in AllKinds : \A direct \in BOOLEAN :
                ops' = Append(ops, New(kind, direct)) => OpsFrame /\ StatusFrame
<1>1. ops' = ops => OpsFrame /\ StatusFrame
  BY DEF OpsFrame, StatusFrame
<1>2. ASSUME NEW kind \in AllKinds, NEW direct \in BOOLEAN, ops' = Append(ops, New(kind, direct))
      PROVE  OpsFrame /\ StatusFrame
  <2>1. ops \in Seq(Operations)
    BY DEF Control, ControlTypes
  <2>2. /\ \A p \in DOMAIN ops : p \in DOMAIN ops' /\ ops'[p] = ops[p]
        /\ \A p \in DOMAIN ops' : p \in DOMAIN ops \/ p = Len(ops) + 1
        /\ ops'[Len(ops) + 1].status = "waiting"
    BY <1>2, <2>1, NewFields, Zenon
  <2> QED BY <2>2 DEF OpsFrame, StatusFrame
<1> QED BY <1>1, <1>2

\* What a step outside the server is for the connections and the operations.
LEMMA OutsideEffect ==
  ASSUME Control, Outside
  PROVE  OutsideFrame
<1>1. ASSUME UNCHANGED <<ops, conn>> \/ (UNCHANGED conn /\ OpsFrame /\ StatusFrame), UNCHANGED <<session, db>>
      PROVE  OutsideFrame
  BY <1>1, FrameOfOps DEF OutsideFrame, Quiet
<1>2. CASE UNCHANGED vars
  BY <1>1, <1>2 DEF vars, server
<1>14. CASE CrashStep
  <2>1. UNCHANGED <<ops, conn, session, db>>
    BY <1>14 DEF CrashStep, KeepAliveCrashes, PingCrashes, CloseCrashes, Crash, server
  <2> QED BY <1>1, <2>1
<1>3. ASSUME NEW k \in Callers, Delay(k) \/ EnqueuePing(k)
      PROVE  OutsideFrame
  <2>1. PICK kind \in AllKinds : Enqueue(kind)
    BY <1>3, PoolAssumption DEF Delay, EnqueuePing, AllKinds
  <2>2. ops' = Append(ops, New(kind, FALSE))
    BY <2>1, EnqueueEffect
  <2>3. OpsFrame /\ StatusFrame
    BY <2>2, FrameOfOps
  <2>4. UNCHANGED <<conn, session, db>>
    BY <1>3 DEF Delay, EnqueuePing, server
  <2> QED BY <1>1, <2>3, <2>4
<1>4. ASSUME NEW k \in Callers, Direct(k)
      PROVE  OutsideFrame
  <2>1. PICK kind \in Kinds \ {"holder"} : ops' = Append(ops, New(kind, TRUE))
    BY <1>4, Zenon DEF Direct
  <2>2. kind \in AllKinds
    BY PoolAssumption
  <2>3. OpsFrame /\ StatusFrame
    BY <2>1, <2>2, FrameOfOps, Zenon
  <2>4. UNCHANGED <<conn, session, db>>
    BY <1>4 DEF Direct, server
  <2> QED BY <1>1, <2>3, <2>4
<1>5. ASSUME NEW k \in Callers, KeepAlive(k)
      PROVE  OutsideFrame
  <2>1. UNCHANGED <<ops, session, db>>
    BY <1>5 DEF KeepAlive, server
  <2>2. \A c \in Conns : /\ conn'[c].pc = conn[c].pc
                         /\ conn'[c].op = conn[c].op
                         /\ conn'[c].el = conn[c].el
                         /\ conn'[c].mysql = conn[c].mysql
    BY <1>5 DEF KeepAlive, Control, ControlTypes, Connections
  <2> QED BY <2>1, <2>2, FrameOfOps DEF OutsideFrame, Quiet
<1>6. ASSUME NEW c \in Conns, NEW o \in DOMAIN ops, ~Busy(c),
             ops[o].status = "waiting",
             \A e \in Conns : Busy(e) => conn[e].op # o,
             conn' = [conn EXCEPT ![c] = Start([@ EXCEPT !.op = o], Kind(o))],
             UNCHANGED <<ops, session, db>>
      PROVE  OutsideFrame
  <2>1. /\ \A d \in Conns : d # c => conn'[d] = conn[d]
        /\ conn'[c].pc \in {"begin", "check", "won", "exec"}
        /\ conn'[c].op = o
        /\ conn'[c].pc = "won" => ops[o].kind = "ping"
        /\ conn'[c].pc = "exec" => ops[o].kind \in {"stmt", "query", "holder"}
    BY <1>6, StartEffect DEF Kind
  <2>2. Begun(c)
    BY <1>6, <2>1 DEF Begun
  <2>3. \A d \in Conns : d # c => Quiet(d)
    BY <2>1 DEF Quiet
  <2> QED BY <1>6, <2>2, <2>3, FrameOfOps DEF OutsideFrame
<1>7. ASSUME NEW k \in Callers, NEW c \in Synch, GetFreeConnection(k, c)
      PROVE  OutsideFrame
  <2>1. /\ UNCHANGED <<ops, session, db>>
        /\ call[k] # 0
        /\ \A d \in Synch : lock[d] # k
        /\ lock[c] = NoCaller
        /\ conn' = [conn EXCEPT ![c] = Start([@ EXCEPT !.op = call[k]], Kind(call[k]))]
    BY <1>7 DEF GetFreeConnection, server
  <2>2. c \in Conns /\ ~Busy(c)
    BY <2>1 DEF Control, CallInv, Conns
  <2>3. call[k] \in DOMAIN ops /\ ops[call[k]].status = "waiting" /\ ops[call[k]].direct
    BY <2>1 DEF Control, CallInv
  <2>4. \A d \in Conns : Busy(d) => conn[d].op # call[k]
    <3>1. SUFFICES ASSUME NEW d \in Conns, Busy(d), conn[d].op = call[k] PROVE FALSE
      OBVIOUS
    <3>2. d \in Synch
      BY <2>3, <3>1 DEF Control, OpInv, Conns
    <3>3. call[lock[d]] = call[k] /\ lock[d] \in Callers
      BY <3>1, <3>2 DEF Control, CallInv, ControlTypes
    <3> QED BY <2>1, <3>2, <3>3 DEF Control, CallInv
  <2> QED BY <1>6, <2>1, <2>2, <2>3, <2>4
<1>8. ASSUME NEW w \in Workers, Dequeue(w)
      PROVE  OutsideFrame
  <2>1. /\ UNCHANGED <<ops, session, db>>
        /\ conn[w].pc = "idle"
        /\ queue # <<>>
        /\ conn' = [conn EXCEPT ![w] = Start([@ EXCEPT !.op = queue[1]], Kind(queue[1]))]
    BY <1>8 DEF Dequeue, Ready, server, NextOf
  <2>2. w \in Conns /\ ~Busy(w)
    BY <2>1 DEF Conns, Busy
  <2>3. queue \in Seq(Nat)
    BY DEF Control, ControlTypes
  <2>4. 1 \in DOMAIN queue
    BY <2>1, <2>3, Rest
  <2>5. /\ queue[1] \in DOMAIN ops
        /\ ops[queue[1]].status = "waiting"
        /\ \A d \in Conns : Busy(d) => conn[d].op # queue[1]
    BY <2>4 DEF Control, QueueInv
  <2> QED BY <1>6, <2>1, <2>2, <2>5
<1>9. ASSUME NEW w \in Workers, EndWorker(w)
      PROVE  OutsideFrame
  BY <1>1, <1>9 DEF EndWorker, server
<1>10. ASSUME NEW w \in Workers, JoinWorker(w)
      PROVE  OutsideFrame
  <2>1. /\ UNCHANGED <<ops, session, db>>
        /\ conn' = [conn EXCEPT ![w].mysql = "deleted"]
        /\ thread[w] = "ended"
    BY <1>10 DEF JoinWorker, Waited, server
  <2>2. w \in Conns /\ ~Busy(w)
    BY <2>1 DEF Conns, Busy, Control, CloseInv
  <2>3. \A d \in Conns : /\ conn'[d].pc = conn[d].pc
                         /\ conn'[d].op = conn[d].op
                         /\ conn'[d].el = conn[d].el
                         /\ d # w => conn'[d].mysql = conn[d].mysql
    BY <2>1, <2>2 DEF Control, ControlTypes, Connections
  <2> QED BY <2>1, <2>2, <2>3, FrameOfOps DEF OutsideFrame, Quiet
<1>11. ASSUME NEW c \in Conns, Finish(c)
      PROVE  OutsideFrame
  <2>1. UNCHANGED <<session, db>>
    BY <1>11 DEF Finish, server
  <2>2. Ended(c)
    BY <1>11, FinishEffect DEF Ended
  <2>3. \A d \in Conns : d # c => Quiet(d)
    BY <1>11, FinishEffect DEF Quiet
  <2>4. OpsFrame
    BY <1>11, FinishEffect DEF OpsFrame
  <2>5. StatusFrame
    BY <1>11, <2>2, FinishEffect DEF StatusFrame
  <2> QED BY <2>1, <2>2, <2>3, <2>4, <2>5 DEF OutsideFrame
<1>12. CASE Close
  <2>1. UNCHANGED <<conn, session, db>>
    BY <1>12 DEF Close, server
  <2>2. OpsFrame
    BY <1>12, CloseOps DEF OpsFrame
  <2>3. StatusFrame
    BY <1>12, CloseOps DEF StatusFrame
  <2> QED BY <1>1, <2>1, <2>2, <2>3
<1>13. CASE CloseSynch
  <2>1. UNCHANGED <<ops, session, db>>
    BY <1>13 DEF CloseSynch, server
  <2>2. \A d \in Conns : /\ conn'[d].pc = conn[d].pc
                         /\ conn'[d].op = conn[d].op
                         /\ conn'[d].el = conn[d].el
                         /\ conn'[d].mysql = "deleted"
    BY <1>13 DEF CloseSynch, Control, ControlTypes, Connections
  <2>3. \A d \in Conns : ~Busy(d)
    BY <1>13, NoneBusy DEF CloseSynch
  <2> QED BY <2>1, <2>2, <2>3, FrameOfOps DEF OutsideFrame, Quiet
<1> QED BY <1>2, <1>3, <1>4, <1>5, <1>7, <1>8, <1>9, <1>10, <1>11, <1>12, <1>13, <1>14 DEF Outside

\* Every step is one of the two.
LEMMA NextSplit == ASSUME [Next]_vars PROVE Outside \/ \E c \in Conns : Within(c)
  BY DEF Next, Outside, CrashStep, Step, Within, Halted

\* A step outside the server keeps SessionInv: an operation begins and ends without a transaction.
LEMMA OutsideSession ==
  ASSUME Control, SessionTypes, SessionInv, Outside
  PROVE  SessionTypes' /\ SessionInv'
<1>1. OutsideFrame
  BY OutsideEffect
<1>2. SessionTypes'
  BY <1>1 DEF OutsideFrame, SessionTypes
<1>3. SUFFICES ASSUME NEW d \in Conns PROVE SessionAt(d)'
  BY <1>2 DEF SessionInv
<1>4. SessionAt(d) /\ session'[d] = session[d]
  BY <1>1 DEF SessionInv, OutsideFrame
<1>5. CASE Quiet(d)
  <2>1. Busy(d) => /\ ops'[conn[d].op].kind = ops[conn[d].op].kind
                   /\ ops[conn[d].op].lost => ops'[conn[d].op].lost
    BY <1>1 DEF OutsideFrame, OpsFrame, Control, OpInv
  <2> QED BY <1>4, <1>5, <2>1, SessionFrame DEF Quiet
<1>6. CASE Begun(d)
  <2>1. session'[d] = NoTransaction
    BY <1>4, <1>6 DEF Begun, Busy, SessionAt
  <2>2. ops'[conn'[d].op].kind = ops[conn'[d].op].kind
    BY <1>1, <1>6 DEF Begun, OutsideFrame, OpsFrame
  <2> QED BY <1>6, <2>1, <2>2 DEF Begun, SessionAt, Kind
<1>7. CASE Ended(d)
  <2>1. session'[d] = NoTransaction
    BY <1>4, <1>7 DEF Ended, SessionAt
  <2> QED BY <1>7, <2>1 DEF Ended, SessionAt
<1> QED BY <1>1, <1>5, <1>6, <1>7 DEF OutsideFrame

\* The initial states satisfy SessionInv.
LEMMA SessionInit == Init => SessionTypes /\ SessionInv
<1> SUFFICES ASSUME Init PROVE SessionTypes /\ SessionInv
  OBVIOUS
<1>1. \A c \in Conns : session[c] = NoTransaction /\ conn[c].pc = "idle"
  BY DEF Init, Connected
<1>2. SessionTypes
  BY NoTransactionFacts DEF Init, SessionTypes
<1>3. SessionInv
  BY <1>1 DEF SessionInv, SessionAt
<1> QED BY <1>2, <1>3

\* Every step keeps SessionInv.
LEMMA SessionStep ==
  ASSUME Control, SessionTypes, SessionInv, [Next]_vars
  PROVE  SessionTypes' /\ SessionInv'
  BY NextSplit, OutsideSession, WithinSession

\* SessionInv holds in every reachable state.
LEMMA SessionAlways == Spec => [](Control /\ SessionTypes /\ SessionInv)
<1>1. Init => Control /\ SessionTypes /\ SessionInv
  BY ControlInit, SessionInit
<1>2. Control /\ SessionTypes /\ SessionInv /\ [Next]_vars
        => (Control /\ SessionTypes /\ SessionInv)'
  BY ControlStep, SessionStep
<1> QED BY <1>1, <1>2, PTL DEF Spec

\* ExecuteTransaction leaves no transaction open behind it, on any path out of
\* it: rollback, commit, deadlock, lost connection or no handle.
THEOREM NoStrayTransactionCorrect == Spec => []NoStrayTransaction
<1>1. SessionInv => NoStrayTransaction
  BY DEF SessionInv, SessionAt, NoStrayTransaction
<1> QED BY <1>1, SessionAlways, PTL

-----------------------------------------------------------------------------
(* What the database holds. *)

DbTypes == db \in Seq(Nat \X Nat)

\* The database holds nothing of an operation that is not over, and all of one
\* that was executed, unless a connection was lost under it.
DbInv ==
    /\ \A i \in DOMAIN db : db[i][1] \in DOMAIN ops
    /\ \A o \in DOMAIN ops :
            ~ops[o].lost /\ ops[o].status = "waiting" =>
                \/ Nothing(o)
                \/ \E c \in Conns : conn[c].pc = "won" /\ conn[c].op = o
    /\ \A c \in Conns : \A o \in DOMAIN ops :
            conn[c].pc = "won" /\ conn[c].op = o =>
                Durable(o) \/ ops[o].lost \/ (ops[o].refused /\ Nothing(o))

\* Nothing and Durable, of any sequence of statements.
None(d, o) == \A i \in DOMAIN d : d[i][1] # o

All(d, e, o) ==
    \E n \in 0 .. Len(d) - Len(e) :
        \A i \in DOMAIN d :
            IF i \in n + 1 .. n + Len(e) THEN d[i] = e[i - n] ELSE d[i][1] # o

\* Where the elements of a concatenation come from.
LEMMA ConcatElements ==
  ASSUME NEW d \in Seq(Nat \X Nat), NEW t \in Seq(Nat \X Nat)
  PROVE  /\ d \o t \in Seq(Nat \X Nat)
         /\ Len(d \o t) = Len(d) + Len(t)
         /\ \A i \in DOMAIN d : i \in DOMAIN (d \o t) /\ (d \o t)[i] = d[i]
         /\ \A i \in DOMAIN (d \o t) :
                \/ i \in DOMAIN d
                \/ /\ i > Len(d)
                   /\ i - Len(d) \in DOMAIN t
                   /\ (d \o t)[i] = t[i - Len(d)]
  BY SMTT(30)

\* Statements of one operation add nothing to another.
LEMMA NoneConcat ==
  ASSUME NEW d \in Seq(Nat \X Nat), NEW t \in Seq(Nat \X Nat), NEW o, NEW p, p # o,
         \A i \in DOMAIN t : t[i][1] = o, None(d, p)
  PROVE  None(d \o t, p)
<1>1. SUFFICES ASSUME NEW i \in DOMAIN (d \o t) PROVE (d \o t)[i][1] # p
  BY DEF None
<1>2. CASE i \in DOMAIN d
  <2>1. (d \o t)[i] = d[i]
    BY <1>2, ConcatElements
  <2> QED BY <1>2, <2>1 DEF None
<1>3. CASE i - Len(d) \in DOMAIN t /\ (d \o t)[i] = t[i - Len(d)]
  BY <1>3
<1> QED BY <1>2, <1>3, ConcatElements

\* Nor do they disturb what is durable of another.
LEMMA AllConcat ==
  ASSUME NEW d \in Seq(Nat \X Nat), NEW t \in Seq(Nat \X Nat), NEW e \in Seq(Nat \X Nat),
         NEW o, NEW p, p # o,
         \A i \in DOMAIN t : t[i][1] = o, All(d, e, p)
  PROVE  All(d \o t, e, p)
<1>1. PICK n \in 0 .. Len(d) - Len(e) :
        \A i \in DOMAIN d :
            IF i \in n + 1 .. n + Len(e) THEN d[i] = e[i - n] ELSE d[i][1] # p
  BY DEF All
<1>2. Len(d) \in Nat /\ Len(e) \in Nat /\ Len(t) \in Nat /\ Len(d \o t) = Len(d) + Len(t)
  BY ConcatElements
<1>3. n \in 0 .. Len(d \o t) - Len(e) /\ n + Len(e) <= Len(d)
  BY <1>2
<1>4. ASSUME NEW i \in DOMAIN (d \o t)
      PROVE  IF i \in n + 1 .. n + Len(e) THEN (d \o t)[i] = e[i - n] ELSE (d \o t)[i][1] # p
  <2>1. CASE i \in DOMAIN d
    <3>1. (d \o t)[i] = d[i]
      BY <2>1, ConcatElements
    <3> QED BY <1>1, <2>1, <3>1
  <2>2. CASE i > Len(d) /\ i - Len(d) \in DOMAIN t /\ (d \o t)[i] = t[i - Len(d)]
    <3>1. i \notin n + 1 .. n + Len(e)
      BY <1>2, <1>3, <2>2
    <3>2. (d \o t)[i][1] # p
      BY <2>2
    <3> QED BY <3>1, <3>2
  <2> QED BY <2>1, <2>2, ConcatElements
<1> QED BY <1>3, <1>4 DEF All

\* All statements of an operation, appended where there were none, are durable in one piece.
LEMMA OwnConcat ==
  ASSUME NEW d \in Seq(Nat \X Nat), NEW e \in Seq(Nat \X Nat), NEW o, None(d, o)
  PROVE  All(d \o e, e, o)
<1> DEFINE n == Len(d)
<1>1. Len(d) \in Nat /\ Len(e) \in Nat /\ Len(d \o e) = Len(d) + Len(e)
  BY ConcatElements
<1>2. n \in 0 .. Len(d \o e) - Len(e)
  BY <1>1
<1>3. ASSUME NEW i \in DOMAIN (d \o e)
      PROVE  IF i \in n + 1 .. n + Len(e) THEN (d \o e)[i] = e[i - n] ELSE (d \o e)[i][1] # o
  <2>1. CASE i \in DOMAIN d
    <3>1. (d \o e)[i] = d[i] /\ d[i][1] # o
      BY <2>1, ConcatElements DEF None
    <3>2. i \notin n + 1 .. n + Len(e)
      BY <1>1, <2>1
    <3> QED BY <3>1, <3>2
  <2>2. CASE i > Len(d) /\ i - Len(d) \in DOMAIN e /\ (d \o e)[i] = e[i - Len(d)]
    <3>1. i \in n + 1 .. n + Len(e)
      BY <1>1, <2>2
    <3> QED BY <2>2, <3>1
  <2> QED BY <2>1, <2>2, ConcatElements
<1> HIDE DEF n
<1> QED BY <1>2, <1>3 DEF All

\* An operation without effects is durable when the database has nothing of it.
LEMMA NoneAll ==
  ASSUME NEW d \in Seq(Nat \X Nat), NEW o, None(d, o)
  PROVE  All(d, <<>>, o)
<1>1. Len(<<>>) = 0 /\ Len(d) \in Nat
  OBVIOUS
<1>2. 0 \in 0 .. Len(d) - Len(<<>>)
  BY <1>1
<1>3. \A i \in DOMAIN d : i \notin 0 + 1 .. 0 + Len(<<>>)
  BY <1>1
<1>4. \A i \in DOMAIN d : IF i \in 0 + 1 .. 0 + Len(<<>>) THEN d[i] = <<>>[i - 0] ELSE d[i][1] # o
  BY <1>3 DEF None
<1> QED BY <1>2, <1>4 DEF All

\* What an operation makes durable is its own.
LEMMA EffectsFacts ==
  ASSUME NEW o \in Nat
  PROVE  /\ Effects(o) \in Seq(Nat \X Nat)
         /\ Kind(o) = "trans" => Effects(o) = Prefix(o, Size)
         /\ Kind(o) = "stmt" => Effects(o) = <<<<o, 1>>>>
         /\ Kind(o) \notin {"trans", "stmt"} => Effects(o) = <<>>
         /\ \A i \in DOMAIN Effects(o) : Effects(o)[i][1] = o
<1>1. CASE Kind(o) = "trans"
  <2>1. Effects(o) = Prefix(o, Size)
    BY <1>1 DEF Effects, Prefix
  <2>2. /\ Prefix(o, Size) \in Seq(Nat \X Nat)
        /\ DOMAIN Prefix(o, Size) = 1..Size
        /\ \A i \in 1..Size : Prefix(o, Size)[i] = <<o, i>>
    BY BoundAssumption, PrefixFacts DEF Prefix
  <2> QED BY <1>1, <2>1, <2>2
<1>2. CASE Kind(o) = "stmt"
  <2>1. Effects(o) = <<<<o, 1>>>>
    BY <1>2 DEF Effects
  <2> QED BY <1>2, <2>1
<1>3. CASE Kind(o) \notin {"trans", "stmt"}
  <2>1. Effects(o) = <<>>
    BY <1>3 DEF Effects
  <2> QED BY <1>3, <2>1
<1> QED BY <1>1, <1>2, <1>3

\* What a request adds to the database: statements of its operation only and,
\* unless the connection was lost under it, all of them or none.
LEMMA DbAfterFields ==
  ASSUME Control, SessionTypes, SessionInv, DbTypes, NEW c \in Conns,
         Requesting(c), conn[c].mysql = "up"
  PROVE  \E t \in Seq(Nat \X Nat) :
            /\ DbAfter(c) = db \o t
            /\ \A i \in DOMAIN t : t[i][1] = conn[c].op
            /\ ~ops[conn[c].op].lost =>
                 \/ t = Effects(conn[c].op) /\ conn[c].pc = "commit"
                 \/ t = Effects(conn[c].op) /\ conn[c].pc = "exec" /\ Kind(conn[c].op) = "stmt"
                 \/ /\ t = <<>>
                    /\ conn[c].pc # "commit"
                    /\ ~(conn[c].pc = "exec" /\ Kind(conn[c].op) = "stmt")
<1>1. /\ SessionAt(c)
      /\ PlaceAt(c)
      /\ session[c] \in Sessions
      /\ conn[c].op \in Nat
      /\ conn[c].el \in Nat
      /\ db \in Seq(Nat \X Nat)
  BY DEF SessionInv, Control, PlaceInv, SessionTypes, ControlTypes, Connections, DbTypes
<1>2. conn[c].pc \in {"begin", "exec", "rollback", "commit"} /\ Busy(c)
  BY DEF Requesting, Busy
<1> DEFINE z == <<>>
<1>3. /\ z \in Seq(Nat \X Nat)
      /\ z = <<>>
      /\ db = db \o z
      /\ \A i \in DOMAIN z : FALSE
  BY <1>1
<1> HIDE DEF z
<1>4. CASE conn[c].pc = "begin"
  <2>1. session[c].held = <<>>
    BY <1>1, <1>4, NoTransactionFacts DEF SessionAt
  <2>2. DbAfter(c) = db \o z
    BY <1>3, <1>4, <2>1 DEF DbAfter
  <2> QED BY <1>3, <1>4, <2>2
<1>5. CASE conn[c].pc = "commit"
  <2>1. DbAfter(c) = db \o session[c].held
    BY <1>5 DEF DbAfter
  <2>2. Kind(conn[c].op) = "trans"
    BY <1>1, <1>2, <1>5 DEF PlaceAt
  <2>3. CASE session[c].held = Prefix(conn[c].op, Size)
    <3>1. session[c].held = Effects(conn[c].op)
      BY <1>1, <2>2, <2>3, EffectsFacts
    <3> QED BY <1>1, <1>5, <2>1, <3>1, EffectsFacts
  <2>4. CASE session[c] = NoTransaction /\ ops[conn[c].op].lost
    <3>1. session[c].held = <<>>
      BY <2>4, NoTransactionFacts
    <3> QED BY <1>3, <2>1, <2>4, <3>1
  <2> QED BY <1>1, <1>5, <2>3, <2>4 DEF SessionAt
<1>6. CASE conn[c].pc = "rollback"
  <2>1. DbAfter(c) = db
    BY <1>6 DEF DbAfter
  <2> QED BY <1>3, <1>6, <2>1
<1>7. CASE conn[c].pc = "exec" /\ Writes(conn[c].op) /\ ~session[c].tx
  <2> DEFINE t == <<Statement(c)>>
  <2>1. DbAfter(c) = Append(db, Statement(c))
    BY <1>7 DEF DbAfter
  <2>2. Statement(c) \in Nat \X Nat /\ Statement(c)[1] = conn[c].op
    BY <1>1 DEF Statement
  <2>3. t \in Seq(Nat \X Nat) /\ Append(db, Statement(c)) = db \o t /\ DOMAIN t = {1} /\ t[1] = Statement(c)
    BY <1>1, <2>2
  <2>4. CASE Kind(conn[c].op) = "stmt"
    <3>1. conn[c].el = 1
      BY <1>1, <1>2, <1>7, <2>4 DEF PlaceAt
    <3>2. t = Effects(conn[c].op)
      BY <1>1, <2>4, <3>1, EffectsFacts DEF Statement
    <3> HIDE DEF t
    <3> QED BY <1>7, <2>1, <2>2, <2>3, <2>4, <3>2
  <2>5. CASE Kind(conn[c].op) = "trans"
    <3>1. ops[conn[c].op].lost
      BY <1>1, <1>7, <2>5 DEF SessionAt
    <3> HIDE DEF t
    <3> QED BY <2>1, <2>2, <2>3, <3>1
  <2> QED BY <1>7, <2>4, <2>5 DEF Writes
<1>8. CASE conn[c].pc = "exec" /\ ~(Writes(conn[c].op) /\ ~session[c].tx)
  <2>1. DbAfter(c) = db
    BY <1>8 DEF DbAfter
  <2>2. Kind(conn[c].op) # "stmt"
    BY <1>1, <1>8, NoTransactionFacts DEF SessionAt, Writes
  <2> QED BY <1>3, <1>8, <2>1, <2>2
<1> QED BY <1>2, <1>4, <1>5, <1>6, <1>7, <1>8

\* A request appends statements of its own operation: all when that succeeds, none before, unless a connection was lost.
LEMMA WithinDb ==
  ASSUME Control, SessionTypes, SessionInv, DbTypes, NEW c \in Conns, Within(c)
  PROVE  \E t \in Seq(Nat \X Nat) :
            /\ db' = db \o t
            /\ \A i \in DOMAIN t : t[i][1] = conn[c].op
            /\ ~ops'[conn[c].op].lost =>
                 /\ conn'[c].pc = "won" => \/ t = Effects(conn[c].op)
                                           \/ t = <<>> /\ ops'[conn[c].op].refused
                 /\ conn'[c].pc # "won" => t = <<>>
<1>1. /\ SessionAt(c)
      /\ PlaceAt(c)
      /\ conn[c].op \in Nat
      /\ db \in Seq(Nat \X Nat)
      /\ Busy(c)
  BY WithinConn DEF SessionInv, Control, PlaceInv, SessionTypes, ControlTypes, Connections, DbTypes, Busy
<1>2. ops[conn[c].op].lost => ops'[conn[c].op].lost
  BY <1>1, WithinOps DEF Control, OpInv
<1> DEFINE z == <<>>
<1>3. /\ z \in Seq(Nat \X Nat)
      /\ z = <<>>
      /\ db = db \o z
      /\ \A i \in DOMAIN z : FALSE
  BY <1>1
<1> HIDE DEF z
<1>4. CASE Succeeds(c)
  <2>1. Requesting(c) /\ Moves(c, TRUE) /\ conn[c].mysql = "up"
    BY <1>4, StepMoves
  <2>2. PICK t \in Seq(Nat \X Nat) :
            /\ DbAfter(c) = db \o t
            /\ \A i \in DOMAIN t : t[i][1] = conn[c].op
            /\ ~ops[conn[c].op].lost =>
                 \/ t = Effects(conn[c].op) /\ conn[c].pc = "commit"
                 \/ t = Effects(conn[c].op) /\ conn[c].pc = "exec" /\ Kind(conn[c].op) = "stmt"
                 \/ /\ t = <<>>
                    /\ conn[c].pc # "commit"
                    /\ ~(conn[c].pc = "exec" /\ Kind(conn[c].op) = "stmt")
    BY <2>1, DbAfterFields
  <2>3. db' = db \o t
    BY <1>4, <2>2 DEF Succeeds
  <2>4. conn'[c].pc = "won" =>
            \/ conn[c].pc = "commit"
            \/ conn[c].pc = "exec" /\ Kind(conn[c].op) # "trans"
    BY <2>1 DEF Moves, Requesting
  <2>5. conn[c].pc = "commit" \/ (conn[c].pc = "exec" /\ Kind(conn[c].op) = "stmt")
            => conn'[c].pc = "won"
    BY <2>1 DEF Moves
  <2>6. Kind(conn[c].op) \notin {"trans", "stmt"} => Effects(conn[c].op) = <<>>
    BY <1>1, EffectsFacts
  <2>7. ~ops[conn[c].op].lost =>
                 /\ conn'[c].pc = "won" => \/ t = Effects(conn[c].op)
                                           \/ t = <<>> /\ ops'[conn[c].op].refused
                 /\ conn'[c].pc # "won" => t = <<>>
    BY <2>2, <2>4, <2>5, <2>6
  <2> QED BY <1>2, <2>2, <2>3, <2>7
<1>5. CASE Loses(c)
  <2>1. Requesting(c) /\ conn[c].mysql = "up" /\ ops'[conn[c].op].lost
    BY <1>5, StepMoves
  <2>2. db' = db \/ db' = DbAfter(c)
    BY <1>5, Zenon DEF Loses
  <2>3. CASE db' = db
    BY <1>3, <2>1, <2>3
  <2>4. CASE db' = DbAfter(c)
    BY <2>1, <2>4, DbAfterFields
  <2> QED BY <2>2, <2>3, <2>4
<1>6. ASSUME db' = db,
             conn'[c].pc = "won" => \/ ops'[conn[c].op].lost
                                    \/ ops'[conn[c].op].refused
                                    \/ Kind(conn[c].op) = "holder"
      PROVE  \E t \in Seq(Nat \X Nat) :
            /\ db' = db \o t
            /\ \A i \in DOMAIN t : t[i][1] = conn[c].op
            /\ ~ops'[conn[c].op].lost =>
                 /\ conn'[c].pc = "won" => \/ t = Effects(conn[c].op)
                                           \/ t = <<>> /\ ops'[conn[c].op].refused
                 /\ conn'[c].pc # "won" => t = <<>>
  <2>1. Kind(conn[c].op) = "holder" => Effects(conn[c].op) = <<>>
    BY <1>1, EffectsFacts
  <2>2. ~ops'[conn[c].op].lost => (conn'[c].pc = "won" =>
            Effects(conn[c].op) = <<>> \/ ops'[conn[c].op].refused)
    BY <1>6, <2>1
  <2> QED BY <1>3, <1>6, <2>2
<1>7. CASE Fails(c)
  <2>1. db' = db
    BY <1>7 DEF Fails
  <2>2. conn'[c].pc = "won" => Kind(conn[c].op) = "holder"
    BY <1>7, StepMoves DEF Moves
  <2> QED BY <1>6, <2>1, <2>2
<1>12. CASE Refused(c)
  <2>1. db' = db
    BY <1>12 DEF Refused
  <2>2. conn'[c].pc = "won" => ops'[conn[c].op].refused
    BY <1>12, StepMoves DEF Moves
  <2> QED BY <1>6, <2>1, <2>2
<1>8. CASE Reopens(c)
  <2>1. db' = db
    BY <1>8 DEF Reopens, server
  <2>2. conn'[c].pc # "won"
    BY <1>8, StepMoves DEF Requesting
  <2> QED BY <1>6, <2>1, <2>2
<1>9. CASE ReopenFails(c)
  <2>1. db' = db
    BY <1>9 DEF ReopenFails, server
  <2>2. ops[conn[c].op].lost
    BY <1>1, <1>9, StepMoves DEF PlaceAt
  <2> QED BY <1>2, <1>6, <2>1, <2>2
<1>10. CASE HasNoHandle(c)
  <2>1. db' = db
    BY <1>10 DEF HasNoHandle, server
  <2>2. /\ Requesting(c)
        /\ Moves(c, FALSE)
        /\ conn[c].mysql = "null"
    BY <1>10, StepMoves
  <2>3. conn'[c].pc = "won" => conn[c].pc = "commit" \/ Kind(conn[c].op) = "holder"
    BY <2>2 DEF Moves, Requesting
  <2>4. conn[c].pc = "commit" => ops[conn[c].op].lost
    <3>1. session[c].held = <<>>
      BY <1>1, <2>2, NoTransactionFacts DEF SessionAt
    <3>2. Prefix(conn[c].op, Size) # <<>>
      BY <1>1, PrefixFacts, BoundAssumption
    <3> QED BY <1>1, <3>1, <3>2 DEF SessionAt
  <2> QED BY <1>2, <1>6, <2>1, <2>3, <2>4
<1>11. CASE Checks(c)
  <2>1. db' = db
    BY <1>11 DEF Checks, server
  <2>2. conn'[c].pc # "won"
    BY <1>11, StepMoves
  <2> QED BY <1>6, <2>1, <2>2
<1> QED BY <1>4, <1>5, <1>7, <1>8, <1>9, <1>10, <1>11, <1>12 DEF Within

Inv == Control /\ SessionTypes /\ SessionInv /\ DbTypes /\ DbInv /\ Truthful

\* An operation that keeps its kind keeps its effects.
LEMMA EffectsKept ==
  ASSUME NEW p, ops'[p].kind = ops[p].kind
  PROVE  Effects(p)' = Effects(p)
  BY DEF Effects, Kind

\* While an operation waits and no connection has finished it, the database
\* has nothing of it.
LEMMA WaitingNothing ==
  ASSUME Inv, NEW c \in Conns, Busy(c), conn[c].pc # "won", ~ops[conn[c].op].lost
  PROVE  Nothing(conn[c].op)
<1>1. conn[c].op \in DOMAIN ops /\ ops[conn[c].op].status = "waiting"
  BY DEF Inv, Control, OpInv
<1>2. \A d \in Conns : conn[d].pc = "won" => conn[d].op # conn[c].op
  BY DEF Inv, Control, OpInv, Busy
<1> QED BY <1>1, <1>2 DEF Inv, DbInv

\* A request keeps DbInv and Truthful.
LEMMA DbWithin ==
  ASSUME Inv, NEW c \in Conns, Within(c)
  PROVE  DbTypes' /\ DbInv' /\ Truthful'
<1>1. PICK o : o = conn[c].op
  OBVIOUS
<1>2. PICK t \in Seq(Nat \X Nat) :
            /\ db' = db \o t
            /\ \A i \in DOMAIN t : t[i][1] = o
            /\ ~ops'[o].lost =>
                 /\ conn'[c].pc = "won" => t = Effects(o) \/ (t = <<>> /\ ops'[o].refused)
                 /\ conn'[c].pc # "won" => t = <<>>
  BY <1>1, WithinDb DEF Inv
<1>3. /\ DOMAIN ops' = DOMAIN ops
      /\ \A p \in DOMAIN ops : ops'[p].kind = ops[p].kind /\ ops'[p].status = ops[p].status
      /\ \A p \in DOMAIN ops : p # o => ops'[p].lost = ops[p].lost /\ ops'[p].refused = ops[p].refused
      /\ \A p \in DOMAIN ops : ops[p].lost => ops'[p].lost
  BY <1>1, WithinOps DEF Inv
<1>4. /\ \A d \in Conns : d # c => conn'[d] = conn[d]
      /\ Busy(c)
      /\ conn'[c].op = o
  BY <1>1, WithinConn DEF Inv, Busy
<1>5. conn[c].pc # "won"
  BY StepMoves DEF Inv, Within, Requesting
<1>6. o \in DOMAIN ops /\ ops[o].status = "waiting" /\ o \in Nat
  BY <1>1, <1>4 DEF Inv, Control, OpInv, ControlTypes
<1>7. db \in Seq(Nat \X Nat) /\ DbTypes'
  BY <1>2, ConcatElements DEF Inv, DbTypes
<1>8. ~ops'[o].lost => Nothing(o)
  BY <1>1, <1>3, <1>4, <1>5, <1>6, WaitingNothing
<1>9. \A d \in Conns : d # c /\ Busy(d) => conn[d].op \in DOMAIN ops /\ conn[d].op # o
  BY <1>1, <1>4 DEF Inv, Control, OpInv
<1>10. ASSUME NEW p \in DOMAIN ops, p # o
      PROVE  /\ Nothing(p) => Nothing(p)'
             /\ Durable(p) => Durable(p)'
  <2>1. Nothing(p) => None(db, p)
    BY DEF Nothing, None
  <2>2. Nothing(p) => None(db \o t, p)
    BY <1>2, <1>7, <1>10, <2>1, NoneConcat
  <2>3. Effects(p)' = Effects(p) /\ Effects(p) \in Seq(Nat \X Nat)
    BY <1>3, <1>10, EffectsKept, EffectsFacts DEF Inv, Control, ControlTypes
  <2>4. Durable(p) => All(db, Effects(p), p)
    BY DEF Durable, All
  <2>5. Durable(p) => All(db \o t, Effects(p), p)
    BY <1>2, <1>7, <1>10, <2>3, <2>4, AllConcat
  <2>6. None(db', p) => Nothing(p)'
    BY DEF Nothing, None
  <2>7. All(db', Effects(p)', p) => Durable(p)'
    BY DEF Durable, All
  <2> QED BY <1>2, <2>2, <2>3, <2>5, <2>6, <2>7
<1>11. ~ops'[o].lost /\ conn'[c].pc = "won" => Durable(o)' \/ (ops'[o].refused /\ Nothing(o)')
  <2>1. SUFFICES ASSUME ~ops'[o].lost, conn'[c].pc = "won"
                 PROVE  Durable(o)' \/ (ops'[o].refused /\ Nothing(o)')
    OBVIOUS
  <2>2. None(db, o)
    BY <1>8, <2>1 DEF Nothing, None
  <2>3. Effects(o)' = Effects(o) /\ Effects(o) \in Seq(Nat \X Nat)
    BY <1>3, <1>6, EffectsKept, EffectsFacts
  <2>4. CASE t = Effects(o)
    <3>1. All(db', Effects(o)', o)
      BY <1>2, <1>7, <2>2, <2>3, <2>4, OwnConcat
    <3> QED BY <3>1 DEF Durable, All
  <2>5. CASE t = <<>> /\ ops'[o].refused
    <3>1. db' = db
      BY <1>2, <1>7, <2>5
    <3> QED BY <1>8, <2>1, <2>5, <3>1 DEF Nothing
  <2> QED BY <1>2, <2>1, <2>4, <2>5
<1>12. ~ops'[o].lost /\ conn'[c].pc # "won" => Nothing(o)'
  <2>1. SUFFICES ASSUME ~ops'[o].lost, conn'[c].pc # "won" PROVE Nothing(o)'
    OBVIOUS
  <2>2. db' = db
    BY <1>2, <1>7, <2>1
  <2> QED BY <1>8, <2>1, <2>2 DEF Nothing
<1>13. DbInv'
  <2>1. \A i \in DOMAIN db' : db'[i][1] \in DOMAIN ops'
    <3>1. SUFFICES ASSUME NEW i \in DOMAIN (db \o t) PROVE (db \o t)[i][1] \in DOMAIN ops
      BY <1>2, <1>3
    <3>2. CASE i \in DOMAIN db
      <4>1. (db \o t)[i] = db[i]
        BY <1>7, <3>2, ConcatElements
      <4> QED BY <3>2, <4>1 DEF Inv, DbInv
    <3>3. CASE i - Len(db) \in DOMAIN t /\ (db \o t)[i] = t[i - Len(db)]
      BY <1>2, <1>6, <3>3
    <3> QED BY <1>7, <3>2, <3>3, ConcatElements
  <2>2. ASSUME NEW p \in DOMAIN ops', ~ops'[p].lost, ops'[p].status = "waiting"
        PROVE  Nothing(p)' \/ \E d \in Conns : conn'[d].pc = "won" /\ conn'[d].op = p
    <3>1. CASE p = o
      BY <1>4, <1>12, <2>2, <3>1
    <3>2. CASE p # o
      <4>1. p \in DOMAIN ops /\ ~ops[p].lost /\ ops[p].status = "waiting"
        BY <1>3, <2>2, <3>2
      <4>2. CASE Nothing(p)
        BY <1>10, <3>2, <4>1, <4>2
      <4>3. ASSUME NEW d \in Conns, conn[d].pc = "won", conn[d].op = p
            PROVE  conn'[d].pc = "won" /\ conn'[d].op = p
        BY <1>4, <1>5, <4>3
      <4> QED BY <4>1, <4>2, <4>3 DEF Inv, DbInv
    <3> QED BY <3>1, <3>2
  <2>3. ASSUME NEW d \in Conns, NEW p \in DOMAIN ops', conn'[d].pc = "won", conn'[d].op = p
        PROVE  Durable(p)' \/ ops'[p].lost \/ (ops'[p].refused /\ Nothing(p)')
    <3>1. CASE d = c
      BY <1>4, <1>11, <2>3, <3>1
    <3>2. CASE d # c
      <4>1. conn'[d] = conn[d] /\ conn[d].pc = "won" /\ conn[d].op = p /\ Busy(d)
        BY <1>4, <2>3, <3>2 DEF Busy
      <4>2. p \in DOMAIN ops /\ p # o
        BY <1>9, <3>2, <4>1
      <4>3. Durable(p) \/ ops[p].lost \/ (ops[p].refused /\ Nothing(p))
        BY <4>1, <4>2 DEF Inv, DbInv
      <4> QED BY <1>3, <1>10, <4>2, <4>3
    <3> QED BY <3>1, <3>2
  <2> QED BY <2>1, <2>2, <2>3 DEF DbInv
<1>14. Truthful'
  <2>1. SUFFICES ASSUME NEW p \in DOMAIN ops', ~ops'[p].lost
                 PROVE  /\ ops'[p].status = "ok" => Durable(p)' \/ (ops'[p].refused /\ Nothing(p)')
                        /\ ops'[p].status \in {"failed", "flushed"} => Nothing(p)'
    BY DEF Truthful
  <2>2. CASE p = o
    BY <1>3, <1>6, <2>2
  <2>3. CASE p # o
    <3>1. p \in DOMAIN ops /\ ~ops[p].lost /\ ops'[p].status = ops[p].status
      BY <1>3, <2>1, <2>3
    <3>2. /\ ops[p].status = "ok" => Durable(p) \/ (ops[p].refused /\ Nothing(p))
          /\ ops[p].status \in {"failed", "flushed"} => Nothing(p)
      BY <3>1 DEF Inv, Truthful
    <3> QED BY <1>3, <1>10, <2>3, <3>1, <3>2
  <2> QED BY <2>2, <2>3
<1> QED BY <1>7, <1>13, <1>14

\* A step outside the server keeps DbInv and Truthful: the verdict is that of the last request.
LEMMA DbOutside ==
  ASSUME Inv, Outside
  PROVE  DbTypes' /\ DbInv' /\ Truthful'
<1>1. OutsideFrame
  BY OutsideEffect DEF Inv
<1>2. db' = db /\ DbTypes'
  BY <1>1 DEF OutsideFrame, Inv, DbTypes
<1>3. /\ \A p \in DOMAIN ops : /\ p \in DOMAIN ops'
                               /\ ops'[p].kind = ops[p].kind
                               /\ ops'[p].lost = ops[p].lost
                               /\ ops'[p].refused = ops[p].refused
      /\ \A p \in DOMAIN ops' : p \in DOMAIN ops \/ ops'[p].status = "waiting"
  BY <1>1 DEF OutsideFrame, OpsFrame
<1>4. \A d \in Conns : Quiet(d) \/ Begun(d) \/ Ended(d)
  BY <1>1 DEF OutsideFrame
<1>5. \A p : Nothing(p)' <=> Nothing(p)
  BY <1>2 DEF Nothing
<1>6. ASSUME NEW p \in DOMAIN ops PROVE Durable(p)' <=> Durable(p)
  <2>1. Effects(p)' = Effects(p)
    BY <1>3, EffectsKept
  <2> QED BY <1>2, <2>1 DEF Durable
<1>7. \A d \in Conns : Busy(d) => conn[d].op \in DOMAIN ops /\ ops[conn[d].op].status = "waiting"
  BY DEF Inv, Control, OpInv
<1>8. DbInv'
  <2>1. \A i \in DOMAIN db' : db'[i][1] \in DOMAIN ops'
    BY <1>2, <1>3 DEF Inv, DbInv
  <2>2. ASSUME NEW p \in DOMAIN ops', ~ops'[p].lost, ops'[p].status = "waiting"
        PROVE  Nothing(p)' \/ \E d \in Conns : conn'[d].pc = "won" /\ conn'[d].op = p
    <3>1. CASE p \notin DOMAIN ops
      <4>1. Nothing(p)
        BY <3>1 DEF Nothing, Inv, DbInv
      <4> QED BY <1>5, <4>1
    <3>2. CASE p \in DOMAIN ops
      <4>1. ~ops[p].lost
        BY <1>3, <2>2, <3>2
      <4>2. \A d \in Conns : conn[d].op = p => ~Ended(d)
        BY <2>2 DEF Ended
      <4>3. ops[p].status = "waiting"
        BY <1>1, <2>2, <3>2, <4>2 DEF OutsideFrame, StatusFrame
      <4>4. CASE Nothing(p)
        BY <1>5, <4>4
      <4>5. ASSUME NEW d \in Conns, conn[d].pc = "won", conn[d].op = p
            PROVE  conn'[d].pc = "won" /\ conn'[d].op = p
        <5>1. Quiet(d)
          BY <1>4, <4>2, <4>5 DEF Begun, Busy
        <5> QED BY <4>5, <5>1 DEF Quiet
      <4> QED BY <3>2, <4>1, <4>3, <4>4, <4>5 DEF Inv, DbInv
    <3> QED BY <3>1, <3>2
  <2>3. ASSUME NEW d \in Conns, NEW p \in DOMAIN ops', conn'[d].pc = "won", conn'[d].op = p
        PROVE  Durable(p)' \/ ops'[p].lost \/ (ops'[p].refused /\ Nothing(p)')
    <3>1. CASE Quiet(d)
      <4>1. conn[d].pc = "won" /\ conn[d].op = p /\ Busy(d)
        BY <2>3, <3>1 DEF Quiet, Busy
      <4>2. p \in DOMAIN ops
        BY <1>7, <4>1
      <4>3. Durable(p) \/ ops[p].lost \/ (ops[p].refused /\ Nothing(p))
        BY <4>1, <4>2 DEF Inv, DbInv
      <4> QED BY <1>3, <1>5, <1>6, <4>2, <4>3
    <3>2. CASE Begun(d)
      <4>1. /\ p \in DOMAIN ops
            /\ ops[p].status = "waiting"
            /\ ops[p].kind = "ping"
            /\ \A e \in Conns : Busy(e) => conn[e].op # p
        BY <2>3, <3>2 DEF Begun
      <4>2. ops[p].lost \/ Nothing(p)
        BY <4>1 DEF Inv, DbInv, Busy
      <4>3. Nothing(p) => Durable(p)
        <5>1. p \in Nat /\ db \in Seq(Nat \X Nat)
          BY <4>1 DEF Inv, Control, ControlTypes, DbTypes
        <5>2. Effects(p) = <<>>
          BY <4>1, <5>1, EffectsFacts DEF Kind
        <5>3. Nothing(p) => None(db, p)
          BY DEF Nothing, None
        <5>4. Nothing(p) => All(db, Effects(p), p)
          BY <5>1, <5>2, <5>3, NoneAll
        <5> QED BY <5>4 DEF Durable, All
      <4> QED BY <1>3, <1>6, <4>1, <4>2, <4>3
    <3>3. CASE Ended(d)
      BY <2>3, <3>3 DEF Ended
    <3> QED BY <1>4, <3>1, <3>2, <3>3
  <2> QED BY <2>1, <2>2, <2>3 DEF DbInv
<1>9. Truthful'
  <2>1. SUFFICES ASSUME NEW p \in DOMAIN ops', ~ops'[p].lost
                 PROVE  /\ ops'[p].status = "ok" => Durable(p)' \/ (ops'[p].refused /\ Nothing(p)')
                        /\ ops'[p].status \in {"failed", "flushed"} => Nothing(p)'
    BY DEF Truthful
  <2>2. CASE p \notin DOMAIN ops
    BY <1>3, <2>2
  <2>3. CASE p \in DOMAIN ops
    <3>1. ~ops[p].lost
      BY <1>3, <2>1, <2>3
    <3>2. CASE ops'[p].status = ops[p].status
      <4>1. /\ ops[p].status = "ok" => Durable(p) \/ (ops[p].refused /\ Nothing(p))
            /\ ops[p].status \in {"failed", "flushed"} => Nothing(p)
        BY <2>3, <3>1 DEF Inv, Truthful
      <4> QED BY <1>3, <1>5, <1>6, <2>3, <3>2, <4>1
    <3>3. ASSUME NEW d \in Conns, Ended(d), conn[d].op = p
          PROVE  /\ ops'[p].status = "ok" => Durable(p)' \/ (ops'[p].refused /\ Nothing(p)')
                 /\ ops'[p].status \in {"failed", "flushed"} => Nothing(p)'
      <4>1. CASE conn[d].pc = "won"
        <5>1. ops'[p].status = "ok"
          BY <3>3, <4>1 DEF Ended
        <5>2. Durable(p) \/ (ops[p].refused /\ Nothing(p))
          BY <2>3, <3>1, <3>3, <4>1 DEF Inv, DbInv
        <5> QED BY <1>3, <1>5, <1>6, <2>3, <5>1, <5>2
      <4>2. CASE conn[d].pc = "failed"
        <5>1. ops'[p].status = "failed"
          BY <3>3, <4>2 DEF Ended
        <5>2. Nothing(p)
          BY <3>1, <3>3, <4>2, WaitingNothing DEF Busy
        <5> QED BY <1>5, <5>1, <5>2
      <4> QED BY <3>3, <4>1, <4>2 DEF Ended
    <3>4. ASSUME ops'[p].status = "flushed", NEW i \in DOMAIN queue, queue[i] = p
          PROVE  Nothing(p)'
      <4>1. ops[p].status = "waiting" /\ \A d \in Conns : Busy(d) => conn[d].op # p
        BY <3>4 DEF Inv, Control, QueueInv
      <4>2. Nothing(p)
        BY <2>3, <3>1, <4>1 DEF Inv, DbInv, Busy
      <4> QED BY <1>5, <4>2
    <3> QED BY <1>1, <2>3, <3>2, <3>3, <3>4 DEF OutsideFrame, StatusFrame
  <2> QED BY <2>2, <2>3
<1> QED BY <1>2, <1>8, <1>9

\* The initial states satisfy Inv.
LEMMA InvInit == Init => Inv
<1>1. Init => DbTypes /\ DbInv /\ Truthful
  BY DEF Init, DbTypes, DbInv, Truthful, Connected
<1> QED BY <1>1, ControlInit, SessionInit DEF Inv

\* Every step keeps Inv.
LEMMA InvStep ==
  ASSUME Inv, [Next]_vars
  PROVE  Inv'
<1>1. Control' /\ SessionTypes' /\ SessionInv'
  BY ControlStep, SessionStep DEF Inv
<1>2. DbTypes' /\ DbInv' /\ Truthful'
  BY NextSplit, DbWithin, DbOutside
<1> QED BY <1>1, <1>2 DEF Inv

\* Inv holds in every reachable state.
LEMMA InvAlways == Spec => []Inv
  BY InvInit, InvStep, PTL DEF Spec

\* What Execute and ExecuteTransaction report is what the database holds, for
\* every operation under which no connection was lost.
THEOREM TruthfulCorrect == Spec => []Truthful
<1>1. Inv => Truthful
  BY DEF Inv
<1> QED BY <1>1, InvAlways, PTL

\* A step adds the statements of one whole operation to the database, or none,
\* or is about an operation under which a connection was lost.
THEOREM WholeOperationsCorrect == Spec => WholeOperations
<1> DEFINE Whole == /\ SubSeq(db', 1, Len(db)) = db
                    /\ \A i \in DOMAIN Appended : LET o == Appended[i][1] IN
                            ops'[o].lost \/ Appended = Effects(o)
<1>1. ASSUME NEW d \in Seq(Nat \X Nat), NEW t \in Seq(Nat \X Nat)
      PROVE  /\ SubSeq(d \o t, 1, Len(d)) = d
             /\ SubSeq(d \o t, Len(d) + 1, Len(d \o t)) = t
  OBVIOUS
<1>2. ASSUME Inv, [Next]_vars
      PROVE  Whole
  <2>1. db \in Seq(Nat \X Nat)
    BY <1>2 DEF Inv, DbTypes
  <2>2. CASE Outside
    <3>1. db' = db
      BY <1>2, <2>2, OutsideEffect DEF Inv, OutsideFrame
    <3>2. Appended = <<>> /\ SubSeq(db', 1, Len(db)) = db
      BY <2>1, <3>1 DEF Appended
    <3> QED BY <3>2
  <2>3. ASSUME NEW c \in Conns, Within(c)
        PROVE  Whole
    <3>1. PICK t \in Seq(Nat \X Nat) :
            /\ db' = db \o t
            /\ \A i \in DOMAIN t : t[i][1] = conn[c].op
            /\ ~ops'[conn[c].op].lost =>
                 /\ conn'[c].pc = "won" => \/ t = Effects(conn[c].op)
                                           \/ t = <<>> /\ ops'[conn[c].op].refused
                 /\ conn'[c].pc # "won" => t = <<>>
      BY <1>2, <2>3, WithinDb DEF Inv
    <3>2. Appended = t /\ SubSeq(db', 1, Len(db)) = db
      BY <1>1, <2>1, <3>1 DEF Appended
    <3> QED BY <3>1, <3>2
  <2> QED BY <1>2, <2>2, <2>3, NextSplit
<1>3. Inv /\ [Next]_vars => [Whole]_vars
  BY <1>2
<1> QED BY <1>3, InvAlways, PTL DEF Spec, WholeOperations

-----------------------------------------------------------------------------
(* The order in which one worker makes operations durable. *)

\* What is durable was queued before what the worker executes, and that before
\* what is still queued.
OrderInv ==
    /\ \A i \in DOMAIN db : ~ops[db[i][1]].direct =>
            /\ \A j \in DOMAIN queue : db[i][1] < queue[j]
            /\ \A w \in Workers : Busy(w) => db[i][1] <= conn[w].op
    /\ \A w \in Workers : Busy(w) => \A j \in DOMAIN queue : conn[w].op < queue[j]

\* How the queue changes: operations leave it, or a new one enters it; a
\* worker begins with the first.
QueueFrame ==
    /\ \A j \in DOMAIN queue' : \/ \E k \in DOMAIN queue : queue'[j] = queue[k]
                                \/ queue'[j] = Len(ops) + 1
    /\ \A w \in Workers : conn[w].pc = "idle" /\ conn'[w].pc # "idle" =>
            /\ \E k \in DOMAIN queue : conn'[w].op = queue[k]
            /\ \A j \in DOMAIN queue' : conn'[w].op < queue'[j]

\* Operations leave the queue from the front and enter it at the back.
LEMMA OutsideQueue ==
  ASSUME Control, Outside
  PROVE  QueueFrame
<1>1. ASSUME queue' = queue \/ queue' = <<>>,
             \A w \in Workers : conn'[w].pc = conn[w].pc \/ conn'[w].pc = "idle"
      PROVE  QueueFrame
  BY <1>1 DEF QueueFrame
<1>2. CASE UNCHANGED vars
  BY <1>1, <1>2 DEF vars
<1>13. CASE CrashStep
  <2>1. UNCHANGED <<queue, conn>>
    BY <1>13 DEF CrashStep, KeepAliveCrashes, PingCrashes, CloseCrashes, Crash
  <2> QED BY <1>1, <2>1
<1>3. ASSUME NEW k \in Callers, Delay(k) \/ EnqueuePing(k)
      PROVE  QueueFrame
  <2>1. PICK kind \in AllKinds : Enqueue(kind)
    BY <1>3, PoolAssumption DEF Delay, EnqueuePing, AllKinds
  <2>2. conn' = conn
    BY <1>3 DEF Delay, EnqueuePing
  <2>3. \A i \in DOMAIN queue' : (i \in DOMAIN queue /\ queue'[i] = queue[i]) \/ queue'[i] = Len(ops) + 1
    BY <2>1, EnqueueEffect
  <2> QED BY <2>2, <2>3 DEF QueueFrame
<1>4. ASSUME NEW k \in Callers, Direct(k)
      PROVE  QueueFrame
  BY <1>1, <1>4 DEF Direct
<1>5. ASSUME NEW k \in Callers, KeepAlive(k)
      PROVE  QueueFrame
  <2>1. \A w \in Workers : conn'[w] = conn[w]
    BY <1>5, PoolAssumption DEF KeepAlive, Pinged, Conns
  <2> QED BY <1>1, <1>5, <2>1 DEF KeepAlive
<1>6. ASSUME NEW k \in Callers, NEW c \in Synch, GetFreeConnection(k, c)
      PROVE  QueueFrame
  <2>1. \A w \in Workers : conn'[w] = conn[w]
    BY <1>6, PoolAssumption DEF GetFreeConnection, Conns, Control, ControlTypes
  <2> QED BY <1>1, <1>6, <2>1 DEF GetFreeConnection
<1>7. ASSUME NEW w \in Workers, Dequeue(w)
      PROVE  QueueFrame
  <2>1. /\ ops' = ops
        /\ conn[w].pc = "idle"
        /\ queue # <<>>
        /\ queue' = Without(queue, 1)
        /\ conn' = [conn EXCEPT ![w] = Start([@ EXCEPT !.op = queue[1]], Kind(queue[1]))]
    BY <1>7 DEF Dequeue, Ready, NextOf
  <2>2. queue \in Seq(Nat)
    BY DEF Control, ControlTypes
  <2>3. /\ \A i \in DOMAIN queue' : i + 1 \in DOMAIN queue /\ queue'[i] = queue[i + 1]
        /\ 1 \in DOMAIN queue
        /\ queue' \in Seq(Nat)
    BY <2>1, <2>2, Rest
  <2>4. queue[1] \in DOMAIN ops /\ w \in Conns /\ ~Busy(w)
    BY <2>1, <2>3 DEF Control, QueueInv, Conns, Busy
  <2>5. conn'[w].op = queue[1] /\ \A d \in Conns : d # w => conn'[d] = conn[d]
    BY <2>1, <2>4, StartEffect
  <2>6. \A i \in DOMAIN queue' : 1 < i + 1
    BY <2>3
  <2>7. \A i \in DOMAIN queue' : queue[1] < queue'[i]
    BY <2>3, <2>6 DEF Control, QueueInv
  <2>8. \A v \in Workers : conn[v].pc = "idle" /\ conn'[v].pc # "idle" => v = w
    BY <2>5 DEF Conns
  <2> QED BY <2>3, <2>5, <2>7, <2>8 DEF QueueFrame
<1>8. ASSUME NEW w \in Workers, EndWorker(w)
      PROVE  QueueFrame
  BY <1>1, <1>8 DEF EndWorker
<1>9. ASSUME NEW w \in Workers, JoinWorker(w)
      PROVE  QueueFrame
  <2>1. queue' = queue /\ conn' = [conn EXCEPT ![w].mysql = "deleted"]
    BY <1>9 DEF JoinWorker
  <2>2. \A v \in Workers : conn'[v].pc = conn[v].pc
    BY <2>1 DEF Control, ControlTypes, Connections, Conns
  <2> QED BY <1>1, <2>1, <2>2
<1>10. ASSUME NEW c \in Conns, Finish(c)
      PROVE  QueueFrame
  <2>1. \A d \in Conns : conn'[d].pc = conn[d].pc \/ conn'[d].pc = "idle"
    BY <1>10, FinishEffect
  <2>2. queue' = queue
    BY <1>10 DEF Finish
  <2> QED BY <1>1, <2>1, <2>2 DEF Conns
<1>11. CASE Close
  BY <1>1, <1>11 DEF Close
<1>12. CASE CloseSynch
  <2>1. queue' = queue /\ conn' = [c \in Conns |-> [conn[c] EXCEPT !.mysql = "deleted"]]
    BY <1>12 DEF CloseSynch
  <2>2. \A v \in Workers : conn'[v].pc = conn[v].pc
    BY <2>1 DEF Control, ControlTypes, Connections, Conns
  <2> QED BY <1>1, <2>1, <2>2
<1> QED BY <1>2, <1>3, <1>4, <1>5, <1>6, <1>7, <1>8, <1>9, <1>10, <1>11, <1>12, <1>13 DEF Outside

\* A step outside the server keeps the order: the worker begins with the oldest.
LEMMA OrderOutside ==
  ASSUME Inv, OrderInv, InOrder, Outside
  PROVE  OrderInv' /\ InOrder'
<1>1. OutsideFrame /\ QueueFrame
  BY OutsideEffect, OutsideQueue DEF Inv
<1>2. /\ db' = db
      /\ \A i \in DOMAIN db : db[i][1] \in DOMAIN ops
      /\ \A p \in DOMAIN ops : ops'[p].direct = ops[p].direct
  BY <1>1 DEF OutsideFrame, OpsFrame, Inv, DbInv
<1>3. InOrder'
  BY <1>2 DEF InOrder
<1>4. \A p \in DOMAIN ops : p < Len(ops) + 1
  BY DEF Inv, Control, ControlTypes
<1>5. \A w \in Workers : w \in Conns /\ (Busy(w) => conn[w].op \in DOMAIN ops)
  BY DEF Inv, Control, OpInv, Conns
<1>6. \A w \in Workers : Busy(w)' =>
        \/ Busy(w) /\ conn'[w].op = conn[w].op
        \/ /\ \E k \in DOMAIN queue : conn'[w].op = queue[k]
           /\ \A j \in DOMAIN queue' : conn'[w].op < queue'[j]
  BY <1>1, <1>5 DEF OutsideFrame, QueueFrame, Quiet, Begun, Ended, Busy
<1>7. ASSUME NEW i \in DOMAIN db, ~ops[db[i][1]].direct
      PROVE  /\ \A j \in DOMAIN queue' : db[i][1] < queue'[j]
             /\ \A w \in Workers : Busy(w)' => db[i][1] <= conn'[w].op
  <2>1. /\ \A j \in DOMAIN queue : db[i][1] < queue[j]
        /\ \A w \in Workers : Busy(w) => db[i][1] <= conn[w].op
    BY <1>7 DEF OrderInv
  <2>2. \A j \in DOMAIN queue' : db[i][1] < queue'[j]
    BY <1>1, <1>2, <1>4, <2>1 DEF QueueFrame
  <2>3. db[i][1] \in Nat /\ \A k \in DOMAIN queue : queue[k] \in Nat
    BY <1>2 DEF Inv, Control, ControlTypes
  <2>4. ASSUME NEW w \in Workers, Busy(w)' PROVE db[i][1] <= conn'[w].op
    <3>1. CASE Busy(w) /\ conn'[w].op = conn[w].op
      BY <2>1, <3>1
    <3>2. ASSUME NEW k \in DOMAIN queue, conn'[w].op = queue[k] PROVE db[i][1] <= conn'[w].op
      <4>1. db[i][1] < queue[k]
        BY <2>1
      <4> QED BY <2>3, <3>2, <4>1
    <3> QED BY <1>6, <2>4, <3>1, <3>2
  <2> QED BY <2>2, <2>4
<1>8. ASSUME NEW w \in Workers, Busy(w)', NEW j \in DOMAIN queue'
      PROVE  conn'[w].op < queue'[j]
  <2>1. CASE Busy(w) /\ conn'[w].op = conn[w].op
    <3>1. \A k \in DOMAIN queue : conn[w].op < queue[k]
      BY <2>1 DEF OrderInv
    <3>2. conn[w].op < Len(ops) + 1
      BY <1>4, <1>5, <2>1
    <3> QED BY <1>1, <2>1, <3>1, <3>2 DEF QueueFrame
  <2> QED BY <1>6, <1>8, <2>1
<1>9. OrderInv'
  BY <1>2, <1>7, <1>8 DEF OrderInv
<1> QED BY <1>3, <1>9

\* A request keeps the order: with one worker only the oldest becomes durable.
LEMMA OrderWithin ==
  ASSUME \A v, w \in Workers : v = w, Inv, OrderInv, InOrder, NEW c \in Conns, Within(c)
  PROVE  OrderInv' /\ InOrder'
<1>1. PICK t \in Seq(Nat \X Nat) : db' = db \o t /\ \A i \in DOMAIN t : t[i][1] = conn[c].op
  BY WithinDb DEF Inv
<1>2. \A p \in DOMAIN ops : ops'[p].direct = ops[p].direct
  BY WithinOps DEF Inv
<1>3. queue' = queue
  BY WithinFrame DEF Inv
<1>4. /\ \A d \in Conns : conn'[d].op = conn[d].op /\ (Busy(d)' <=> Busy(d))
      /\ Busy(c)
  BY WithinConn DEF Inv, Busy
<1>5. PICK o \in DOMAIN ops : o = conn[c].op
  BY <1>4 DEF Inv, Control, OpInv
<1>6. o \in Nat /\ db \in Seq(Nat \X Nat) /\ \A i \in DOMAIN db : db[i][1] \in DOMAIN ops
  BY DEF Inv, Control, ControlTypes, DbTypes, DbInv
<1>7. ~ops[o].direct => /\ c \in Workers
                        /\ \A w \in Workers : w = c
                        /\ \A j \in DOMAIN queue : o < queue[j]
                        /\ \A i \in DOMAIN db : ~ops[db[i][1]].direct => db[i][1] <= o
  <2>1. SUFFICES ASSUME ~ops[o].direct
                 PROVE  /\ c \in Workers
                        /\ \A w \in Workers : w = c
                        /\ \A j \in DOMAIN queue : o < queue[j]
                        /\ \A i \in DOMAIN db : ~ops[db[i][1]].direct => db[i][1] <= o
    OBVIOUS
  <2>2. c \in Workers
    BY <1>4, <1>5, <2>1 DEF Inv, Control, OpInv, Conns
  <2> QED BY <1>4, <1>5, <2>2 DEF OrderInv
<1>8. \A i \in DOMAIN db' : \/ i \in DOMAIN db /\ db'[i] = db[i]
                            \/ i > Len(db) /\ db'[i][1] = o
  BY <1>1, <1>5, <1>6, ConcatElements, SMTT(30)
<1>9. \A i \in DOMAIN db' : db'[i][1] \in DOMAIN ops
  BY <1>6, <1>8
<1>10. db' \in Seq(Nat \X Nat)
  BY <1>1, <1>6, ConcatElements
<1>11. OrderInv'
  <2>1. ASSUME NEW i \in DOMAIN db', ~ops[db'[i][1]].direct
        PROVE  /\ \A j \in DOMAIN queue : db'[i][1] < queue[j]
               /\ \A w \in Workers : Busy(w) => db'[i][1] <= conn[w].op
    <3>1. CASE i \in DOMAIN db /\ db'[i] = db[i]
      BY <2>1, <3>1 DEF OrderInv
    <3>2. CASE db'[i][1] = o
      <4>1. o <= o
        BY <1>6
      <4> QED BY <1>5, <1>7, <2>1, <3>2, <4>1
    <3> QED BY <1>8, <3>1, <3>2
  <2>2. \A w \in Workers : w \in Conns
    BY DEF Conns
  <2> QED BY <1>2, <1>3, <1>4, <1>9, <2>1, <2>2 DEF OrderInv
<1>12. InOrder'
  <2>1. SUFFICES ASSUME NEW i \in DOMAIN db', NEW j \in DOMAIN db', i < j,
                        ~ops'[db'[i][1]].direct, ~ops'[db'[j][1]].direct
                 PROVE  db'[i][1] <= db'[j][1]
    BY DEF InOrder
  <2>2. ~ops[db'[i][1]].direct /\ ~ops[db'[j][1]].direct
    BY <1>2, <1>9, <2>1
  <2>3. CASE j \in DOMAIN db /\ db'[j] = db[j]
    <3>1. ~(i > Len(db))
      BY <1>6, <1>10, <2>1, <2>3
    <3>2. i \in DOMAIN db /\ db'[i] = db[i]
      BY <1>8, <3>1
    <3> QED BY <2>1, <2>2, <2>3, <3>2 DEF InOrder
  <2>4. CASE db'[j][1] = o
    <3>1. CASE i \in DOMAIN db /\ db'[i] = db[i]
      BY <1>7, <2>2, <2>4, <3>1
    <3>2. CASE db'[i][1] = o
      <4>1. o <= o
        BY <1>6
      <4> QED BY <2>4, <3>2, <4>1
    <3> QED BY <1>8, <3>1, <3>2
  <2> QED BY <1>8, <2>3, <2>4
<1> QED BY <1>11, <1>12

\* With at most one worker the operations from the queue become durable in the
\* order in which they were queued, retries and synchronous calls or not.
THEOREM InOrderCorrect ==
  ASSUME \A v, w \in Workers : v = w
  PROVE  Spec => []InOrder
<1>1. Init => Inv /\ OrderInv /\ InOrder
  <2>1. Init => OrderInv /\ InOrder
    BY DEF Init, OrderInv, InOrder, Busy, Connected, Conns
  <2> QED BY <2>1, InvInit
<1>2. Inv /\ OrderInv /\ InOrder /\ [Next]_vars => (Inv /\ OrderInv /\ InOrder)'
  BY InvStep, NextSplit, OrderOutside, OrderWithin
<1> QED BY <1>1, <1>2, PTL DEF Spec
=============================================================================
