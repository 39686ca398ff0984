--------------------------- MODULE ConnectionPool ---------------------------
(***************************************************************************)
(* Module Engine on the pool of db/client.ts. Every statement needs one of *)
(* the pool's connections. pool.query borrows a connection for one         *)
(* statement, and for as long as that statement waits for a row lock;      *)
(* withTransaction borrows one until COMMIT or ROLLBACK. Who finds no      *)
(* connection waits in a queue without a time limit: the pool is created   *)
(* with no connectionTimeoutMillis.                                        *)
(*                                                                         *)
(* So requests wait for two things, a connection and a row, and the        *)
(* requests that wait for a row keep connections from those that could     *)
(* make progress.                                                          *)
(***************************************************************************)
EXTENDS Engine, SequencesExt

CONSTANT PoolSize  \* max, 5 in the program

ASSUME PoolNotEmpty == PoolSize \in Nat \ {0}

VARIABLES
  queue,     \* requests that wait for a connection, in the order they asked
  connected  \* requests that have one

poolVars == <<vars, queue, connected>>

PoolInit ==
  /\ Init
  /\ queue = <<>>
  /\ connected = {}

Queued(r) == \E n \in DOMAIN queue : queue[n] = r

\* Variant: the statements of a transaction are sent with pool.query.
PoolPerStatement(r) == FALSE

\* The transaction of r is open: it has taken its first lock.
KeepsConnection(r) ==
  req[r].pc \in {"createCommit", "rejectLockOrder", "rejectCommit",
                 "refundLockReturn", "refundLockOrder", "refundCommit"}

-----------------------------------------------------------------------------
\* Variant: one connection more than the limit.
ConnectOverLimit(r) ==
  IF Cardinality(connected) =< PoolSize
  THEN connected' = connected \cup {r} /\ UNCHANGED queue
  ELSE queue' = Append(queue, r) /\ UNCHANGED connected

\* pool.connect takes an idle connection or opens one up to the limit, or waits.
Connect(r) ==
  IF Cardinality(connected) < PoolSize
  THEN connected' = connected \cup {r} /\ UNCHANGED queue
  ELSE queue' = Append(queue, r) /\ UNCHANGED connected

\* Variant: no client.release() in finally.
NoRelease(r) == UNCHANGED <<queue, connected>>

\* client.release() gives the connection to the first in the queue.
Release(r) ==
  IF queue = <<>>
  THEN connected' = connected \ {r} /\ UNCHANGED queue
  ELSE connected' = (connected \ {r}) \cup {Head(queue)} /\ queue' = Tail(queue)

-----------------------------------------------------------------------------
\* A request arrives, or goes on to its next statement or transaction.
AskForConnection(r) ==
  /\ r \notin connected
  /\ ~Queued(r)
  /\ Connect(r)
  /\ UNCHANGED vars

\* A statement returns. The connection goes back unless a transaction is open.
RunStatement(r) ==
  /\ r \in connected
  /\ Start(r) \/ Continue(r)
  /\ \/ KeepsConnection(r)' /\ UNCHANGED <<queue, connected>>
     \/ ~KeepsConnection(r)' /\ Release(r)

\* The first read of a request is refused (404, 409), or is all it wanted.
EndAfterRead(r) ==
  /\ r \in connected
  /\ At(r, "idle")
  /\ Release(r)
  /\ UNCHANGED vars

\* A request dies, with a connection or without (Abort of module Engine).
Fail(r) ==
  /\ Abort(r)
  /\ \/ r \in connected /\ Release(r)
     \/ /\ r \notin connected
        /\ \/ \E n \in DOMAIN queue : queue[n] = r /\ queue' = RemoveAt(queue, n)
           \/ ~Queued(r) /\ UNCHANGED queue
        /\ UNCHANGED connected

Serve(r) == RunStatement(r) \/ EndAfterRead(r)

PoolNext == \E r \in Request : AskForConnection(r) \/ Serve(r) \/ Fail(r)

PoolSpec == PoolInit /\ [][PoolNext]_poolVars

\* The event loop resumes a started request, which asks for its next connection.
\* A row lock is granted to its waiters in turn, so a statement that is able to
\* return again and again does return. Nothing forces clients to send requests.
PoolFairSpec ==
  /\ PoolSpec
  /\ \A r \in Request :
       /\ WF_poolVars(~At(r, "idle") /\ AskForConnection(r))
       /\ SF_poolVars(Serve(r))

-----------------------------------------------------------------------------
(***************************************************************************)
(* Properties                                                              *)
(***************************************************************************)

\* No more connections than the pool has; nobody waits while one is free, and
\* nobody waits who has one or waits twice.
PoolTypeOK ==
  /\ queue \in Seq(Request) /\ IsInjective(queue)
  /\ connected \subseteq Request /\ Cardinality(connected) =< PoolSize
  /\ queue # <<>> => Cardinality(connected) = PoolSize
  /\ \A r \in connected : ~Queued(r)

\* A connection goes back to the pool without row locks: whoever holds a lock has
\* a connection, so that nobody waits for a transaction that cannot send its next
\* statement.
HoldersConnected == \A x \in Row : lock[x] # None => lock[x] \in connected

\* No set of requests waits in a circle, each for a row that another one of them
\* has locked or for a connection while they have all of them.
NoPoolDeadlock ==
  ~ \E S \in SUBSET Request :
      /\ S # {}
      /\ \A r \in S :
           IF r \in connected
           THEN \E x \in Wanted(r) : lock[x] \in S
           ELSE /\ Queued(r)
                /\ connected \subseteq S /\ Cardinality(connected) = PoolSize

\* A row the next statement of r needs is locked.
Blocked(r) == \E x \in Wanted(r) : lock[x] # None

\* Some request that has a connection can use it, whatever the others wait for:
\* the pool is never full of requests that wait.
SomeoneRuns == connected # {} => \E r \in connected : ~Blocked(r)

\* Rows are all that a statement waits for: with its rows unlocked a connected
\* request goes on. (That Wanted names every wait is what the deadlock properties
\* rest on.)
UnblockedRuns == \A r \in connected : ~Blocked(r) => ENABLED Serve(r)

\* Every request that asked for a connection or was started gets its answer and
\* gives its connection back in the end (nobody is busy for ever), however many
\* others wait for rows with one.
Answered ==
  LET Busy(r) == ~At(r, "idle") \/ Queued(r) \/ r \in connected
  IN  \A r \in Request : []<>~Busy(r)

=============================================================================
