------------------------ MODULE ConnectionPoolProofs ------------------------
(***************************************************************************)
(* Proofs that the pool, of any size, changes nothing of what module       *)
(* Engine promises and adds no deadlock to it.                             *)
(***************************************************************************)
EXTENDS ConnectionPool, EngineProofs, FiniteSetTheorems, SequenceTheorems

\* An open transaction has its connection.
OpenIsConnected == \A r \in Request : KeepsConnection(r) => r \in connected

PoolIInv == IInv /\ OpenIsConnected

-----------------------------------------------------------------------------
(***************************************************************************)
(* The pool implements the engine.                                         *)
(***************************************************************************)
LEMMA PoolStepIsEngineStep == [PoolNext]_poolVars => [Next]_vars
<1> SUFFICES ASSUME [PoolNext]_poolVars PROVE Next \/ UNCHANGED vars
  OBVIOUS
<1>1. CASE UNCHANGED poolVars
  BY <1>1 DEF poolVars
<1>2. ASSUME NEW r \in Request, AskForConnection(r) \/ EndAfterRead(r)
      PROVE  UNCHANGED vars
  BY <1>2 DEF AskForConnection, EndAfterRead
<1>3. ASSUME NEW r \in Request, RunStatement(r) \/ Fail(r)
      PROVE  Next
  BY <1>3 DEF RunStatement, Fail, Next
<1> QED
  BY <1>1, <1>2, <1>3 DEF PoolNext, Serve

\* Queueing for connections only delays requests: whatever the size of the pool,
\* every behaviour on the pool is a behaviour of module Engine.
THEOREM PoolRefinesEngine == PoolSpec => Spec
<1>1. PoolInit => Init
  BY DEF PoolInit
<1> QED
  BY <1>1, PoolStepIsEngineStep, PTL DEF PoolSpec, Spec

\* On the pool, too, refund, return and order are settled together, an order is
\* paid back at most once, and pending refunds are due.
THEOREM PoolMoneySafe == PoolSpec => [](Settled /\ PaidOnce /\ PendingRefundIsDue)
BY PoolRefinesEngine, SettledTogether, OnePayment, PendingIsDue, PTL

\* From the pool to money in three refinements: ConnectionPool implements Engine,
\* Engine implements Workflow, and that implements Settlement.
THEOREM PoolSettles == PoolSpec => ImplementsSettlement
BY PoolRefinesEngine, EngineSettles

\* A pool that delays requests between their reads and their writes makes no status
\* leave the transition tables.
THEOREM PoolMovesValid == PoolSpec => TableMoves
BY PoolRefinesEngine, EngineMovesValid

\* An order that staff do not move once it was delivered loses no return and waits for
\* none that is not there, however requests interleave on the pool.
THEOREM PoolReturnsHold == PoolSpec => []ReturnHoldsOrder
BY PoolRefinesEngine, EngineReturnsHold

-----------------------------------------------------------------------------
(***************************************************************************)
(* Connections and row locks.                                              *)
(***************************************************************************)

\* Only r may lose its connection in a step of r.
LEMMA ReleaseKeepsOthers ==
  ASSUME NEW r \in Request, Release(r)
  PROVE  connected \ {r} \subseteq connected'
BY DEF Release

LEMMA PoolStepInv == PoolIInv /\ [PoolNext]_poolVars => PoolIInv'
<1> SUFFICES ASSUME PoolIInv, [PoolNext]_poolVars PROVE PoolIInv'
  OBVIOUS
<1>1. IInv'
  BY StepInv, PoolStepIsEngineStep DEF PoolIInv
<1>2. ASSUME UNCHANGED req, connected \subseteq connected' PROVE OpenIsConnected'
  BY <1>2 DEF PoolIInv, OpenIsConnected, KeepsConnection
<1>3. CASE UNCHANGED poolVars
  <2>1. UNCHANGED req /\ connected' = connected
    BY <1>3 DEF poolVars, vars
  <2> QED
    BY <1>1, <1>2, <2>1 DEF PoolIInv
<1>4. ASSUME NEW r \in Request, AskForConnection(r) PROVE OpenIsConnected'
  BY <1>2, <1>4 DEF AskForConnection, Connect, vars
<1>5. ASSUME NEW r \in Request, EndAfterRead(r) PROVE OpenIsConnected'
  <2>1. ~KeepsConnection(r) /\ UNCHANGED req /\ connected \ {r} \subseteq connected'
    BY <1>5, ReleaseKeepsOthers DEF EndAfterRead, KeepsConnection, At, vars
  <2> QED
    BY <2>1 DEF PoolIInv, OpenIsConnected, KeepsConnection
<1>6. ASSUME NEW r \in Request, Start(r) \/ Continue(r) \/ Abort(r),
             connected \ {r} \subseteq connected',
             KeepsConnection(r)' => r \in connected'
      PROVE  OpenIsConnected'
  <2>1. Frame(r)
    BY <1>6, OwnStep DEF PoolIInv, Step
  <2>2. \A s \in Request \ {r} : KeepsConnection(s)' => s \in connected'
    BY <1>6, <2>1 DEF PoolIInv, OpenIsConnected, KeepsConnection, Frame
  <2> QED
    BY <1>6, <2>2 DEF OpenIsConnected
<1>7. ASSUME NEW r \in Request, RunStatement(r) PROVE OpenIsConnected'
  BY <1>6, <1>7, ReleaseKeepsOthers DEF RunStatement
<1>8. ASSUME NEW r \in Request, Fail(r) PROVE OpenIsConnected'
  <2>1. connected \ {r} \subseteq connected'
    BY <1>8, ReleaseKeepsOthers DEF Fail
  <2>2. ~KeepsConnection(r)'
    BY <1>8 DEF Fail, Abort, Rollback, Finish, Idle, KeepsConnection, PoolIInv, IInv, TypeOK
  <2> QED
    BY <1>6, <1>8, <2>1, <2>2 DEF Fail
<1> QED
  BY <1>1, <1>3, <1>4, <1>5, <1>7, <1>8 DEF PoolIInv, PoolNext, Serve

LEMMA PoolInvariant == PoolSpec => []PoolIInv
<1>1. PoolInit => PoolIInv
  BY InitInv DEF PoolInit, PoolIInv, OpenIsConnected, KeepsConnection, Init, Idle
<1> QED
  BY <1>1, PoolStepInv, PTL DEF PoolSpec

LEMMA HoldersAreConnected == PoolIInv => HoldersConnected
<1> SUFFICES ASSUME PoolIInv, NEW x \in Row, lock[x] # None
             PROVE  lock[x] \in connected
  BY DEF HoldersConnected
<1>1. lock[x] \in Request
  BY DEF PoolIInv, IInv, TypeOK
<1>2. Holds(lock[x], x)
  BY <1>1 DEF PoolIInv, IInv, Local, LocksMatch
<1>3. KeepsConnection(lock[x])
  BY <1>2 DEF Holds, KeepsConnection, At
<1> QED
  BY <1>1, <1>3 DEF PoolIInv, OpenIsConnected

\* No connection is given back while its transaction holds row locks.
THEOREM LocksAreConnected == PoolSpec => []HoldersConnected
BY HoldersAreConnected, PoolInvariant, PTL

-----------------------------------------------------------------------------
(***************************************************************************)
(* Queues without repetition: who is in the queue after a request joined   *)
(* at the end, was taken from its head, or left it anywhere.               *)
(***************************************************************************)
InQueue(q, s) == \E n \in DOMAIN q : q[n] = s

LEMMA QueueJoined ==
  ASSUME NEW q \in Seq(Request), IsInjective(q), NEW r \in Request, ~InQueue(q, r)
  PROVE  /\ Append(q, r) \in Seq(Request) /\ IsInjective(Append(q, r))
         /\ \A s : InQueue(Append(q, r), s) <=> s = r \/ InQueue(q, s)
<1> DEFINE p == Append(q, r)
<1>1. /\ p \in Seq(Request) /\ Len(p) = Len(q) + 1 /\ Len(q) \in Nat
      /\ DOMAIN p = 1..Len(p) /\ DOMAIN q = 1..Len(q)
      /\ \A i \in 1..Len(q) : p[i] = q[i]
      /\ p[Len(q) + 1] = r
  BY AppendProperties, LenProperties
<1> HIDE DEF p
<1>2. IsInjective(p)
  <2> SUFFICES ASSUME NEW i \in 1..Len(p), NEW j \in 1..Len(p), p[i] = p[j] PROVE i = j
    BY <1>1, Zenon DEF IsInjective
  <2>1. CASE i \in 1..Len(q) /\ j \in 1..Len(q)
    <3>1. q[i] = q[j]
      BY <1>1, <2>1, Zenon
    <3> QED
      BY <1>1, <2>1, <3>1, Zenon DEF IsInjective
  <2>2. CASE i = Len(q) + 1 /\ j \in 1..Len(q)
    BY <1>1, <2>2, Zenon DEF InQueue
  <2>3. CASE j = Len(q) + 1 /\ i \in 1..Len(q)
    BY <1>1, <2>3, Zenon DEF InQueue
  <2>4. CASE i = Len(q) + 1 /\ j = Len(q) + 1
    BY <2>4
  <2> QED
    BY <1>1, <2>1, <2>2, <2>3, <2>4
<1>3. \A s : InQueue(p, s) <=> s = r \/ InQueue(q, s)
  BY <1>1 DEF InQueue
<1> QED
  BY <1>1, <1>2, <1>3 DEF p

LEMMA HeadServed ==
  ASSUME NEW q \in Seq(Request), IsInjective(q), q # <<>>
  PROVE  /\ Head(q) \in Request /\ InQueue(q, Head(q))
         /\ Tail(q) \in Seq(Request) /\ IsInjective(Tail(q))
         /\ \A s : InQueue(Tail(q), s) <=> InQueue(q, s) /\ s # Head(q)
<1> DEFINE p == Tail(q)
<1>1. /\ p \in Seq(Request) /\ Len(p) = Len(q) - 1 /\ Len(q) \in Nat \ {0}
      /\ DOMAIN p = 1..Len(p) /\ DOMAIN q = 1..Len(q)
      /\ \A i \in 1..Len(p) : p[i] = q[i + 1]
      /\ Head(q) = q[1] /\ Head(q) \in Request
  BY HeadTailProperties, LenProperties, EmptySeq
<1> HIDE DEF p
<1>2. IsInjective(p)
  <2> SUFFICES ASSUME NEW i \in 1..Len(p), NEW j \in 1..Len(p), p[i] = p[j] PROVE i = j
    BY <1>1, Zenon DEF IsInjective
  <2>1. i \in Int /\ j \in Int /\ i + 1 \in 1..Len(q) /\ j + 1 \in 1..Len(q)
    BY <1>1
  <2>2. q[i + 1] = q[j + 1]
    BY <1>1, Zenon
  <2>3. i + 1 = j + 1
    BY <1>1, <2>1, <2>2, Zenon DEF IsInjective
  <2> QED
    BY <2>1, <2>3
<1>3. ASSUME NEW s PROVE InQueue(p, s) <=> InQueue(q, s) /\ s # Head(q)
  <2>1. ASSUME NEW n \in 1..Len(p), p[n] = s PROVE InQueue(q, s) /\ s # Head(q)
    BY <1>1, <2>1 DEF InQueue, IsInjective
  <2>2. ASSUME NEW n \in 1..Len(q), q[n] = s, s # Head(q) PROVE InQueue(p, s)
    <3>1. n - 1 \in 1..Len(p) /\ p[n - 1] = q[n]
      BY <1>1, <2>2
    <3> QED
      BY <1>1, <2>2, <3>1 DEF InQueue
  <2> QED
    BY <1>1, <2>1, <2>2 DEF InQueue
<1>4. InQueue(q, Head(q))
  BY <1>1 DEF InQueue
<1> QED
  BY <1>1, <1>2, <1>3, <1>4 DEF p

\* What is left is what was before n and what was after it.
LEMMA RemoveAtParts ==
  ASSUME NEW q \in Seq(Request), NEW n \in 1..Len(q)
  PROVE  \E a \in Seq(Request), b \in Seq(Request) :
           /\ RemoveAt(q, n) = a \o b
           /\ Len(a) = n - 1 /\ Len(b) = Len(q) - n
           /\ \A i \in 1..(n - 1) : a[i] = q[i]
           /\ \A i \in 1..(Len(q) - n) : b[i] = q[n + i]
<1> DEFINE a == SubSeq(q, 1, n - 1)
           b == SubSeq(q, n + 1, Len(q))
<1>1. RemoveAt(q, n) = a \o b
  BY DEF RemoveAt
<1>2. a \in Seq(Request)
  OBVIOUS
<1>3. Len(a) = n - 1
  OBVIOUS
<1>4. \A i \in 1..(n - 1) : a[i] = q[i]
  OBVIOUS
<1>5. b \in Seq(Request)
  OBVIOUS
<1>6. Len(b) = Len(q) - n
  OBVIOUS
<1>7. \A i \in 1..(Len(q) - n) : b[i] = q[n + i]
  OBVIOUS
<1> HIDE DEF a, b
<1> QED
  BY <1>1, <1>2, <1>3, <1>4, <1>5, <1>6, <1>7, Zenon

LEMMA QueueLeft ==
  ASSUME NEW q \in Seq(Request), IsInjective(q), NEW n \in DOMAIN q
  PROVE  /\ RemoveAt(q, n) \in Seq(Request) /\ IsInjective(RemoveAt(q, n))
         /\ \A s : InQueue(RemoveAt(q, n), s) => InQueue(q, s)
<1> DEFINE from(i) == IF i < n THEN i ELSE i + 1
<1>1. Len(q) \in Nat /\ DOMAIN q = 1..Len(q) /\ n \in 1..Len(q)
  BY LenProperties
<1>2. PICK a \in Seq(Request), b \in Seq(Request) :
        /\ RemoveAt(q, n) = a \o b
        /\ Len(a) = n - 1 /\ Len(b) = Len(q) - n
        /\ \A i \in 1..(n - 1) : a[i] = q[i]
        /\ \A i \in 1..(Len(q) - n) : b[i] = q[n + i]
  BY <1>1, RemoveAtParts
<1>3. PICK p \in Seq(Request) :
        /\ p = a \o b /\ Len(p) = Len(a) + Len(b)
        /\ \A i \in 1..Len(a) : p[i] = a[i]
        /\ \A i \in 1..Len(b) : p[Len(a) + i] = b[i]
  <2>1. a \o b \in Seq(Request)
    OBVIOUS
  <2>2. Len(a \o b) = Len(a) + Len(b)
    OBVIOUS
  <2>3. \A i \in 1..Len(a) : (a \o b)[i] = a[i]
    OBVIOUS
  <2>4. \A i \in 1..Len(b) : (a \o b)[Len(a) + i] = b[i]
    OBVIOUS
  <2> QED
    BY <2>1, <2>2, <2>3, <2>4, Zenon
<1>4. DOMAIN p = 1..(Len(q) - 1)
  <2>1. Len(p) = Len(q) - 1
    BY <1>1, <1>2, <1>3
  <2> QED
    BY <2>1, LenProperties
<1>5. ASSUME NEW i \in DOMAIN p PROVE from(i) \in DOMAIN q /\ p[i] = q[from(i)]
  <2>1. CASE i < n
    <3>1. i \in 1..(n - 1)
      BY <1>1, <1>4, <2>1
    <3>2. p[i] = q[i]
      BY <1>2, <1>3, <3>1
    <3> QED
      BY <1>1, <2>1, <3>1, <3>2
  <2>2. CASE ~(i < n)
    <3> DEFINE k == i - (n - 1)
    <3>1. k \in 1..(Len(q) - n) /\ (n - 1) + k = i /\ n + k = i + 1
      BY <1>1, <1>4, <2>2
    <3>2. p[(n - 1) + k] = b[k]
      BY <1>2, <1>3, <3>1
    <3>3. p[i] = q[i + 1]
      BY <1>2, <3>1, <3>2
    <3> QED
      BY <1>1, <2>2, <3>1, <3>3
  <2> QED
    BY <2>1, <2>2
<1>6. IsInjective(p)
  <2> SUFFICES ASSUME NEW i \in DOMAIN p, NEW j \in DOMAIN p, p[i] = p[j] PROVE i = j
    BY DEF IsInjective
  <2>1. from(i) = from(j)
    BY <1>5 DEF IsInjective
  <2> QED
    BY <1>1, <1>4, <2>1
<1>7. \A s : InQueue(p, s) => InQueue(q, s)
  BY <1>5 DEF InQueue
<1> QED
  BY <1>2, <1>3, <1>6, <1>7

-----------------------------------------------------------------------------
(***************************************************************************)
(* The limit of the pool. PoolTypeOK is inductive once it says that the    *)
(* connections are finitely many.                                          *)
(***************************************************************************)
PoolFits == PoolTypeOK /\ IsFiniteSet(connected)

LEMMA QueuedIsInQueue == \A s : Queued(s) <=> InQueue(queue, s)
BY DEF Queued, InQueue

LEMMA ConnectFits ==
  ASSUME PoolFits, NEW r \in Request, r \notin connected, ~Queued(r), Connect(r)
  PROVE  PoolFits'
<1> USE QueuedIsInQueue DEF PoolFits, PoolTypeOK
<1>1. Cardinality(connected) \in Nat
  BY FS_CardinalityType
<1>2. CASE Cardinality(connected) < PoolSize
  <2>1. connected' = connected \cup {r} /\ queue' = queue
    BY <1>2 DEF Connect
  <2>2. IsFiniteSet(connected') /\ Cardinality(connected') = Cardinality(connected) + 1
    BY <2>1, FS_AddElement
  <2>3. queue = <<>>
    BY <1>1, <1>2, PoolNotEmpty
  <2>4. \A s \in connected' : ~Queued(s)'
    BY <2>1 DEF Queued
  <2> QED
    BY <1>1, <1>2, <2>1, <2>2, <2>3, <2>4, PoolNotEmpty
<1>3. CASE ~(Cardinality(connected) < PoolSize)
  <2>1. connected' = connected /\ queue' = Append(queue, r)
    BY <1>3 DEF Connect
  <2>2. queue' \in Seq(Request) /\ IsInjective(queue')
    BY <2>1, QueueJoined
  <2>3. \A s \in connected' : ~Queued(s)'
    BY <2>1, QueueJoined DEF Queued, InQueue
  <2>4. Cardinality(connected) = PoolSize
    BY <1>1, <1>3, PoolNotEmpty
  <2> QED
    BY <2>1, <2>2, <2>3, <2>4
<1> QED
  BY <1>2, <1>3

LEMMA ReleaseFits ==
  ASSUME PoolFits, NEW r \in connected, Release(r)
  PROVE  PoolFits'
<1> USE QueuedIsInQueue DEF PoolFits, PoolTypeOK
<1>1. /\ Cardinality(connected) \in Nat
      /\ IsFiniteSet(connected \ {r})
      /\ Cardinality(connected \ {r}) = Cardinality(connected) - 1
  BY FS_CardinalityType, FS_RemoveElement
<1>2. CASE queue = <<>>
  <2>1. connected' = connected \ {r} /\ queue' = queue
    BY <1>2 DEF Release
  <2>2. \A s \in connected' : ~Queued(s)'
    BY <2>1 DEF Queued
  <2> QED
    BY <1>1, <1>2, <2>1, <2>2, PoolNotEmpty
<1>3. CASE queue # <<>>
  <2> DEFINE h == Head(queue)
  <2>1. connected' = (connected \ {r}) \cup {h} /\ queue' = Tail(queue)
    BY <1>3 DEF Release
  <2>2. h \in Request /\ h \notin connected
    BY <1>3, HeadServed
  <2>3. queue' \in Seq(Request) /\ IsInjective(queue')
    BY <1>3, <2>1, HeadServed
  <2>4. \A s \in connected' : ~InQueue(queue', s)
    BY <1>3, <2>1, HeadServed
  <2>5. \A s \in connected' : ~Queued(s)'
    BY <2>4 DEF Queued, InQueue
  <2>6. IsFiniteSet(connected') /\ Cardinality(connected') = Cardinality(connected)
    <3> DEFINE rest == connected \ {r}
    <3>1. IsFiniteSet(rest) /\ Cardinality(rest) = Cardinality(connected) - 1
      BY <1>1
    <3>2. h \notin rest
      BY <2>2
    <3> HIDE DEF rest, h
    <3>3. IsFiniteSet(rest \cup {h}) /\ Cardinality(rest \cup {h}) = Cardinality(rest) + 1
      BY <3>1, <3>2, FS_AddElement
    <3>4. connected' = rest \cup {h}
      BY <2>1 DEF rest
    <3> QED
      BY <1>1, <3>1, <3>3, <3>4
  <2> QED
    BY <1>3, <2>1, <2>2, <2>3, <2>5, <2>6
<1> QED
  BY <1>2, <1>3

LEMMA FitsStep == PoolFits /\ [PoolNext]_poolVars => PoolFits'
<1> SUFFICES ASSUME PoolFits, [PoolNext]_poolVars PROVE PoolFits'
  OBVIOUS
<1>1. CASE UNCHANGED <<queue, connected>>
  BY <1>1 DEF PoolFits, PoolTypeOK, Queued
<1>2. ASSUME NEW r \in Request, AskForConnection(r) PROVE PoolFits'
  BY <1>2, ConnectFits DEF AskForConnection
<1>3. ASSUME NEW r \in Request, Serve(r) PROVE PoolFits'
  <2>1. r \in connected /\ (Release(r) \/ UNCHANGED <<queue, connected>>)
    BY <1>3 DEF Serve, RunStatement, EndAfterRead, KeepsConnection
  <2> QED
    BY <1>1, <2>1, ReleaseFits
<1>4. ASSUME NEW r \in Request, Fail(r) PROVE PoolFits'
  <2>1. CASE r \in connected
    BY <1>4, <2>1, ReleaseFits DEF Fail
  <2>2. ASSUME NEW n \in DOMAIN queue, queue' = RemoveAt(queue, n), UNCHANGED connected
        PROVE  PoolFits'
    <3>1. queue' \in Seq(Request) /\ IsInjective(queue')
      BY <2>2, QueueLeft DEF PoolFits, PoolTypeOK
    <3>2. \A s \in connected' : ~Queued(s)'
      <4>1. \A s : InQueue(queue', s) => InQueue(queue, s)
        BY <2>2, QueueLeft DEF PoolFits, PoolTypeOK
      <4>2. \A s \in connected : ~InQueue(queue, s)
        BY QueuedIsInQueue DEF PoolFits, PoolTypeOK
      <4> QED
        BY <2>2, <4>1, <4>2 DEF Queued, InQueue
    <3>3. queue # <<>>
      BY <2>2
    <3> QED
      BY <2>2, <3>1, <3>2, <3>3 DEF PoolFits, PoolTypeOK
  <2> QED
    BY <1>1, <1>4, <2>1, <2>2 DEF Fail
<1> QED
  BY <1>1, <1>2, <1>3, <1>4 DEF PoolNext, poolVars

\* However many requests ask, wait, die and hand over, the pool lends no more
\* connections than it has, leaves none idle while somebody waits, and counts
\* nobody twice.
THEOREM PoolLimit == PoolSpec => []PoolTypeOK
<1>1. PoolInit => PoolFits
  BY PoolNotEmpty, FS_EmptySet DEF PoolInit, PoolFits, PoolTypeOK, IsInjective, Queued
<1>2. PoolFits => PoolTypeOK
  BY DEF PoolFits
<1> QED
  BY <1>1, <1>2, FitsStep, PTL DEF PoolSpec

\* The members of a circle that have a connection would be a circle of row locks
\* by themselves, since a lock is held by a request that has one; and if none had
\* one, the pool would have no connection at all.
THEOREM PoolDeadlockFree == PoolSpec => []NoPoolDeadlock
<1>1. PoolIInv => NoPoolDeadlock
  <2> SUFFICES ASSUME PoolIInv, NEW S \in SUBSET Request, S # {},
                      \A r \in S :
                        IF r \in connected
                        THEN \E x \in Wanted(r) : lock[x] \in S
                        ELSE /\ Queued(r)
                             /\ connected \subseteq S /\ Cardinality(connected) = PoolSize
               PROVE  FALSE
    BY DEF NoPoolDeadlock
  <2> DEFINE C == S \cap connected
  <2>1. CASE C = {}
    <3>1. PICK r \in S : r \notin connected
      BY <2>1
    <3>2. connected = {} /\ Cardinality(connected) = PoolSize
      BY <2>1, <3>1
    <3> QED
      BY <3>2, FS_EmptySet, PoolNotEmpty
  <2>2. CASE C # {}
    <3>1. ASSUME NEW r \in C PROVE \E x \in Wanted(r) : lock[x] \in C
      <4>1. PICK x \in Wanted(r) : lock[x] \in S
        OBVIOUS
      <4>2. x \in Row /\ lock[x] # None
        BY <4>1, WantedRows, RowIds DEF PoolIInv
      <4>3. lock[x] \in connected
        BY <4>2, HoldersAreConnected DEF HoldersConnected
      <4> QED
        BY <4>1, <4>3
    <3> QED
      BY <2>2, <3>1, NoCircle DEF PoolIInv, NoLockCycle
  <2> QED
    BY <2>1, <2>2
<1> QED
  BY <1>1, PoolInvariant, PTL

\* Whoever is blocked waits for a request that has a connection; if all were
\* blocked, they would be a circle of row locks.
THEOREM PoolKeepsRunning == PoolSpec => []SomeoneRuns
<1>1. PoolIInv /\ PoolTypeOK => SomeoneRuns
  <2> SUFFICES ASSUME PoolIInv, PoolTypeOK, connected # {},
                      \A r \in connected : Blocked(r)
               PROVE  FALSE
    BY DEF SomeoneRuns
  <2>1. ASSUME NEW r \in connected PROVE \E x \in Wanted(r) : lock[x] \in connected
    <3>1. PICK x \in Wanted(r) : lock[x] # None
      BY DEF Blocked
    <3>2. x \in Row
      BY <3>1, WantedRows DEF PoolIInv, PoolTypeOK
    <3> QED
      BY <3>1, <3>2, HoldersAreConnected DEF HoldersConnected
  <2> QED
    BY <2>1, NoCircle DEF PoolIInv, PoolTypeOK, NoLockCycle
<1> QED
  BY <1>1, PoolInvariant, PoolLimit, PTL

=============================================================================
