---------------------------- MODULE EngineProofs ----------------------------
(***************************************************************************)
(* Proofs that module Engine, for any number of requests and rows,         *)
(* implements module Workflow: row locks keep what a transaction has read  *)
(* true until it commits.                                                  *)
(***************************************************************************)
EXTENDS Engine, TLAPS

WP == INSTANCE WorkflowProofs

-----------------------------------------------------------------------------
(***************************************************************************)
(* The inductive invariant: the invariant of the tables, and for every     *)
(* request what its program counter says of its row, of the locks it holds *)
(* and of what it has read.                                                *)
(***************************************************************************)

\* The kind of row a request works on, and that the row exists.
RowExists(r) ==
  LET row == req[r].row
  IN  /\ At(r, "casOrder") => row \in Order /\ orderStatus[row] # Absent
      /\ req[r].pc \in {"createLockOrder", "createCommit"} =>
           row \in Item /\ orderStatus[ItemOrder[row]] # Absent
      /\ req[r].pc \in {"loadReturn", "casReturn", "rejectLockReturn",
                        "rejectLockOrder", "rejectCommit", "insertRefund"} =>
           row \in Return /\ returnStatus[row] # Absent
      /\ req[r].pc \in {"failRefund", "refundLockRefund", "refundLockReturn",
                        "refundLockOrder", "refundCommit"} =>
           row \in Refund /\ refundStatus[row] # Absent

\* What a request has checked before it came to this point.
Checked(r) ==
  /\ At(r, "casOrder") =>
       /\ <<req[r].order, req[r].want>> \in validTransitions
       /\ <<req[r].order, req[r].want>> \in StaffMoves[req[r].row] \/ req[r].want = "cancelled"
  /\ At(r, "loadReturn") => req[r].want \in DeskTargets \cup {"rejected", "refund"}
  /\ At(r, "casReturn") =>
       /\ req[r].want \in DeskTargets
       /\ <<req[r].return, req[r].want>> \in validReturnTransitions
  /\ At(r, "rejectLockOrder") \/ At(r, "rejectCommit") => req[r].return = "pending"
  /\ At(r, "rejectCommit") => req[r].order = "return_requested"
  /\ At(r, "insertRefund") => returnStatus[req[r].row] \in {"received", "refunded"}

Holds(r, x) ==
  LET row == req[r].row
  IN  \/ At(r, "createCommit") /\ x = ItemOrder[row]
      \/ (At(r, "rejectLockOrder") \/ At(r, "rejectCommit")) /\ x = row
      \/ At(r, "rejectCommit") /\ x = OrderOf(row)
      \/ req[r].pc \in {"refundLockReturn", "refundLockOrder", "refundCommit"} /\ x = row
      \/ req[r].pc \in {"refundLockOrder", "refundCommit"} /\ x = RefundReturn[row]
      \/ At(r, "refundCommit") /\ x = OrderOf(RefundReturn[row])

LocksMatch(r) == \A x \in Row : lock[x] = r <=> Holds(r, x)

Local(r) == RowExists(r) /\ Checked(r) /\ LocksMatch(r) /\ ReadsFresh(r)

IInv ==
  /\ TypeOK
  /\ WP!IInv
  /\ \A r \in Request : Local(r)

-----------------------------------------------------------------------------
(***************************************************************************)
(* Module WorkflowProofs speaks of the definitions of its own instance of  *)
(* Schema.                                                                 *)
(***************************************************************************)
LEMMA SameSchema ==
  /\ WP!ForeignKeys /\ WP!Statuses
  /\ WP!tables = tables
  /\ WP!Absent = Absent
  /\ WP!OrderStatus = OrderStatus /\ WP!ReturnStatus = ReturnStatus
  /\ WP!validTransitions = validTransitions
  /\ WP!validReturnTransitions = validReturnTransitions
  /\ WP!DeskTargets = DeskTargets
  /\ \A t : WP!OrderOf(t) = OrderOf(t)
  /\ \A t : WP!LiveRefunds(t) = LiveRefunds(t)
  /\ WP!TablesTyped <=> TablesTyped
<1>1. WP!ForeignKeys
  BY ForeignKeys DEF ForeignKeys, WP!ForeignKeys
<1>2. WP!Statuses
  BY Statuses DEF Statuses, WP!Statuses, OrderStatus, WP!OrderStatus, Absent, WP!Absent
<1>3. WP!tables = tables /\ \A t : WP!OrderOf(t) = OrderOf(t)
  BY DEF tables, WP!tables, OrderOf, WP!OrderOf
<1>4. /\ WP!Absent = Absent
      /\ WP!OrderStatus = OrderStatus /\ WP!ReturnStatus = ReturnStatus
      /\ WP!DeskTargets = DeskTargets
  BY DEF Absent, WP!Absent, OrderStatus, WP!OrderStatus, ReturnStatus, WP!ReturnStatus,
         DeskTargets, WP!DeskTargets
<1>5. /\ WP!validTransitions = validTransitions
      /\ WP!validReturnTransitions = validReturnTransitions
  BY DEF validTransitions, WP!validTransitions,
         validReturnTransitions, WP!validReturnTransitions
<1>6. \A t : WP!LiveRefunds(t) = LiveRefunds(t)
  BY DEF LiveRefunds, WP!LiveRefunds, Absent, WP!Absent
<1>7. WP!TablesTyped <=> TablesTyped
  BY <1>4 DEF TablesTyped, WP!TablesTyped, RefundStatus, WP!RefundStatus
<1> QED
  BY <1>1, <1>2, <1>3, <1>4, <1>5, <1>6, <1>7

LEMMA KeysTyped ==
  /\ \A i \in Item : ItemOrder[i] \in Order
  /\ \A t \in Return : OrderOf(t) \in Order
  /\ \A f \in Refund : RefundReturn[f] \in Return
BY ForeignKeys DEF OrderOf, ForeignKeys

-----------------------------------------------------------------------------
(***************************************************************************)
(* Every step of a request is a step of Workflow or leaves the tables      *)
(* alone.                                                                  *)
(***************************************************************************)
Writes(r) ==
  \/ \E o \in Order : InsertOrder(r, o)
  \/ CasOrder(r) \/ CreateCommit(r) \/ CasReturn(r) \/ RejectCommit(r)
  \/ InsertRefund(r) \/ FailRefund(r) \/ RefundCommit(r)

LEMMA OtherStepsKeepTables ==
  ASSUME NEW r \in Request, Start(r) \/ Continue(r) \/ Abort(r)
  PROVE  Writes(r) \/ UNCHANGED tables
<1>1. CASE Start(r)
  BY <1>1 DEF Start, Writes, ReadForCancel, ReadForStatus, ReadForReturn, FindReturn,
              ReadForComplete
<1>2. CASE Continue(r)
  BY <1>2 DEF Continue, Writes, CreateLockOrder, LoadReturn, RejectLockReturn,
              RejectLockOrder, RefundLockRefund, RefundLockReturn, RefundLockOrder, Rollback
<1>3. CASE Abort(r)
  BY <1>3 DEF Abort, Rollback
<1> QED
  BY <1>1, <1>2, <1>3

LEMMA WritesRefine ==
  ASSUME IInv, NEW r \in Request, Writes(r)
  PROVE  WP!Next \/ UNCHANGED tables
<1> DEFINE row == req[r].row
<1> Local(r) /\ TablesTyped
  BY DEF IInv, TypeOK
<1> USE SameSchema, KeysTyped DEF Local, At
<1>1. ASSUME NEW o \in Order, InsertOrder(r, o) PROVE WP!Next
  BY <1>1 DEF InsertOrder, WP!Next, WP!OrderStep, WP!InsertOrder
<1>2. CASE CasOrder(r)
  <2>1. CASE orderStatus[row] = req[r].order
    <3>1. /\ At(r, "casOrder") /\ row \in Order
          /\ orderStatus' = [orderStatus EXCEPT ![row] = req[r].want]
          /\ UNCHANGED <<returnStatus, refundStatus>>
      BY <1>2, <2>1 DEF CasOrder, RowExists
    <3>2. CASE <<orderStatus[row], req[r].want>> \in StaffMoves[row]
      <4>1. req[r].want \in OrderStatus /\ WP!UpdateOrderStatus(row, req[r].want)
        BY <2>1, <3>1, <3>2 DEF Checked, WP!UpdateOrderStatus, validTransitions, OrderStatus
      <4> QED
        BY <3>1, <4>1 DEF WP!Next, WP!OrderStep
    <3>3. CASE req[r].want = "cancelled"
      <4>1. WP!CancelOrder(row)
        BY <2>1, <3>1, <3>3 DEF Checked, WP!CancelOrder, validTransitions
      <4> QED
        BY <3>1, <4>1 DEF WP!Next, WP!OrderStep
    <3> QED
      BY <2>1, <3>1, <3>2, <3>3 DEF Checked
  <2> QED
    BY <1>2, <2>1 DEF CasOrder, tables
<1>3. CASE CreateCommit(r)
  <2>1. CASE Rollback(r)
    BY <2>1 DEF Rollback
  <2>2. ASSUME NEW t \in Return, ReturnItem[t] = row, returnStatus[t] = Absent,
               At(r, "createCommit"), req[r].order = "delivered",
               returnStatus' = [returnStatus EXCEPT ![t] = "pending"],
               orderStatus' = [orderStatus EXCEPT ![ItemOrder[row]] = "return_requested"],
               UNCHANGED refundStatus
        PROVE  WP!Next
    <3>1. WP!CreateReturn(t)
      BY <2>2 DEF WP!CreateReturn, ReadsFresh, OrderOf
    <3> QED
      BY <3>1 DEF WP!Next, WP!ReturnStep
  <2> QED
    BY <1>3, <2>1, <2>2 DEF CreateCommit
<1>4. CASE CasReturn(r)
  <2>1. CASE returnStatus[row] = req[r].return
    <3>1. row \in Return /\ req[r].want \in ReturnStatus /\ WP!AdvanceReturn(row, req[r].want)
      BY <1>4, <2>1 DEF CasReturn, RowExists, Checked, WP!AdvanceReturn, DeskTargets,
                        ReturnStatus
    <3> QED
      BY <3>1 DEF WP!Next, WP!ReturnStep
  <2> QED
    BY <1>4, <2>1 DEF CasReturn, tables
<1>5. CASE RejectCommit(r)
  <2>1. row \in Return /\ WP!RejectReturn(row)
    BY <1>5 DEF RejectCommit, RowExists, Checked, ReadsFresh, WP!RejectReturn
  <2> QED
    BY <2>1 DEF WP!Next, WP!ReturnStep
<1>6. CASE InsertRefund(r)
  <2>1. CASE UNCHANGED refundStatus
    BY <1>6, <2>1 DEF InsertRefund, tables
  <2>2. ASSUME NEW f \in Refund, RefundReturn[f] = row, refundStatus[f] = Absent,
               LiveRefunds(row) = {}, At(r, "insertRefund"),
               refundStatus' = [refundStatus EXCEPT ![f] = "pending"],
               UNCHANGED <<orderStatus, returnStatus>>
        PROVE  WP!Next
    <3>1. row \in Return /\ returnStatus[row] \in {"received", "refunded"}
      BY <2>2 DEF RowExists, Checked
    <3>2. returnStatus[row] # "refunded"
      BY <2>2, <3>1 DEF IInv, WP!IInv, WP!RefundedHasCompleted, LiveRefunds, Absent
    <3>3. WP!InsertRefund(f)
      BY <2>2, <3>1, <3>2 DEF WP!InsertRefund
    <3> QED
      BY <3>3 DEF WP!Next, WP!RefundStep
  <2> QED
    BY <1>6, <2>1, <2>2 DEF InsertRefund
<1>7. CASE FailRefund(r)
  <2>1. CASE refundStatus[row] = "pending"
    <3>1. row \in Refund /\ WP!FailRefund(row)
      BY <1>7, <2>1 DEF FailRefund, RowExists, WP!FailRefund
    <3> QED
      BY <3>1 DEF WP!Next, WP!RefundStep
  <2> QED
    BY <1>7, <2>1 DEF FailRefund, tables
<1>8. CASE RefundCommit(r)
  <2>1. CASE Rollback(r)
    BY <2>1 DEF Rollback
  <2>2. CASE ~Rollback(r)
    <3>1. row \in Refund /\ WP!CompleteRefund(row)
      BY <1>8, <2>2 DEF RefundCommit, RowExists, ReadsFresh, WP!CompleteRefund
    <3> QED
      BY <3>1 DEF WP!Next, WP!RefundStep
  <2> QED
    BY <2>1, <2>2
<1> QED
  BY <1>1, <1>2, <1>3, <1>4, <1>5, <1>6, <1>7, <1>8 DEF Writes

LEMMA StepRefines == IInv /\ [Next]_vars => [WP!Next]_(WP!tables)
<1> SUFFICES ASSUME IInv, [Next]_vars PROVE WP!Next \/ UNCHANGED tables
  BY DEF tables, WP!tables
<1>1. CASE UNCHANGED vars
  BY <1>1 DEF vars, tables
<1>2. CASE Next
  BY <1>2, OtherStepsKeepTables, WritesRefine DEF Next
<1> QED
  BY <1>1, <1>2

-----------------------------------------------------------------------------
(***************************************************************************)
(* What a request knows stays true while other requests take steps.        *)
(***************************************************************************)

\* Rows are never deleted, and a received return stays received or is refunded.
RowsStay ==
  /\ \A o \in Order : orderStatus[o] # Absent => orderStatus'[o] # Absent
  /\ \A t \in Return : returnStatus[t] # Absent => returnStatus'[t] # Absent
  /\ \A f \in Refund : refundStatus[f] # Absent => refundStatus'[f] # Absent
  /\ \A t \in Return : returnStatus[t] \in {"received", "refunded"} =>
                        returnStatus'[t] \in {"received", "refunded"}

LEMMA StepRowsStay ==
  ASSUME IInv, [WP!Next]_(WP!tables)
  PROVE  RowsStay
<1>1. CASE UNCHANGED tables
  BY <1>1 DEF tables, RowsStay
<1>2. CASE WP!Next
  <2>1. WP!ValidMove
    BY <1>2, WP!StepMoves, SameSchema DEF IInv, WP!IInv
  <2>2. \A f \in Refund : refundStatus[f] # Absent => refundStatus'[f] # Absent
    <3>1. ASSUME NEW f \in Refund, WP!RefundStep(f)
          PROVE  \E to \in {"pending", "completed", "failed"} :
                   refundStatus' = [refundStatus EXCEPT ![f] = to]
      BY <3>1 DEF WP!RefundStep, WP!InsertRefund, WP!FailRefund, WP!CompleteRefund
    <3>2. \/ UNCHANGED refundStatus
          \/ \E f \in Refund : WP!RefundStep(f)
      BY <1>2 DEF WP!Next, WP!OrderStep, WP!InsertOrder, WP!CancelOrder,
                  WP!UpdateOrderStatus, WP!ReturnStep, WP!CreateReturn, WP!RejectReturn,
                  WP!AdvanceReturn
    <3> QED
      BY <3>1, <3>2 DEF IInv, TypeOK, TablesTyped, Absent
  <2>3. \A o \in Order : orderStatus[o] # Absent => orderStatus'[o] # Absent
    BY <2>1 DEF WP!ValidMove, WP!validTransitions, WP!Absent, Absent
  <2>4. \A t \in Return :
          /\ returnStatus[t] # Absent => returnStatus'[t] # Absent
          /\ returnStatus[t] \in {"received", "refunded"} =>
               returnStatus'[t] \in {"received", "refunded"}
    BY <2>1 DEF WP!ValidMove, WP!validReturnTransitions, WP!Absent, Absent
  <2> QED
    BY <2>2, <2>3, <2>4 DEF RowsStay
<1> QED
  BY <1>1, <1>2, SameSchema DEF tables, WP!tables

\* A step of r changes no other request, no lock of another request, and no row
\* that another request has locked (other than inserting it).
Frame(r) ==
  \A s \in Request \ {r} :
    /\ req'[s] = req[s]
    /\ \A x \in Row : lock'[x] = s <=> lock[x] = s
    /\ \A o \in Order : lock[o] = s /\ orderStatus[o] # Absent =>
                          orderStatus'[o] = orderStatus[o]
    /\ \A t \in Return : lock[t] = s /\ returnStatus[t] # Absent =>
                           returnStatus'[t] = returnStatus[t]
    /\ \A f \in Refund : lock[f] = s /\ refundStatus[f] # Absent =>
                           refundStatus'[f] = refundStatus[f]

\* Every row of a transaction exists, the parents of its own row included.
LEMMA ParentRowsExist ==
  ASSUME IInv
  PROVE  /\ \A t \in Return : returnStatus[t] # Absent => orderStatus[OrderOf(t)] # Absent
         /\ \A f \in Refund : refundStatus[f] # Absent =>
              /\ returnStatus[RefundReturn[f]] # Absent
              /\ orderStatus[OrderOf(RefundReturn[f])] # Absent
BY SameSchema, KeysTyped DEF IInv, WP!IInv, WP!ParentsExist

LEMMA OthersKeep ==
  ASSUME IInv, NEW r \in Request, Frame(r), RowsStay, NEW s \in Request, s # r
  PROVE  Local(s)'
<1> DEFINE row == req[s].row
<1>0. Local(s)
  BY DEF IInv
<1>1. req'[s] = req[s]
  BY DEF Frame
<1>2. RowExists(s)'
  BY <1>0, <1>1, KeysTyped DEF Local, RowExists, At, RowsStay
<1>3. Checked(s)'
  BY <1>0, <1>1 DEF Local, Checked, RowExists, At, RowsStay
<1>4. LocksMatch(s)'
  <2> SUFFICES ASSUME NEW x \in Row PROVE lock'[x] = s <=> Holds(s, x)'
    BY DEF LocksMatch
  <2>1. lock'[x] = s <=> lock[x] = s
    BY DEF Frame
  <2>2. Holds(s, x)' <=> Holds(s, x)
    BY <1>1 DEF Holds, At, OrderOf
  <2> QED
    BY <1>0, <2>1, <2>2 DEF Local, LocksMatch
<1>5. ReadsFresh(s)'
  <2>1. CASE At(s, "createCommit")
    <3>1. ItemOrder[row] \in Order /\ lock[ItemOrder[row]] = s
      BY <1>0, <2>1, KeysTyped DEF Local, RowExists, LocksMatch, Holds, At, Row
    <3> QED
      BY <1>0, <1>1, <2>1, <3>1 DEF Local, RowExists, ReadsFresh, At, Frame
  <2>2. CASE At(s, "rejectLockOrder") \/ At(s, "rejectCommit")
    <3>1. row \in Return /\ lock[row] = s
      BY <1>0, <2>2 DEF Local, RowExists, LocksMatch, Holds, At, Row
    <3>2. At(s, "rejectCommit") => lock[OrderOf(row)] = s
      BY <1>0, <3>1, KeysTyped DEF Local, LocksMatch, Holds, Row
    <3>3. returnStatus'[row] = returnStatus[row]
      BY <1>0, <2>2, <3>1 DEF Local, RowExists, At, Frame
    <3>4. At(s, "rejectCommit") => orderStatus'[OrderOf(row)] = orderStatus[OrderOf(row)]
      BY <1>0, <2>2, <3>1, <3>2, KeysTyped, ParentRowsExist DEF Local, RowExists, At, Frame
    <3> QED
      BY <1>0, <1>1, <2>2, <3>3, <3>4 DEF Local, ReadsFresh, At, OrderOf
  <2>3. CASE req[s].pc \in {"refundLockReturn", "refundLockOrder", "refundCommit"}
    <3> DEFINE t == RefundReturn[row]
    <3>1. row \in Refund /\ t \in Return /\ OrderOf(t) \in Order
      BY <1>0, <2>3, KeysTyped DEF Local, RowExists
    <3>2. /\ refundStatus[row] # Absent
          /\ returnStatus[t] # Absent
          /\ orderStatus[OrderOf(t)] # Absent
      BY <1>0, <2>3, <3>1, ParentRowsExist DEF Local, RowExists
    <3>3. refundStatus'[row] = refundStatus[row]
      BY <1>0, <2>3, <3>1, <3>2 DEF Local, LocksMatch, Holds, At, Row, Frame
    <3>4. req[s].pc \in {"refundLockOrder", "refundCommit"} =>
            returnStatus'[t] = returnStatus[t]
      BY <1>0, <3>1, <3>2 DEF Local, LocksMatch, Holds, At, Row, Frame
    <3>5. At(s, "refundCommit") => orderStatus'[OrderOf(t)] = orderStatus[OrderOf(t)]
      BY <1>0, <3>1, <3>2 DEF Local, LocksMatch, Holds, At, Row, Frame
    <3> QED
      BY <1>0, <1>1, <2>3, <3>3, <3>4, <3>5 DEF Local, ReadsFresh, At, OrderOf
  <2> QED
    BY <1>1, <2>1, <2>2, <2>3 DEF ReadsFresh, At
<1> QED
  BY <1>2, <1>3, <1>4, <1>5 DEF Local

-----------------------------------------------------------------------------
(***************************************************************************)
(* What a step of a request establishes for the request itself.            *)
(***************************************************************************)
RequestsTyped ==
  /\ req \in [Request -> Requests]
  /\ lock \in [Row -> Request \cup {None}]

Step(r) == RequestsTyped' /\ Frame(r) /\ Local(r)'

LEMMA IdleLocal ==
  ASSUME NEW r \in Request, req'[r].pc = "idle", \A x \in Row : lock'[x] # r
  PROVE  Local(r)'
BY DEF Local, RowExists, Checked, LocksMatch, Holds, ReadsFresh, At

\* COMMIT and ROLLBACK.
LEMMA FinishStep ==
  ASSUME RequestsTyped, NEW r \in Request, ReleaseAll(r), Finish(r)
  PROVE  /\ RequestsTyped' /\ Local(r)'
         /\ \A s \in Request \ {r} :
              req'[s] = req[s] /\ \A x \in Row : lock'[x] = s <=> lock[x] = s
<1>1. Idle \in Requests
  BY DEF Idle, Requests, PC
<1>2. /\ \A x \in Row : lock'[x] = IF lock[x] = r THEN None ELSE lock[x]
      /\ lock' \in [Row -> Request \cup {None}]
      /\ None # r /\ None \notin Request
  BY RowIds DEF ReleaseAll, RequestsTyped
<1>3. req' = [req EXCEPT ![r] = Idle] /\ req'[r].pc = "idle"
  BY DEF Finish, Idle, RequestsTyped
<1>4. Local(r)'
  BY <1>2, <1>3, IdleLocal
<1> QED
  BY <1>1, <1>2, <1>3, <1>4 DEF RequestsTyped

LEMMA RollbackStep ==
  ASSUME RequestsTyped, NEW r \in Request, Rollback(r)
  PROVE  Step(r)
BY FinishStep DEF Rollback, Step, Frame, tables

\* The end of an operation of one statement, which holds no lock.
LEMMA SingleStep ==
  ASSUME RequestsTyped, NEW r \in Request, Finish(r), UNCHANGED lock,
         \A x \in Row : lock[x] # r
  PROVE  /\ RequestsTyped' /\ Local(r)'
         /\ \A s \in Request \ {r} :
              req'[s] = req[s] /\ \A x \in Row : lock'[x] = s <=> lock[x] = s
<1>1. Idle \in Requests
  BY DEF Idle, Requests, PC
<1>2. req' = [req EXCEPT ![r] = Idle] /\ req'[r].pc = "idle"
  BY DEF Finish, Idle, RequestsTyped
<1>3. Local(r)'
  BY <1>2, IdleLocal
<1> QED
  BY <1>1, <1>2, <1>3 DEF RequestsTyped

\* A step that leaves the tables and the locks alone.
LEMMA ReadStep ==
  ASSUME RequestsTyped, NEW r \in Request, UNCHANGED <<tables, lock>>,
         NEW q \in Requests, req' = [req EXCEPT ![r] = q]
  PROVE  RequestsTyped' /\ Frame(r) /\ req'[r] = q
BY DEF RequestsTyped, Frame, tables

\* A step that takes one lock.
LEMMA LockStep ==
  ASSUME RequestsTyped, NEW r \in Request, UNCHANGED tables,
         NEW x \in Row, Acquire(r, x),
         NEW q \in Requests, req' = [req EXCEPT ![r] = q]
  PROVE  /\ RequestsTyped' /\ Frame(r) /\ req'[r] = q
         /\ \A y \in Row : lock'[y] = r <=> lock[y] = r \/ y = x
BY RowIds DEF RequestsTyped, Frame, tables, Acquire, Free

LEMMA StartStep ==
  ASSUME IInv, NEW r \in Request, Start(r)
  PROVE  Step(r)
<1>1. RequestsTyped /\ TablesTyped /\ Local(r)
  BY DEF IInv, TypeOK, RequestsTyped
<1>2. At(r, "idle") /\ \A x \in Row : lock[x] # r
  <2>1. At(r, "idle")
    BY DEF Start, InsertOrder, ReadForCancel, ReadForStatus, ReadForReturn, FindReturn,
           ReadForComplete
  <2> QED
    BY <1>1, <2>1 DEF Local, LocksMatch, Holds, At
<1>3. ASSUME NEW o \in Order, InsertOrder(r, o) PROVE Step(r)
  <2>1. Local(r)'
    BY <1>2, <1>3, IdleLocal DEF InsertOrder, At
  <2> QED
    BY <1>1, <1>3, <2>1 DEF InsertOrder, Step, Frame, RequestsTyped, TablesTyped
<1>4. ASSUME UNCHANGED <<tables, lock>>,
             NEW q \in Requests, req' = [req EXCEPT ![r] = q],
             q.pc \in {"casOrder", "createLockOrder", "loadReturn", "failRefund",
                       "refundLockRefund"},
             q.pc = "casOrder" =>
               /\ q.row \in Order /\ orderStatus[q.row] # Absent
               /\ <<q.order, q.want>> \in validTransitions
               /\ <<q.order, q.want>> \in StaffMoves[q.row] \/ q.want = "cancelled",
             q.pc = "createLockOrder" =>
               q.row \in Item /\ orderStatus[ItemOrder[q.row]] # Absent,
             q.pc = "loadReturn" =>
               /\ q.row \in Return /\ returnStatus[q.row] # Absent
               /\ q.want \in DeskTargets \cup {"rejected", "refund"},
             q.pc \in {"failRefund", "refundLockRefund"} =>
               q.row \in Refund /\ refundStatus[q.row] # Absent
      PROVE  Step(r)
  <2>1. RequestsTyped' /\ Frame(r) /\ req'[r] = q
    BY <1>1, <1>4, ReadStep
  <2>2. RowExists(r)' /\ Checked(r)'
    BY <1>4, <2>1 DEF RowExists, Checked, At, tables
  <2>3. LocksMatch(r)' /\ ReadsFresh(r)'
    BY <1>2, <1>4, <2>1 DEF LocksMatch, Holds, ReadsFresh, At
  <2> QED
    BY <2>1, <2>2, <2>3 DEF Step, Local
<1>5. ASSUME NEW o \in Order, ReadForCancel(r, o) PROVE Step(r)
  <2> DEFINE q == [Idle EXCEPT !.pc = "casOrder", !.row = o, !.want = "cancelled",
                               !.order = orderStatus[o]]
  <2>1. q \in Requests
    BY <1>5, <1>1 DEF ReadForCancel, Requests, Idle, PC, Row, OrderStatus
  <2> QED
    BY <1>4, <1>5, <2>1 DEF ReadForCancel, Idle, validTransitions, Absent
<1>6. ASSUME NEW o \in Order, NEW to \in OrderStatus, ReadForStatus(r, o, to)
      PROVE  Step(r)
  <2> DEFINE q == [Idle EXCEPT !.pc = "casOrder", !.row = o, !.want = to,
                               !.order = orderStatus[o]]
  <2>1. orderStatus[o] \in OrderStatus /\ orderStatus[o] # Absent
    BY <1>6 DEF ReadForStatus, validTransitions, OrderStatus, Absent
  <2>2. q \in Requests
    BY <2>1 DEF Requests, Idle, PC, Row
  <2> QED
    BY <1>4, <1>6, <2>1, <2>2 DEF ReadForStatus, Idle
<1>7. ASSUME NEW i \in Item, ReadForReturn(r, i) PROVE Step(r)
  <2> DEFINE q == [Idle EXCEPT !.pc = "createLockOrder", !.row = i]
  <2>1. q \in Requests
    BY DEF Requests, Idle, PC
  <2> QED
    BY <1>4, <1>7, <2>1 DEF ReadForReturn, Idle, Absent
<1>8. ASSUME NEW t \in Return, NEW want \in DeskTargets \cup {"rejected", "refund"},
             FindReturn(r, t, want)
      PROVE  Step(r)
  <2> DEFINE q == [Idle EXCEPT !.pc = "loadReturn", !.row = t, !.want = want]
  <2>1. q \in Requests
    BY DEF Requests, Idle, PC, Row, DeskTargets, ReturnStatus
  <2> QED
    BY <1>4, <1>8, <2>1 DEF FindReturn, Idle
<1>9. ASSUME NEW f \in Refund, NEW outcome \in {"completed", "failed"},
             ReadForComplete(r, f, outcome)
      PROVE  Step(r)
  <2> DEFINE q == [Idle EXCEPT !.pc = IF outcome = "failed" THEN "failRefund"
                                      ELSE "refundLockRefund",
                               !.row = f]
  <2>1. q \in Requests
    BY DEF Requests, Idle, PC, Row
  <2> QED
    BY <1>4, <1>9, <2>1 DEF ReadForComplete, Idle, Absent
<1> QED
  BY <1>3, <1>5, <1>6, <1>7, <1>8, <1>9 DEF Start

\* Operations of one statement.
LEMMA StatementStep ==
  ASSUME IInv, NEW r \in Request,
         CasOrder(r) \/ CasReturn(r) \/ InsertRefund(r) \/ FailRefund(r)
  PROVE  Step(r)
<1>1. RequestsTyped /\ TablesTyped /\ Local(r)
  BY DEF IInv, TypeOK, RequestsTyped
<1>2. Finish(r) /\ UNCHANGED lock /\ \A x \in Row : lock[x] # r
  BY <1>1 DEF CasOrder, CasReturn, InsertRefund, FailRefund, Local, LocksMatch, Holds, At
<1>3. /\ RequestsTyped' /\ Local(r)'
      /\ \A s \in Request \ {r} :
           req'[s] = req[s] /\ \A x \in Row : lock'[x] = s <=> lock[x] = s
  BY <1>1, <1>2, SingleStep
<1>4. /\ \A o \in Order : lock[o] \in Request => orderStatus'[o] = orderStatus[o]
      /\ \A t \in Return : lock[t] \in Request => returnStatus'[t] = returnStatus[t]
      /\ \A f \in Refund : lock[f] \in Request /\ refundStatus[f] # Absent =>
                            refundStatus'[f] = refundStatus[f]
  <2>0. None \notin Request
    BY RowIds
  <2>1. CASE CasOrder(r)
    BY <1>1, <2>0, <2>1 DEF CasOrder, TablesTyped, Free
  <2>2. CASE CasReturn(r)
    BY <1>1, <2>0, <2>2 DEF CasReturn, TablesTyped, Free
  <2>3. CASE InsertRefund(r)
    BY <1>1, <2>0, <2>3 DEF InsertRefund, TablesTyped
  <2>4. CASE FailRefund(r)
    BY <1>1, <2>0, <2>4 DEF FailRefund, TablesTyped, Free
  <2> QED
    BY <2>1, <2>2, <2>3, <2>4
<1> QED
  BY <1>3, <1>4 DEF Step, Frame

\* The last step of a transaction writes rows that the request has locked, or
\* inserts one.
LEMMA CommitStep ==
  ASSUME IInv, NEW r \in Request, CreateCommit(r) \/ RejectCommit(r) \/ RefundCommit(r)
  PROVE  Step(r)
<1> DEFINE row == req[r].row
<1>1. RequestsTyped /\ TablesTyped /\ Local(r)
  BY DEF IInv, TypeOK, RequestsTyped
<1>2. ASSUME ReleaseAll(r), Finish(r),
             \A o \in Order : orderStatus'[o] # orderStatus[o] => lock[o] = r,
             \A t \in Return : returnStatus'[t] # returnStatus[t] =>
                               lock[t] = r \/ returnStatus[t] = Absent,
             \A f \in Refund : refundStatus'[f] # refundStatus[f] => lock[f] = r
      PROVE  Step(r)
  BY <1>1, <1>2, FinishStep DEF Step, Frame
<1>3. CASE CreateCommit(r)
  <2>1. ItemOrder[row] \in Order /\ lock[ItemOrder[row]] = r
    BY <1>1, <1>3, KeysTyped DEF CreateCommit, Local, RowExists, LocksMatch, Holds, At, Row
  <2> QED
    BY <1>1, <1>2, <1>3, <2>1, RollbackStep DEF CreateCommit, TablesTyped
<1>4. CASE RejectCommit(r)
  <2>1. /\ row \in Return /\ lock[row] = r
        /\ OrderOf(row) \in Order /\ lock[OrderOf(row)] = r
    BY <1>1, <1>4, KeysTyped DEF RejectCommit, Local, RowExists, LocksMatch, Holds, At, Row
  <2> QED
    BY <1>1, <1>2, <1>4, <2>1 DEF RejectCommit, TablesTyped
<1>5. CASE RefundCommit(r)
  <2> DEFINE t == RefundReturn[row]
  <2>1. row \in Refund /\ t \in Return /\ OrderOf(t) \in Order
    BY <1>1, <1>5, KeysTyped DEF RefundCommit, Local, RowExists, At
  <2>2. lock[row] = r /\ lock[t] = r /\ lock[OrderOf(t)] = r
    BY <1>1, <1>5, <2>1 DEF RefundCommit, Local, LocksMatch, Holds, At, Row
  <2> QED
    BY <1>1, <1>2, <1>5, <2>1, <2>2, RollbackStep DEF RefundCommit, TablesTyped
<1> QED
  BY <1>3, <1>4, <1>5

LEMMA LoadReturnStep ==
  ASSUME IInv, NEW r \in Request, LoadReturn(r)
  PROVE  Step(r)
<1> DEFINE row == req[r].row
           status == returnStatus[row]
<1>1. RequestsTyped /\ TablesTyped /\ Local(r)
  BY DEF IInv, TypeOK, RequestsTyped
<1>2. /\ row \in Return /\ status \in ReturnStatus
      /\ req[r] \in Requests /\ req[r].want \in DeskTargets \cup {"rejected", "refund"}
      /\ \A x \in Row : lock[x] # r
      /\ UNCHANGED <<tables, lock>>
  BY <1>1 DEF LoadReturn, Local, RowExists, Checked, LocksMatch, Holds, At, TablesTyped,
              RequestsTyped
<1>3. CASE Finish(r)
  BY <1>1, <1>2, <1>3, SingleStep DEF Step, Frame, tables
<1>4. ASSUME NEW next \in {"insertRefund", "rejectLockReturn", "casReturn"},
             req' = [req EXCEPT ![r].pc = next, ![r].return = status],
             next = "insertRefund" => status = "received",
             next = "casReturn" => /\ req[r].want \in DeskTargets
                                   /\ <<status, req[r].want>> \in validReturnTransitions
      PROVE  Step(r)
  <2> DEFINE q == [req[r] EXCEPT !.pc = next, !.return = status]
  <2>1. /\ q \in Requests
        /\ q.pc = next /\ q.row = row /\ q.want = req[r].want /\ q.return = status
    BY <1>2, <1>4 DEF Requests, PC
  <2>2. req' = [req EXCEPT ![r] = q]
    BY <1>1, <1>2, <1>4 DEF RequestsTyped, Requests
  <2> HIDE DEF q
  <2>3. RequestsTyped' /\ Frame(r) /\ req'[r] = q
    BY <1>1, <1>2, <2>1, <2>2, ReadStep
  <2>4. RowExists(r)' /\ Checked(r)'
    BY <1>2, <1>4, <2>1, <2>3 DEF RowExists, Checked, At, tables, ReturnStatus, Absent
  <2>5. LocksMatch(r)' /\ ReadsFresh(r)'
    BY <1>2, <1>4, <2>1, <2>3 DEF LocksMatch, Holds, ReadsFresh, At
  <2> QED
    BY <2>3, <2>4, <2>5 DEF Step, Local
<1> QED
  BY <1>3, <1>4 DEF LoadReturn

\* The request takes the lock of x and goes on to pc, with the status it has read
\* there in one of its fields.
LEMMA TakeLock ==
  ASSUME IInv, NEW r \in Request, UNCHANGED tables,
         NEW x \in Row, Acquire(r, x),
         NEW q, q \in Requests, req' = [req EXCEPT ![r] = q],
         q.pc # "casOrder", q.pc # "loadReturn", q.pc # "casReturn", q.pc # "insertRefund",
         q.row = req[r].row,
         q.pc \in {"createCommit"} => req[r].pc = "createLockOrder",
         q.pc \in {"rejectLockOrder", "rejectCommit"} =>
           req[r].pc \in {"rejectLockReturn", "rejectLockOrder"} /\ q.return = "pending",
         q.pc = "rejectCommit" => q.order = "return_requested",
         q.pc \in {"refundLockReturn", "refundLockOrder", "refundCommit"} =>
           req[r].pc \in {"refundLockRefund", "refundLockReturn", "refundLockOrder"},
         q.pc \in {"createCommit", "rejectLockOrder", "rejectCommit", "refundLockReturn",
                   "refundLockOrder", "refundCommit"}
  PROVE  /\ RequestsTyped' /\ Frame(r) /\ req'[r] = q
         /\ RowExists(r)' /\ Checked(r)'
         /\ \A y \in Row : lock'[y] = r <=> Holds(r, y) \/ y = x
<1>1. RequestsTyped /\ Local(r)
  BY DEF IInv, TypeOK, RequestsTyped
<1>2. /\ RequestsTyped' /\ Frame(r) /\ req'[r] = q
      /\ \A y \in Row : lock'[y] = r <=> lock[y] = r \/ y = x
  BY <1>1, LockStep
<1>3. RowExists(r)'
  BY <1>1, <1>2 DEF Local, RowExists, At, tables
<1>4. Checked(r)'
  BY <1>2 DEF Checked, At
<1>5. \A y \in Row : lock'[y] = r <=> Holds(r, y) \/ y = x
  BY <1>1, <1>2 DEF Local, LocksMatch
<1> QED
  BY <1>2, <1>3, <1>4, <1>5

LEMMA CreateLockStep ==
  ASSUME IInv, NEW r \in Request, CreateLockOrder(r)
  PROVE  Step(r)
<1> DEFINE row == req[r].row
           x == ItemOrder[row]
           q == [req[r] EXCEPT !.pc = "createCommit", !.order = orderStatus[x]]
<1>1. RequestsTyped /\ TablesTyped /\ Local(r) /\ req[r] \in Requests
  BY DEF IInv, TypeOK, RequestsTyped
<1>2. At(r, "createLockOrder") /\ Acquire(r, x) /\ UNCHANGED tables
  BY DEF CreateLockOrder
<1>3. x \in Order /\ x \in Row /\ orderStatus[x] \in OrderStatus
  BY <1>1, <1>2, KeysTyped DEF Local, RowExists, At, Row, TablesTyped
<1>4. /\ q \in Requests
      /\ q.pc = "createCommit" /\ q.row = row /\ q.order = orderStatus[x]
  BY <1>1, <1>3 DEF Requests, PC
<1>5. req' = [req EXCEPT ![r] = q]
  BY <1>1 DEF CreateLockOrder, RequestsTyped, Requests
<1> HIDE DEF q, x
<1>6. /\ RequestsTyped' /\ Frame(r) /\ req'[r] = q
      /\ RowExists(r)' /\ Checked(r)'
      /\ \A y \in Row : lock'[y] = r <=> Holds(r, y) \/ y = x
  BY <1>2, <1>3, <1>4, <1>5, TakeLock DEF At
<1>7. LocksMatch(r)'
  BY <1>2, <1>4, <1>6 DEF LocksMatch, Holds, At, x
<1>8. ReadsFresh(r)'
  BY <1>2, <1>4, <1>6 DEF ReadsFresh, At, tables, x
<1> QED
  BY <1>6, <1>7, <1>8 DEF Step, Local

LEMMA RejectLockReturnStep ==
  ASSUME IInv, NEW r \in Request, RejectLockReturn(r)
  PROVE  Step(r)
<1> DEFINE row == req[r].row
           x == row
           q == [req[r] EXCEPT !.pc = "rejectLockOrder", !.return = returnStatus[x]]
<1>1. RequestsTyped /\ TablesTyped /\ Local(r) /\ req[r] \in Requests
  BY DEF IInv, TypeOK, RequestsTyped
<1>2. At(r, "rejectLockReturn")
  BY DEF RejectLockReturn
<1>3. x \in Return /\ x \in Row /\ returnStatus[x] \in ReturnStatus
  BY <1>1, <1>2, KeysTyped, ParentRowsExist DEF Local, RowExists, At, Row, TablesTyped
<1>4. /\ q \in Requests
      /\ q.pc = "rejectLockOrder" /\ q.row = row /\ q.return = returnStatus[x]
  BY <1>1, <1>3 DEF Requests, PC
<1>5. CASE Rollback(r)
  BY <1>1, <1>5, RollbackStep
<1>6. CASE ~Rollback(r)
  <2>1. returnStatus[x] = "pending" /\ Acquire(r, x) /\ UNCHANGED tables
    BY <1>6 DEF RejectLockReturn
  <2>2. req' = [req EXCEPT ![r] = q]
    BY <1>1, <1>6 DEF RejectLockReturn, RequestsTyped, Requests
  <2> HIDE DEF q
  <2>3. /\ RequestsTyped' /\ Frame(r) /\ req'[r] = q
        /\ RowExists(r)' /\ Checked(r)'
        /\ \A y \in Row : lock'[y] = r <=> Holds(r, y) \/ y = x
    <3>1. req[r].pc = "rejectLockReturn" /\ q.return = "pending"
      BY <1>1, <1>2, <1>4, <2>1 DEF At, Local, Checked
    <3> QED
      BY <1>3, <1>4, <2>1, <2>2, <3>1, TakeLock
  <2>4. LocksMatch(r)'
    BY <1>2, <1>4, <2>3 DEF LocksMatch, Holds, At, OrderOf
  <2>5. ReadsFresh(r)'
    BY <1>1, <1>2, <1>4, <2>1, <2>3 DEF Local, ReadsFresh, At, tables, OrderOf
  <2> QED
    BY <2>3, <2>4, <2>5 DEF Step, Local
<1> QED
  BY <1>5, <1>6

LEMMA RejectLockOrderStep ==
  ASSUME IInv, NEW r \in Request, RejectLockOrder(r)
  PROVE  Step(r)
<1> DEFINE row == req[r].row
           x == OrderOf(row)
           q == [req[r] EXCEPT !.pc = "rejectCommit", !.order = orderStatus[x]]
<1>1. RequestsTyped /\ TablesTyped /\ Local(r) /\ req[r] \in Requests
  BY DEF IInv, TypeOK, RequestsTyped
<1>2. At(r, "rejectLockOrder")
  BY DEF RejectLockOrder
<1>3. x \in Order /\ x \in Row /\ orderStatus[x] \in OrderStatus
  BY <1>1, <1>2, KeysTyped, ParentRowsExist DEF Local, RowExists, At, Row, TablesTyped
<1>4. /\ q \in Requests
      /\ q.pc = "rejectCommit" /\ q.row = row /\ q.order = orderStatus[x]
      /\ q.return = req[r].return
  BY <1>1, <1>3 DEF Requests, PC
<1>5. CASE Rollback(r)
  BY <1>1, <1>5, RollbackStep
<1>6. CASE ~Rollback(r)
  <2>1. orderStatus[x] = "return_requested" /\ Acquire(r, x) /\ UNCHANGED tables
    BY <1>6 DEF RejectLockOrder
  <2>2. req' = [req EXCEPT ![r] = q]
    BY <1>1, <1>6 DEF RejectLockOrder, RequestsTyped, Requests
  <2> HIDE DEF q
  <2>3. /\ RequestsTyped' /\ Frame(r) /\ req'[r] = q
        /\ RowExists(r)' /\ Checked(r)'
        /\ \A y \in Row : lock'[y] = r <=> Holds(r, y) \/ y = x
    <3>1. /\ req[r].pc = "rejectLockOrder"
          /\ q.return = "pending" /\ q.order = "return_requested"
      BY <1>1, <1>2, <1>4, <2>1 DEF At, Local, Checked
    <3> QED
      BY <1>3, <1>4, <2>1, <2>2, <3>1, TakeLock
  <2>4. LocksMatch(r)'
    BY <1>2, <1>4, <2>3 DEF LocksMatch, Holds, At, OrderOf
  <2>5. ReadsFresh(r)'
    BY <1>1, <1>2, <1>4, <2>1, <2>3 DEF Local, ReadsFresh, At, tables, OrderOf
  <2> QED
    BY <2>3, <2>4, <2>5 DEF Step, Local
<1> QED
  BY <1>5, <1>6

LEMMA RefundLockRefundStep ==
  ASSUME IInv, NEW r \in Request, RefundLockRefund(r)
  PROVE  Step(r)
<1> DEFINE row == req[r].row
           x == row
           q == [req[r] EXCEPT !.pc = "refundLockReturn", !.refund = refundStatus[x]]
<1>1. RequestsTyped /\ TablesTyped /\ Local(r) /\ req[r] \in Requests
  BY DEF IInv, TypeOK, RequestsTyped
<1>2. At(r, "refundLockRefund")
  BY DEF RefundLockRefund
<1>3. x \in Refund /\ x \in Row /\ refundStatus[x] \in RefundStatus
  BY <1>1, <1>2, KeysTyped, ParentRowsExist DEF Local, RowExists, At, Row, TablesTyped
<1>4. /\ q \in Requests
      /\ q.pc = "refundLockReturn" /\ q.row = row /\ q.refund = refundStatus[x]
  BY <1>1, <1>3 DEF Requests, PC
<1>5. Acquire(r, x) /\ UNCHANGED tables /\ req' = [req EXCEPT ![r] = q]
  BY <1>1 DEF RefundLockRefund, RequestsTyped, Requests
<1> HIDE DEF q
<1>6. /\ RequestsTyped' /\ Frame(r) /\ req'[r] = q
      /\ RowExists(r)' /\ Checked(r)'
      /\ \A y \in Row : lock'[y] = r <=> Holds(r, y) \/ y = x
  BY <1>2, <1>3, <1>4, <1>5, TakeLock DEF At
<1>7. LocksMatch(r)'
  BY <1>2, <1>4, <1>6 DEF LocksMatch, Holds, At, OrderOf
<1>8. ReadsFresh(r)'
  BY <1>1, <1>2, <1>4, <1>5, <1>6 DEF Local, ReadsFresh, At, tables, OrderOf
<1> QED
  BY <1>6, <1>7, <1>8 DEF Step, Local

LEMMA RefundLockReturnStep ==
  ASSUME IInv, NEW r \in Request, RefundLockReturn(r)
  PROVE  Step(r)
<1> DEFINE row == req[r].row
           x == RefundReturn[row]
           q == [req[r] EXCEPT !.pc = "refundLockOrder", !.return = returnStatus[x]]
<1>1. RequestsTyped /\ TablesTyped /\ Local(r) /\ req[r] \in Requests
  BY DEF IInv, TypeOK, RequestsTyped
<1>2. At(r, "refundLockReturn")
  BY DEF RefundLockReturn
<1>3. x \in Return /\ x \in Row /\ returnStatus[x] \in ReturnStatus
  BY <1>1, <1>2, KeysTyped, ParentRowsExist DEF Local, RowExists, At, Row, TablesTyped
<1>4. /\ q \in Requests
      /\ q.pc = "refundLockOrder" /\ q.row = row /\ q.return = returnStatus[x]
      /\ q.refund = req[r].refund
  BY <1>1, <1>3 DEF Requests, PC
<1>5. Acquire(r, x) /\ UNCHANGED tables /\ req' = [req EXCEPT ![r] = q]
  BY <1>1 DEF RefundLockReturn, RequestsTyped, Requests
<1> HIDE DEF q
<1>6. /\ RequestsTyped' /\ Frame(r) /\ req'[r] = q
      /\ RowExists(r)' /\ Checked(r)'
      /\ \A y \in Row : lock'[y] = r <=> Holds(r, y) \/ y = x
  BY <1>2, <1>3, <1>4, <1>5, TakeLock DEF At
<1>7. LocksMatch(r)'
  BY <1>2, <1>4, <1>6 DEF LocksMatch, Holds, At, OrderOf
<1>8. ReadsFresh(r)'
  BY <1>1, <1>2, <1>4, <1>5, <1>6 DEF Local, ReadsFresh, At, tables, OrderOf
<1> QED
  BY <1>6, <1>7, <1>8 DEF Step, Local

LEMMA RefundLockOrderStep ==
  ASSUME IInv, NEW r \in Request, RefundLockOrder(r)
  PROVE  Step(r)
<1> DEFINE row == req[r].row
           x == OrderOf(RefundReturn[row])
           q == [req[r] EXCEPT !.pc = "refundCommit", !.order = orderStatus[x]]
<1>1. RequestsTyped /\ TablesTyped /\ Local(r) /\ req[r] \in Requests
  BY DEF IInv, TypeOK, RequestsTyped
<1>2. At(r, "refundLockOrder")
  BY DEF RefundLockOrder
<1>3. x \in Order /\ x \in Row /\ orderStatus[x] \in OrderStatus
  BY <1>1, <1>2, KeysTyped, ParentRowsExist DEF Local, RowExists, At, Row, TablesTyped
<1>4. /\ q \in Requests
      /\ q.pc = "refundCommit" /\ q.row = row /\ q.order = orderStatus[x]
      /\ q.refund = req[r].refund /\ q.return = req[r].return
  BY <1>1, <1>3 DEF Requests, PC
<1>5. Acquire(r, x) /\ UNCHANGED tables /\ req' = [req EXCEPT ![r] = q]
  BY <1>1 DEF RefundLockOrder, RequestsTyped, Requests
<1> HIDE DEF q
<1>6. /\ RequestsTyped' /\ Frame(r) /\ req'[r] = q
      /\ RowExists(r)' /\ Checked(r)'
      /\ \A y \in Row : lock'[y] = r <=> Holds(r, y) \/ y = x
  BY <1>2, <1>3, <1>4, <1>5, TakeLock DEF At
<1>7. LocksMatch(r)'
  BY <1>2, <1>4, <1>6 DEF LocksMatch, Holds, At, OrderOf
<1>8. ReadsFresh(r)'
  BY <1>1, <1>2, <1>4, <1>5, <1>6 DEF Local, ReadsFresh, At, tables, OrderOf
<1> QED
  BY <1>6, <1>7, <1>8 DEF Step, Local

LEMMA OwnStep ==
  ASSUME IInv, NEW r \in Request, Start(r) \/ Continue(r) \/ Abort(r)
  PROVE  Step(r)
<1>1. CASE Abort(r)
  BY <1>1, RollbackStep DEF Abort, IInv, TypeOK, RequestsTyped
<1>2. CASE Continue(r)
  BY <1>2, StatementStep, CommitStep, LoadReturnStep, CreateLockStep, RejectLockReturnStep,
     RejectLockOrderStep, RefundLockRefundStep, RefundLockReturnStep, RefundLockOrderStep
  DEF Continue
<1> QED
  BY <1>1, <1>2, StartStep

-----------------------------------------------------------------------------
LEMMA InitInv == Init => IInv
<1> SUFFICES ASSUME Init PROVE IInv
  OBVIOUS
<1>1. WP!IInv
  <2>1. WP!Init
    BY DEF Init, W!Init, WP!Init, W!Absent, WP!Absent
  <2> QED
    BY <2>1, WP!InitInv, SameSchema
<1>2. RequestsTyped
  BY DEF Init, RequestsTyped, Idle, Requests, PC
<1>3. ASSUME NEW r \in Request PROVE Local(r)
  BY RowIds DEF Init, Idle, Local, RowExists, Checked, LocksMatch, Holds, ReadsFresh, At
<1> QED
  BY <1>1, <1>2, <1>3, SameSchema DEF IInv, TypeOK, RequestsTyped, WP!IInv

LEMMA StepInv == IInv /\ [Next]_vars => IInv'
<1> SUFFICES ASSUME IInv, [Next]_vars PROVE IInv'
  OBVIOUS
<1>1. WP!IInv' /\ RowsStay
  <2>1. [WP!Next]_(WP!tables)
    BY StepRefines
  <2>2. WP!IInv'
    BY <2>1, WP!StepInv, SameSchema DEF IInv
  <2> QED
    BY <2>1, <2>2, StepRowsStay
<1>2. TablesTyped'
  <2>1. WP!TablesTyped'
    BY <1>1 DEF WP!IInv
  <2> QED
    BY <2>1 DEF TablesTyped, WP!TablesTyped, OrderStatus, ReturnStatus, RefundStatus, Absent,
                WP!OrderStatus, WP!ReturnStatus, WP!RefundStatus, WP!Absent
<1>3. CASE UNCHANGED vars
  <2>1. RequestsTyped'
    BY <1>3 DEF vars, IInv, TypeOK, RequestsTyped
  <2>2. ASSUME NEW r \in Request PROVE Local(r)'
    BY <1>3, <2>2 DEF vars, IInv, Local, RowExists, Checked, LocksMatch, Holds,
                      ReadsFresh, At, OrderOf
  <2> QED
    BY <1>1, <1>2, <2>1, <2>2 DEF IInv, TypeOK, RequestsTyped
<1>4. ASSUME NEW r \in Request, Start(r) \/ Continue(r) \/ Abort(r) PROVE IInv'
  <2>1. Step(r)
    BY <1>4, OwnStep
  <2>2. ASSUME NEW s \in Request, s # r PROVE Local(s)'
    BY <1>1, <2>1, <2>2, OthersKeep DEF Step
  <2> QED
    BY <1>1, <1>2, <2>1, <2>2 DEF Step, IInv, TypeOK, RequestsTyped
<1> QED
  BY <1>3, <1>4 DEF Next

LEMMA Invariant == Spec => []IInv
BY InitInv, StepInv, PTL DEF Spec

\* The tables and the requests in flight are well typed, for any number of
\* concurrent requests.
THEOREM TypeCorrect == Spec => []TypeOK
<1>1. IInv => TypeOK
  BY DEF IInv
<1> QED
  BY <1>1, Invariant, PTL

\* Statuses read under SELECT ... FOR UPDATE are still true when the transaction
\* acts on them.
THEOREM ReadsStayFresh == Spec => []LockedReadsFresh
<1>1. IInv => LockedReadsFresh
  BY DEF IInv, Local, LockedReadsFresh
<1> QED
  BY <1>1, Invariant, PTL

\* The engine implements the atomic workflow.
THEOREM Refinement == Spec => ImplementsWorkflow
<1>1. Init => W!Init
  BY DEF Init
<1>2. IInv /\ [Next]_vars => [W!Next]_(W!tables)
  <2> SUFFICES ASSUME [WP!Next]_(WP!tables) PROVE [W!Next]_(W!tables)
    BY StepRefines
  <2>1. WP!Next => W!Next
    BY DEF WP!Next, WP!OrderStep, WP!InsertOrder, WP!CancelOrder, WP!UpdateOrderStatus,
      WP!ReturnStep, WP!CreateReturn, WP!RejectReturn, WP!AdvanceReturn,
      WP!RefundStep, WP!InsertRefund, WP!FailRefund, WP!CompleteRefund,
      WP!OrderOf, WP!LiveRefunds, WP!validTransitions, WP!validReturnTransitions,
      WP!DeskTargets, WP!OrderStatus, WP!ReturnStatus, WP!Absent,
      W!Next, W!OrderStep, W!InsertOrder, W!CancelOrder, W!UpdateOrderStatus,
      W!ReturnStep, W!CreateReturn, W!RejectReturn, W!AdvanceReturn,
      W!RefundStep, W!InsertRefund, W!FailRefund, W!CompleteRefund,
      W!OrderOf, W!LiveRefunds, W!validTransitions, W!validReturnTransitions,
      W!DeskTargets, W!OrderStatus, W!ReturnStatus, W!Absent
  <2> QED
    BY <2>1 DEF WP!tables, W!tables
<1> QED
  BY <1>1, <1>2, Invariant, PTL DEF Spec, ImplementsWorkflow, W!Spec

LEMMA InvMoney == IInv => Settled /\ PaidOnce /\ PendingRefundIsDue
<1> SUFFICES ASSUME IInv PROVE Settled /\ PaidOnce /\ PendingRefundIsDue
  OBVIOUS
<1>1. WP!Settled /\ WP!PaidOnce /\ WP!PendingRefundIsDue
  BY WP!InvImplies, SameSchema DEF IInv
<1> QED
  BY <1>1, SameSchema DEF Settled, PaidOnce, PendingRefundIsDue,
                          WP!Settled, WP!PaidOnce, WP!PendingRefundIsDue

\* However requests interleave, die or repeat, a refund, its return and its order
\* are settled together.
THEOREM SettledTogether == Spec => []Settled
BY InvMoney, Invariant, PTL

\* However requests interleave, die or repeat, an order is paid back at most once.
THEOREM OnePayment == Spec => []PaidOnce
BY InvMoney, Invariant, PTL

\* However requests interleave, die or repeat, a refund stays pending only while
\* its return is received and has no other live refund.
THEOREM PendingIsDue == Spec => []PendingRefundIsDue
BY InvMoney, Invariant, PTL

\* A status moves along the transition tables although requests decide by what
\* they read earlier.
THEOREM EngineMovesValid == Spec => TableMoves
<1>1. IInv /\ [Next]_vars => [ValidMove]_tables
  <2> SUFFICES ASSUME IInv, [Next]_vars, ~UNCHANGED tables PROVE ValidMove
    OBVIOUS
  <2>1. WP!TablesTyped /\ WP!Next
    BY StepRefines DEF IInv, WP!IInv, WP!tables, tables
  <2>2. WP!ValidMove
    BY <2>1, WP!StepMoves, SameSchema
  <2> QED
    BY <2>2, SameSchema DEF ValidMove, WP!ValidMove
<1> QED
  BY <1>1, Invariant, PTL DEF Spec, TableMoves

\* The requests of the engine receive goods and pay orders back as Settlement
\* says: the refinement of Workflow carried on by one level.
THEOREM EngineSettles == Spec => ImplementsSettlement
<1>1. Init => Promise!Init
  BY DEF Init, W!Init, W!Absent, Promise!Init, Back, Paid
<1>2. IInv /\ [Next]_vars => [Promise!Next]_<<Back, Paid>>
  <2> SUFFICES ASSUME IInv, [Next]_vars PROVE [Promise!Next]_<<Back, Paid>>
    OBVIOUS
  <2>1. WP!SettlementStep
    BY StepRefines, WP!StepSettles, SameSchema DEF IInv
  <2>2. /\ WP!Back = Back /\ WP!Paid = Paid
        /\ WP!Back' = Back' /\ WP!Paid' = Paid'
    BY DEF Back, WP!Back, Paid, WP!Paid
  <2>3. ASSUME NEW t \in Return, WP!Receives(t) PROVE Promise!Receive(t)
    BY <2>2, <2>3 DEF WP!Receives, Promise!Receive
  <2>4. ASSUME NEW f \in Refund, WP!Pays(f) PROVE Promise!Pay(f)
    BY <2>2, <2>4, SameSchema DEF WP!Pays, Promise!Pay, Paid
  <2> QED
    BY <2>1, <2>2, <2>3, <2>4 DEF WP!SettlementStep, Promise!Next
<1> QED
  BY <1>1, <1>2, Invariant, PTL DEF Spec, ImplementsSettlement, Promise!Spec

LEMMA ImplementsWP == Spec => WP!Spec
<1>1. Init => WP!Init
  BY DEF Init, W!Init, WP!Init, W!Absent, WP!Absent
<1> QED
  BY <1>1, StepRefines, Invariant, PTL DEF Spec, WP!Spec

\* An order that staff do not move once it was delivered is return_requested
\* exactly while one return of it is open, whatever requests interleave.
THEOREM EngineReturnsHold == Spec => []ReturnHoldsOrder
<1>1. WP!Spec => []WP!ReturnHoldsOrder
  BY WP!ReturnsHold, SameSchema
<1>2. ASSUME WP!ReturnHoldsOrder PROVE ReturnHoldsOrder
  <2> SUFFICES ASSUME NEW o \in Order, FulfilmentOnly(o)
               PROVE  /\ \A t, u \in ActiveReturnsOf(o) : t = u
                      /\ orderStatus[o] = "return_requested" <=> ActiveReturnsOf(o) # {}
    BY DEF ReturnHoldsOrder
  <2>1. WP!FulfilmentOnly(o)
    BY DEF FulfilmentOnly, WP!FulfilmentOnly, ReturnSide, WP!ReturnSide
  <2>2. WP!ActiveReturnsOf(o) = ActiveReturnsOf(o)
    BY SameSchema DEF ActiveReturnsOf, ActiveReturn, WP!ActiveReturnsOf, WP!ActiveReturn
  <2> QED
    BY <1>2, <2>1, <2>2 DEF WP!ReturnHoldsOrder
<1> QED
  BY <1>1, <1>2, ImplementsWP, PTL

\* An order has one return at most that was not rejected.
LEMMA KeptInvariant ==
  ASSUME ReopenedByRejection
  PROVE  Spec => []WP!OneKept
<1>1. WP!ReopenedByRejection
  BY DEF ReopenedByRejection, WP!ReopenedByRejection
<1>2. WP!Spec => []WP!OneKept
  BY <1>1, WP!KeptInvariant, SameSchema
<1> QED
  BY <1>2, ImplementsWP, PTL

\* However requests interleave, an order has two open returns only after a PATCH
\* took it from return_requested to delivered: statuses read too early never
\* let a second return in.
THEOREM EngineReturnsInTurn ==
  ASSUME ReopenedByRejection
  PROVE  Spec => []OneActiveReturn
<1>1. WP!OneKept => OneActiveReturn
  BY SameSchema
  DEF WP!OneKept, WP!Kept, WP!Absent, OneActiveReturn, ActiveReturnsOf, ActiveReturn
<1> QED
  BY <1>1, KeptInvariant, ReopenedByRejection, PTL

\* Who begins to work on a return has just found it.
LEMMA FoundReturn ==
  ASSUME IInv, Next, NEW r \in Request, At(r, "idle"), At(r, "loadReturn")'
  PROVE  req'[r].row \in Return /\ returnStatus[req'[r].row] # Absent
<1>1. PICK s \in Request : Start(s) \/ Continue(s) \/ Abort(s)
  BY DEF Next
<1>2. s = r
  <2> SUFFICES ASSUME s # r PROVE FALSE
    OBVIOUS
  <2>1. Frame(s)
    BY <1>1, OwnStep DEF Step
  <2> QED
    BY <2>1 DEF Frame, At
<1>3. Start(r)
  BY <1>1, <1>2
  DEF Abort, Continue, CasOrder, CreateLockOrder, CreateCommit, LoadReturn, CasReturn,
      RejectLockReturn, RejectLockOrder, RejectCommit, InsertRefund, FailRefund,
      RefundLockRefund, RefundLockReturn, RefundLockOrder, RefundCommit, At
<1> USE DEF IInv, TypeOK, RequestsTyped, Idle, At
<1>4. ASSUME NEW t \in Return, NEW want \in DeskTargets \cup {"rejected", "refund"},
             FindReturn(r, t, want)
      PROVE  req'[r].row \in Return /\ returnStatus[req'[r].row] # Absent
  BY <1>4 DEF FindReturn
<1>5. ASSUME NEW o \in Order, InsertOrder(r, o) \/ ReadForCancel(r, o) PROVE FALSE
  BY <1>5 DEF InsertOrder, ReadForCancel
<1>6. ASSUME NEW o \in Order, NEW to \in OrderStatus, ReadForStatus(r, o, to) PROVE FALSE
  BY <1>6 DEF ReadForStatus
<1>7. ASSUME NEW i \in Item, ReadForReturn(r, i) PROVE FALSE
  BY <1>7 DEF ReadForReturn
<1>8. ASSUME NEW f \in Refund, NEW outcome \in {"completed", "failed"},
             ReadForComplete(r, f, outcome)
      PROVE  FALSE
  BY <1>8 DEF ReadForComplete
<1> QED
  BY <1>3, <1>4, <1>5, <1>6, <1>7, <1>8 DEF Start

\* What the query without ORDER BY finds beside an open return of the item can only
\* be a rejected one, never one that was refunded.
LEMMA MisledByRejected ==
  ASSUME WP!OneKept, NEW t \in Return, returnStatus[t] \notin {Absent, "rejected"}
  PROVE  OpenIfAny(t)
<1> SUFFICES ASSUME returnStatus[t] \notin ActiveReturn, NEW u \in Return,
                    ReturnItem[u] = ReturnItem[t], returnStatus[u] \in ActiveReturn
             PROVE  FALSE
  BY DEF OpenIfAny
<1>1. WP!Kept(t) /\ WP!Kept(u)
  BY DEF WP!Kept, WP!Absent, Absent, ActiveReturn
<1>2. WP!OrderOf(t) = WP!OrderOf(u)
  BY DEF WP!OrderOf
<1> QED
  BY <1>1, <1>2 DEF WP!OneKept

\* What FindsOpenReturn fails for, once reopening an order is left to rejections: the
\* return a staff request works on is the open one of its item, or one that was
\* rejected. An item may have any number of returns; a refunded one is never taken
\* in place of the open one.
THEOREM OnlyRejectedMisleads ==
  ASSUME ReopenedByRejection
  PROVE  Spec => [][ \A r \in Request :
                       At(r, "idle") /\ At(r, "loadReturn")' =>
                         \/ OpenIfAny(req'[r].row)
                         \/ returnStatus[req'[r].row] = "rejected" ]_vars
<1>1. IInv /\ WP!OneKept /\ [Next]_vars =>
        [\A r \in Request :
           At(r, "idle") /\ At(r, "loadReturn")' =>
             \/ OpenIfAny(req'[r].row)
             \/ returnStatus[req'[r].row] = "rejected"]_vars
  <2> SUFFICES ASSUME IInv, WP!OneKept, Next, NEW r \in Request,
                      At(r, "idle"), At(r, "loadReturn")',
                      returnStatus[req'[r].row] # "rejected"
               PROVE  OpenIfAny(req'[r].row)
    OBVIOUS
  <2>1. req'[r].row \in Return /\ returnStatus[req'[r].row] # Absent
    BY FoundReturn
  <2> QED
    BY <2>1, MisledByRejected
<1> QED
  BY <1>1, Invariant, KeptInvariant, ReopenedByRejection, PTL DEF Spec

-----------------------------------------------------------------------------
(***************************************************************************)
(* Deadlock. Who holds an order waits for nothing; who holds a return      *)
(* waits at most for an order; who holds a refund, at most for a return or *)
(* an order. So no circle can begin at an order, then at a return, then at *)
(* a refund.                                                               *)
(***************************************************************************)
LEMMA LockOrder ==
  ASSUME IInv
  PROVE  /\ \A s \in Request, o \in Order : lock[o] = s => Wanted(s) = {}
         /\ \A s \in Request, t \in Return : lock[t] = s => Wanted(s) \subseteq Order
         /\ \A s \in Request, f \in Refund : lock[f] = s => Wanted(s) \subseteq Order \cup Return
<1> SUFFICES ASSUME NEW s \in Request, NEW x \in Row, lock[x] = s
             PROVE  /\ x \in Order => Wanted(s) = {}
                    /\ x \in Return => Wanted(s) \subseteq Order
                    /\ x \in Refund => Wanted(s) \subseteq Order \cup Return
  BY DEF Row
<1> DEFINE row == req[s].row
<1>1. Local(s) /\ Holds(s, x)
  BY DEF IInv, Local, LocksMatch
<1>2. CASE req[s].pc \in {"createCommit", "rejectCommit", "refundCommit"}
  BY <1>2 DEF Wanted, At
<1>3. CASE At(s, "rejectLockOrder")
  <2>1. x = row /\ row \in Return
    BY <1>1, <1>3 DEF Local, RowExists, Holds, At
  <2>2. Wanted(s) = {OrderOf(row)}
    BY <1>3 DEF Wanted, At
  <2> QED
    BY <2>1, <2>2, KeysTyped, RowIds
<1>4. CASE At(s, "refundLockReturn")
  <2>1. x = row /\ row \in Refund
    BY <1>1, <1>4 DEF Local, RowExists, Holds, At
  <2>2. Wanted(s) = {RefundReturn[row]}
    BY <1>4 DEF Wanted, At
  <2> QED
    BY <2>1, <2>2, KeysTyped, RowIds
<1>5. CASE At(s, "refundLockOrder")
  <2>1. x \in {row, RefundReturn[row]} /\ row \in Refund
    BY <1>1, <1>5 DEF Local, RowExists, Holds, At
  <2>2. Wanted(s) = {OrderOf(RefundReturn[row])}
    BY <1>5 DEF Wanted, At
  <2> QED
    BY <2>1, <2>2, KeysTyped, RowIds
<1> QED
  BY <1>1, <1>2, <1>3, <1>4, <1>5 DEF Holds, At

LEMMA WantedRows == ASSUME IInv, NEW r \in Request PROVE Wanted(r) \subseteq Row
<1>1. Local(r)
  BY DEF IInv
<1> QED
  BY <1>1, KeysTyped DEF Local, RowExists, Wanted, At, Row

LEMMA NoCircle == IInv => NoLockCycle
<1> SUFFICES ASSUME IInv, NEW S \in SUBSET Request, NEW r0 \in S,
                    \A r \in S : \E x \in Wanted(r) : lock[x] \in S
             PROVE  FALSE
  BY DEF NoLockCycle
<1>1. \A r \in S, o \in Order : lock[o] # r
  BY LockOrder
<1>2. \A r \in S, t \in Return : lock[t] # r
  BY <1>1, LockOrder
<1>3. \A r \in S, f \in Refund : lock[f] # r
  BY <1>1, <1>2, LockOrder
<1>4. PICK x \in Wanted(r0) : lock[x] \in S
  OBVIOUS
<1> QED
  BY <1>1, <1>2, <1>3, <1>4, WantedRows DEF Row

\* No set of transactions waits in a circle for each other's row locks.
THEOREM DeadlockFree == Spec => []NoLockCycle
BY NoCircle, Invariant, PTL

=============================================================================
