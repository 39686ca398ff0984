------------------------------- MODULE Engine -------------------------------
(***************************************************************************)
(* The operations of Workflow as the server runs them: any number of HTTP  *)
(* requests interleaved at every await, against PostgreSQL at its default  *)
(* isolation level READ COMMITTED.                                         *)
(*                                                                         *)
(* A request reads a row without a lock, keeps what it read across the     *)
(* await, and then either issues one compare-and-set UPDATE or runs a      *)
(* transaction that takes row locks with SELECT ... FOR UPDATE, checks the *)
(* statuses it read under the locks, and writes without checking again.    *)
(* Statuses a transaction relies on are therefore kept in the request, and *)
(* nothing but the locks keeps them true until COMMIT.                     *)
(*                                                                         *)
(* The statements of a transaction between the last lock and COMMIT are    *)
(* one step: their writes are invisible before COMMIT and can neither wait *)
(* nor be refused, and a failure between two of them rolls all of them     *)
(* back. A refused read (404, 409) changes nothing and is no step; a       *)
(* refused step of a started request ends it. Requests refused by          *)
(* requireAuth or by a role check never get this far.                      *)
(***************************************************************************)
EXTENDS Schema

CONSTANTS
  Request,  \* requests in flight; a slot is used again once it is idle
  None      \* no request, no row, no status

\* Ids of different tables are different, and None is none of them.
Row == Order \cup Return \cup Refund

ASSUME RowIds ==
  /\ Order \cap Return = {}
  /\ Order \cap Refund = {}
  /\ Return \cap Refund = {}
  /\ None \notin Row \cup Request

VARIABLES
  req,   \* what each request is about to do and what it has read
  lock   \* the transaction that holds a row FOR UPDATE, or None

vars == <<orderStatus, returnStatus, refundStatus, req, lock>>

PC == {"idle",
       "casOrder",                                       \* one UPDATE orders
       "createLockOrder", "createCommit",                \* createReturnRequestTransaction
       "loadReturn", "casReturn",                        \* one UPDATE return_requests
       "rejectLockReturn", "rejectLockOrder", "rejectCommit",
       "insertRefund", "failRefund",                     \* one INSERT, one UPDATE refunds
       "refundLockRefund", "refundLockReturn", "refundLockOrder", "refundCommit"}

\* row is the row of the URL; want is the status (or "refund") asked for;
\* order, return and refund are the statuses the request has read.
Idle == [pc |-> "idle", row |-> None, want |-> None,
         order |-> None, return |-> None, refund |-> None]

Requests ==
  [pc : PC, row : Row \cup Item \cup {None},
   want : OrderStatus \cup ReturnStatus \cup RefundStatus \cup {"refund", None},
   order : OrderStatus \cup {None},
   return : ReturnStatus \cup {None},
   refund : RefundStatus \cup {None}]

W == INSTANCE Workflow

Init ==
  /\ W!Init
  /\ req = [r \in Request |-> Idle]
  /\ lock = [x \in Row |-> None]

-----------------------------------------------------------------------------
At(r, pc) == req[r].pc = pc

Finish(r) == req' = [req EXCEPT ![r] = Idle]

\* A plain UPDATE waits for the row's lock like SELECT ... FOR UPDATE, then
\* evaluates its WHERE clause on the row as the holder left it.
Free(x) == lock[x] = None

Acquire(r, x) == Free(x) /\ lock' = [lock EXCEPT ![x] = r]

\* COMMIT and ROLLBACK give up every lock of the transaction.
ReleaseAll(r) == lock' = [x \in Row |-> IF lock[x] = r THEN None ELSE lock[x]]

\* Variant: the connection goes back to the pool inside its transaction.
KeepLocks(r) ==
  /\ Finish(r)
  /\ UNCHANGED <<tables, lock>>

Rollback(r) ==
  /\ ReleaseAll(r)
  /\ Finish(r)
  /\ UNCHANGED tables

-----------------------------------------------------------------------------
(***************************************************************************)
(* Orders                                                                  *)
(***************************************************************************)

\* createOrder: the order and its items appear at COMMIT; nothing else can
\* hold or want their rows before.
InsertOrder(r, o) ==
  /\ At(r, "idle")
  /\ orderStatus[o] = Absent
  /\ orderStatus' = [orderStatus EXCEPT ![o] = "pending"]
  /\ UNCHANGED <<returnStatus, refundStatus, req, lock>>

\* updateOrderStatus up to its compare-and-set.
ReadForStatus(r, o, to) ==
  /\ At(r, "idle")
  /\ <<orderStatus[o], to>> \in StaffMoves[o]
  /\ <<orderStatus[o], to>> \in validTransitions
  /\ req' = [req EXCEPT ![r] = [Idle EXCEPT !.pc = "casOrder", !.row = o,
                                            !.want = to, !.order = orderStatus[o]]]
  /\ UNCHANGED <<tables, lock>>

\* cancelOrder up to its compare-and-set.
ReadForCancel(r, o) ==
  /\ At(r, "idle")
  /\ orderStatus[o] \in {"pending", "confirmed"}
  /\ req' = [req EXCEPT ![r] = [Idle EXCEPT !.pc = "casOrder", !.row = o,
                                            !.want = "cancelled", !.order = orderStatus[o]]]
  /\ UNCHANGED <<tables, lock>>

\* Variant: UPDATE orders without AND status = $3.
BlindUpdate(r) ==
  LET o == req[r].row
  IN  /\ At(r, "casOrder")
      /\ Free(o)
      /\ orderStatus' = [orderStatus EXCEPT ![o] = req[r].want]
      /\ Finish(r)
      /\ UNCHANGED <<returnStatus, refundStatus, lock>>

CasOrder(r) ==
  LET o == req[r].row
  IN  /\ At(r, "casOrder")
      /\ Free(o)
      /\ IF orderStatus[o] = req[r].order
         THEN orderStatus' = [orderStatus EXCEPT ![o] = req[r].want]
         ELSE UNCHANGED orderStatus
      /\ Finish(r)
      /\ UNCHANGED <<returnStatus, refundStatus, lock>>

-----------------------------------------------------------------------------
(***************************************************************************)
(* Requesting a return                                                     *)
(***************************************************************************)

\* returnOrder up to its transaction.
ReadForReturn(r, i) ==
  /\ At(r, "idle")
  /\ orderStatus[ItemOrder[i]] = "delivered"
  /\ req' = [req EXCEPT ![r] = [Idle EXCEPT !.pc = "createLockOrder", !.row = i]]
  /\ UNCHANGED <<tables, lock>>

\* Variant: SELECT status without FOR UPDATE.
CreateReadOrder(r) ==
  LET o == ItemOrder[req[r].row]
  IN  /\ At(r, "createLockOrder")
      /\ Free(o)
      /\ req' = [req EXCEPT ![r].pc = "createCommit", ![r].order = orderStatus[o]]
      /\ UNCHANGED <<tables, lock>>

CreateLockOrder(r) ==
  LET o == ItemOrder[req[r].row]
  IN  /\ At(r, "createLockOrder")
      /\ Acquire(r, o)
      /\ req' = [req EXCEPT ![r].pc = "createCommit", ![r].order = orderStatus[o]]
      /\ UNCHANGED tables

\* Variant: UPDATE orders is sent with pool.query, on another connection.
CreateCommitOnPool(r) ==
  LET i == req[r].row
      o == ItemOrder[i]
  IN  /\ At(r, "createCommit")
      /\ req[r].order = "delivered" /\ Free(o)
      /\ \E t \in Return : /\ ReturnItem[t] = i /\ returnStatus[t] = Absent
                           /\ returnStatus' = [returnStatus EXCEPT ![t] = "pending"]
      /\ orderStatus' = [orderStatus EXCEPT ![o] = "return_requested"]
      /\ UNCHANGED refundStatus
      /\ ReleaseAll(r)
      /\ Finish(r)

\* INSERT, UPDATE orders, COMMIT. Without an unused id (the bound of the model)
\* the INSERT fails.
CreateCommit(r) ==
  LET i == req[r].row
      unused == {t \in Return : ReturnItem[t] = i /\ returnStatus[t] = Absent}
  IN  /\ At(r, "createCommit")
      /\ \/ /\ req[r].order = "delivered"
            /\ \E t \in unused : returnStatus' = [returnStatus EXCEPT ![t] = "pending"]
            /\ orderStatus' = [orderStatus EXCEPT ![ItemOrder[i]] = "return_requested"]
            /\ UNCHANGED refundStatus
            /\ ReleaseAll(r)
            /\ Finish(r)
         \/ /\ req[r].order # "delivered" \/ unused = {}
            /\ Rollback(r)

-----------------------------------------------------------------------------
(***************************************************************************)
(* Working on a return                                                     *)
(***************************************************************************)

\* findReturnItem: the query for an order and a product has no ORDER BY and
\* the route takes its first row, so any return of the item may be the one.
FindReturn(r, t, want) ==
  /\ At(r, "idle")
  /\ returnStatus[t] # Absent
  /\ req' = [req EXCEPT ![r] = [Idle EXCEPT !.pc = "loadReturn", !.row = t, !.want = want]]
  /\ UNCHANGED <<tables, lock>>

\* loadReturn, and the check of reviewReturn, applyReturnTransition or
\* processRefund.
LoadReturn(r) ==
  LET status == returnStatus[req[r].row]
      want == req[r].want
      next == CASE want = "refund" /\ status = "received" -> "insertRefund"
                [] want = "rejected" /\ status = "pending" -> "rejectLockReturn"
                [] want \in DeskTargets /\ <<status, want>> \in validReturnTransitions -> "casReturn"
                [] OTHER -> "idle"
  IN  /\ At(r, "loadReturn")
      /\ \/ /\ next = "idle"
            /\ Finish(r)
         \/ /\ next # "idle"
            /\ req' = [req EXCEPT ![r].pc = next, ![r].return = status]
      /\ UNCHANGED <<tables, lock>>

CasReturn(r) ==
  LET t == req[r].row
  IN  /\ At(r, "casReturn")
      /\ Free(t)
      /\ IF returnStatus[t] = req[r].return
         THEN returnStatus' = [returnStatus EXCEPT ![t] = req[r].want]
         ELSE UNCHANGED returnStatus
      /\ Finish(r)
      /\ UNCHANGED <<orderStatus, refundStatus, lock>>

RejectLockReturn(r) ==
  LET t == req[r].row
  IN  /\ At(r, "rejectLockReturn")
      /\ Free(t)
      /\ \/ /\ returnStatus[t] = "pending"
            /\ Acquire(r, t)
            /\ req' = [req EXCEPT ![r].pc = "rejectLockOrder", ![r].return = returnStatus[t]]
            /\ UNCHANGED tables
         \/ /\ returnStatus[t] # "pending"
            /\ Rollback(r)

RejectLockOrder(r) ==
  LET o == OrderOf(req[r].row)
  IN  /\ At(r, "rejectLockOrder")
      /\ Free(o)
      /\ \/ /\ orderStatus[o] = "return_requested"
            /\ Acquire(r, o)
            /\ req' = [req EXCEPT ![r].pc = "rejectCommit", ![r].order = orderStatus[o]]
            /\ UNCHANGED tables
         \/ /\ orderStatus[o] # "return_requested"
            /\ Rollback(r)

RejectCommit(r) ==
  LET t == req[r].row
  IN  /\ At(r, "rejectCommit")
      /\ returnStatus' = [returnStatus EXCEPT ![t] = "rejected"]
      /\ orderStatus' = [orderStatus EXCEPT ![OrderOf(t)] = "delivered"]
      /\ UNCHANGED refundStatus
      /\ ReleaseAll(r)
      /\ Finish(r)

-----------------------------------------------------------------------------
(***************************************************************************)
(* Refunds                                                                 *)
(***************************************************************************)

\* insertRefund. The unique index refuses a second live refund of the return
\* (409); the foreign key waits for a transaction that holds the return.
InsertRefund(r) ==
  LET t == req[r].row
      unused == {f \in Refund : RefundReturn[f] = t /\ refundStatus[f] = Absent}
  IN  /\ At(r, "insertRefund")
      /\ \/ /\ LiveRefunds(t) = {}
            /\ Free(t)
            /\ \E f \in unused : refundStatus' = [refundStatus EXCEPT ![f] = "pending"]
         \/ /\ LiveRefunds(t) # {} \/ unused = {}
            /\ UNCHANGED refundStatus
      /\ Finish(r)
      /\ UNCHANGED <<orderStatus, returnStatus, lock>>

\* completeRefund up to its UPDATE (outcome failed) or its transaction.
ReadForComplete(r, f, outcome) ==
  /\ At(r, "idle")
  /\ refundStatus[f] = "pending"
  /\ req' = [req EXCEPT ![r] =
       [Idle EXCEPT !.pc = IF outcome = "failed" THEN "failRefund" ELSE "refundLockRefund",
                    !.row = f]]
  /\ UNCHANGED <<tables, lock>>

\* Variant: a failed refund gets a status of returns.
FailAsRejected(r) ==
  LET f == req[r].row
  IN  /\ At(r, "failRefund")
      /\ Free(f)
      /\ IF refundStatus[f] = "pending"
         THEN refundStatus' = [refundStatus EXCEPT ![f] = "rejected"]
         ELSE UNCHANGED refundStatus
      /\ Finish(r)
      /\ UNCHANGED <<orderStatus, returnStatus, lock>>

FailRefund(r) ==
  LET f == req[r].row
  IN  /\ At(r, "failRefund")
      /\ Free(f)
      /\ IF refundStatus[f] = "pending"
         THEN refundStatus' = [refundStatus EXCEPT ![f] = "failed"]
         ELSE UNCHANGED refundStatus
      /\ Finish(r)
      /\ UNCHANGED <<orderStatus, returnStatus, lock>>

RefundLockRefund(r) ==
  LET f == req[r].row
  IN  /\ At(r, "refundLockRefund")
      /\ Acquire(r, f)
      /\ req' = [req EXCEPT ![r].pc = "refundLockReturn", ![r].refund = refundStatus[f]]
      /\ UNCHANGED tables

RefundLockReturn(r) ==
  LET t == RefundReturn[req[r].row]
  IN  /\ At(r, "refundLockReturn")
      /\ Acquire(r, t)
      /\ req' = [req EXCEPT ![r].pc = "refundLockOrder", ![r].return = returnStatus[t]]
      /\ UNCHANGED tables

RefundLockOrder(r) ==
  LET o == OrderOf(RefundReturn[req[r].row])
  IN  /\ At(r, "refundLockOrder")
      /\ Acquire(r, o)
      /\ req' = [req EXCEPT ![r].pc = "refundCommit", ![r].order = orderStatus[o]]
      /\ UNCHANGED tables

\* The checks come after all three locks, on the statuses read under them.
RefundCommit(r) ==
  LET f == req[r].row
      t == RefundReturn[f]
      due == /\ req[r].refund = "pending"
             /\ req[r].return = "received"
             /\ req[r].order = "return_requested"
  IN  /\ At(r, "refundCommit")
      /\ \/ /\ due
            /\ returnStatus' = [returnStatus EXCEPT ![t] = "refunded"]
            /\ orderStatus' = [orderStatus EXCEPT ![OrderOf(t)] = "returned"]
            /\ refundStatus' = [refundStatus EXCEPT ![f] = "completed"]
            /\ ReleaseAll(r)
            /\ Finish(r)
         \/ ~due /\ Rollback(r)

-----------------------------------------------------------------------------
\* A request dies at any point: a statement fails, its connection is lost, or
\* the server stops (every request dies, one after the other). PostgreSQL rolls
\* an open transaction back.
Abort(r) ==
  /\ ~At(r, "idle")
  /\ Rollback(r)

Start(r) ==
  \/ \E o \in Order : InsertOrder(r, o) \/ ReadForCancel(r, o)
  \/ \E o \in Order, to \in OrderStatus : ReadForStatus(r, o, to)
  \/ \E i \in Item : ReadForReturn(r, i)
  \/ \E t \in Return, want \in DeskTargets \cup {"rejected", "refund"} : FindReturn(r, t, want)
  \/ \E f \in Refund, outcome \in {"completed", "failed"} : ReadForComplete(r, f, outcome)

Continue(r) ==
  \/ CasOrder(r)
  \/ CreateLockOrder(r) \/ CreateCommit(r)
  \/ LoadReturn(r) \/ CasReturn(r)
  \/ RejectLockReturn(r) \/ RejectLockOrder(r) \/ RejectCommit(r)
  \/ InsertRefund(r) \/ FailRefund(r)
  \/ RefundLockRefund(r) \/ RefundLockReturn(r) \/ RefundLockOrder(r) \/ RefundCommit(r)

Next == \E r \in Request : Start(r) \/ Continue(r) \/ Abort(r)

Spec == Init /\ [][Next]_vars

-----------------------------------------------------------------------------
(***************************************************************************)
(* Properties                                                              *)
(***************************************************************************)

\* The tables and the requests in flight hold values of their types.
TypeOK ==
  /\ TablesTyped
  /\ req \in [Request -> Requests]
  /\ lock \in [Row -> Request \cup {None}]

\* Every interleaving of requests has the effect of the operations one after
\* the other: no step of a request changes the tables in a way that the same
\* operation, run alone in that state, could not.
ImplementsWorkflow == W!Spec

ReadsFresh(r) ==
  LET row == req[r].row
  IN  /\ At(r, "createCommit") =>
           orderStatus[ItemOrder[row]] = req[r].order
      /\ At(r, "rejectLockOrder") \/ At(r, "rejectCommit") =>
           returnStatus[row] = req[r].return
      /\ At(r, "rejectCommit") =>
           orderStatus[OrderOf(row)] = req[r].order
      /\ At(r, "refundLockReturn") \/ At(r, "refundLockOrder") \/ At(r, "refundCommit") =>
           refundStatus[row] = req[r].refund
      /\ At(r, "refundLockOrder") \/ At(r, "refundCommit") =>
           returnStatus[RefundReturn[row]] = req[r].return
      /\ At(r, "refundCommit") =>
           orderStatus[OrderOf(RefundReturn[row])] = req[r].order

\* The statuses a transaction is about to act on without checking again are
\* still those of the rows: no other request wrote them since they were read.
LockedReadsFresh == \A r \in Request : ReadsFresh(r)

\* The row a request needs unlocked for its next step.
Wanted(r) ==
  LET row == req[r].row
  IN  CASE req[r].pc \in {"casOrder", "casReturn", "rejectLockReturn",
                          "failRefund", "refundLockRefund"} -> {row}
        [] At(r, "insertRefund") -> IF LiveRefunds(row) = {} THEN {row} ELSE {}
        [] At(r, "createLockOrder") -> {ItemOrder[row]}
        [] At(r, "rejectLockOrder") -> {OrderOf(row)}
        [] At(r, "refundLockReturn") -> {RefundReturn[row]}
        [] At(r, "refundLockOrder") -> {OrderOf(RefundReturn[row])}
        [] OTHER -> {}

\* No set of requests waits in a circle for each other's row locks: the
\* transactions take refund before return before order.
NoLockCycle ==
  ~ \E S \in SUBSET Request :
      /\ S # {}
      /\ \A r \in S : \E x \in Wanted(r) : lock[x] \in S

\* Of the returns of an item, t is the open one, or none is open.
OpenIfAny(t) ==
  \/ returnStatus[t] \in ActiveReturn
  \/ \A u \in Return : ReturnItem[u] = ReturnItem[t] => returnStatus[u] \notin ActiveReturn

\* A staff request for an order item works on the return of the item that is
\* open, if there is one: a return that was requested again after the first was
\* rejected can be brought to its end (README.md:731). findReturnItem takes any.
FindsOpenReturn ==
  [][ \A r \in Request :
        At(r, "idle") /\ At(r, "loadReturn")' => OpenIfAny(req'[r].row) ]_vars

=============================================================================
