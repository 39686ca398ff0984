--------------------------- MODULE WorkflowProofs ---------------------------
(***************************************************************************)
(* Proofs that the invariants of module Workflow hold for any number of    *)
(* orders, items, returns and refunds, and any StaffMoves.                 *)
(***************************************************************************)
EXTENDS Workflow, TLAPS

-----------------------------------------------------------------------------
(***************************************************************************)
(* The inductive invariant. What protects PaidOnce is that a second refund *)
(* of an order would need the order to be return_requested again, and an   *)
(* order with a refunded return is returned, which no transition leaves.   *)
(***************************************************************************)

\* The partial unique index of refunds.
OneLiveRefund ==
  \A f, g \in Refund :
    /\ RefundReturn[f] = RefundReturn[g]
    /\ refundStatus[f] \notin {Absent, "failed"}
    /\ refundStatus[g] \notin {Absent, "failed"}
    => f = g

PendingIsReceived ==
  \A f \in Refund :
    refundStatus[f] = "pending" => returnStatus[RefundReturn[f]] = "received"

RefundedHasCompleted ==
  \A t \in Return : returnStatus[t] = "refunded" =>
    \E f \in Refund : RefundReturn[f] = t /\ refundStatus[f] = "completed"

CompletedIsRefunded ==
  \A f \in Refund :
    refundStatus[f] = "completed" => returnStatus[RefundReturn[f]] = "refunded"

RefundedIsReturned ==
  \A t \in Return :
    returnStatus[t] = "refunded" => orderStatus[OrderOf(t)] = "returned"

OneRefundedReturn ==
  \A t, u \in Return :
    /\ returnStatus[t] = "refunded"
    /\ returnStatus[u] = "refunded"
    /\ OrderOf(t) = OrderOf(u)
    => t = u

\* The row a foreign key refers to exists.
ParentsExist ==
  /\ \A t \in Return : returnStatus[t] # Absent => orderStatus[OrderOf(t)] # Absent
  /\ \A f \in Refund : refundStatus[f] # Absent => returnStatus[RefundReturn[f]] # Absent

IInv ==
  /\ TablesTyped
  /\ ParentsExist
  /\ OneLiveRefund
  /\ PendingIsReceived
  /\ RefundedHasCompleted
  /\ CompletedIsRefunded
  /\ RefundedIsReturned
  /\ OneRefundedReturn

-----------------------------------------------------------------------------
\* The foreign keys lead from refunds to returns to orders.
LEMMA KeysTyped ==
  /\ \A t \in Return : OrderOf(t) \in Order
  /\ \A f \in Refund : RefundReturn[f] \in Return
BY ForeignKeys DEF OrderOf

\* The invariant implies the properties that the runs check.
LEMMA InvImplies ==
  ASSUME IInv
  PROVE  Settled /\ PaidOnce /\ PendingRefundIsDue
<1>1. Settled
  BY DEF IInv, Settled, RefundedHasCompleted, CompletedIsRefunded, RefundedIsReturned
<1>2. PaidOnce
  <2> SUFFICES ASSUME NEW f \in Refund, NEW g \in Refund,
                      refundStatus[f] = "completed", refundStatus[g] = "completed",
                      OrderOf(RefundReturn[f]) = OrderOf(RefundReturn[g])
               PROVE  f = g
    BY DEF PaidOnce
  <2>1. RefundReturn[f] = RefundReturn[g]
    BY KeysTyped DEF IInv, CompletedIsRefunded, OneRefundedReturn
  <2> QED
    BY <2>1 DEF IInv, OneLiveRefund, Absent
<1>3. PendingRefundIsDue
  BY DEF IInv, PendingRefundIsDue, PendingIsReceived, OneLiveRefund, LiveRefunds, Absent
<1> QED
  BY <1>1, <1>2, <1>3

LEMMA InitInv == Init => IInv
<1> SUFFICES ASSUME Init PROVE IInv
  OBVIOUS
<1> USE DEF Init, Absent
<1>1. TablesTyped /\ ParentsExist
  BY Statuses DEF TablesTyped, ParentsExist, OrderStatus
<1>2. OneLiveRefund /\ PendingIsReceived /\ CompletedIsRefunded
  BY DEF OneLiveRefund, PendingIsReceived, CompletedIsRefunded
<1>3. RefundedHasCompleted /\ RefundedIsReturned /\ OneRefundedReturn
  BY DEF RefundedHasCompleted, RefundedIsReturned, OneRefundedReturn
<1> QED
  BY <1>1, <1>2, <1>3 DEF IInv

-----------------------------------------------------------------------------
\* A step on an order row alone takes no order out of "returned".
LEMMA OrderStepInv ==
  ASSUME IInv, NEW o \in Order, OrderStep(o)
  PROVE  IInv'
<1>1. PICK to \in OrderStatus :
        /\ orderStatus' = [orderStatus EXCEPT ![o] = to]
        /\ orderStatus[o] # "returned"
        /\ UNCHANGED <<returnStatus, refundStatus>>
  BY DEF OrderStep, InsertOrder, UpdateOrderStatus, CancelOrder, validTransitions,
         OrderStatus, Absent
<1>2. TablesTyped'
  BY <1>1 DEF IInv, TablesTyped
<1>3. RefundedIsReturned' /\ ParentsExist'
  BY <1>1, KeysTyped DEF OrderStatus, Absent, ParentsExist, IInv, TablesTyped, RefundedIsReturned, OrderOf
<1>4. (OneLiveRefund /\ PendingIsReceived /\ RefundedHasCompleted
        /\ CompletedIsRefunded /\ OneRefundedReturn)'
  BY <1>1 DEF IInv, OneLiveRefund, PendingIsReceived, RefundedHasCompleted,
              CompletedIsRefunded, OneRefundedReturn, OrderOf
<1> QED
  BY <1>2, <1>3, <1>4 DEF IInv

\* A step on a return moves none into or out of "received with a pending refund"
\* and none into "refunded".
LEMMA ReturnStepInv ==
  ASSUME IInv, NEW t \in Return, ReturnStep(t)
  PROVE  IInv'
<1>1. PICK to \in ReturnStatus \ {"refunded"} :
        /\ returnStatus' = [returnStatus EXCEPT ![t] = to]
        /\ returnStatus[t] \notin {"received", "refunded"}
        /\ UNCHANGED refundStatus
  BY DEF ReturnStep, CreateReturn, RejectReturn, AdvanceReturn, DeskTargets,
         validReturnTransitions, ReturnStatus, Absent
<1>2. /\ orderStatus' \in [Order -> OrderStatus \cup {Absent}]
      /\ orderStatus[OrderOf(t)] # Absent \/ returnStatus[t] # Absent
      /\ \A o \in Order : orderStatus[o] # Absent => orderStatus'[o] # Absent
      /\ \A o \in Order : orderStatus[o] = "returned" => orderStatus'[o] = "returned"
  BY KeysTyped DEF ReturnStep, CreateReturn, RejectReturn, AdvanceReturn, IInv,
                   TablesTyped, OrderStatus, validReturnTransitions, Absent
<1>3. TablesTyped' /\ ParentsExist'
  BY <1>1, <1>2, KeysTyped DEF IInv, TablesTyped, ParentsExist, OrderOf, ReturnStatus, Absent
<1>4. \A u \in Return :
        /\ returnStatus'[u] = "refunded" <=> returnStatus[u] = "refunded"
        /\ returnStatus[u] = "received" => returnStatus'[u] = "received"
  BY <1>1 DEF IInv, TablesTyped
<1>5. (OneLiveRefund /\ PendingIsReceived)'
  BY <1>1, <1>4, KeysTyped DEF IInv, OneLiveRefund, PendingIsReceived
<1>6. (RefundedHasCompleted /\ CompletedIsRefunded)'
  BY <1>1, <1>4, KeysTyped DEF IInv, RefundedHasCompleted, CompletedIsRefunded
<1>7. (RefundedIsReturned /\ OneRefundedReturn)'
  BY <1>2, <1>4, KeysTyped DEF IInv, RefundedIsReturned, OneRefundedReturn, OrderOf
<1> QED
  BY <1>3, <1>5, <1>6, <1>7 DEF IInv

LEMMA RefundStepInv ==
  ASSUME IInv, NEW f \in Refund, RefundStep(f)
  PROVE  IInv'
<1> DEFINE t == RefundReturn[f]
<1> t \in Return /\ OrderOf(t) \in Order
  BY KeysTyped
<1>1. CASE InsertRefund(f)
  <2>1. TablesTyped' /\ ParentsExist'
    BY <1>1, KeysTyped DEF InsertRefund, IInv, TablesTyped, ParentsExist, RefundStatus,
                           OrderOf, Absent
  <2>2. OneLiveRefund'
    BY <1>1 DEF InsertRefund, IInv, TablesTyped, OneLiveRefund, LiveRefunds, Absent
  <2>3. PendingIsReceived'
    BY <1>1 DEF InsertRefund, IInv, TablesTyped, PendingIsReceived
  <2>4. (RefundedHasCompleted /\ CompletedIsRefunded)'
    BY <1>1 DEF InsertRefund, IInv, TablesTyped, RefundedHasCompleted,
                CompletedIsRefunded, Absent
  <2>5. (RefundedIsReturned /\ OneRefundedReturn)'
    BY <1>1 DEF InsertRefund, IInv, RefundedIsReturned, OneRefundedReturn, OrderOf
  <2> QED
    BY <2>1, <2>2, <2>3, <2>4, <2>5 DEF IInv
<1>2. CASE FailRefund(f)
  <2>1. TablesTyped' /\ ParentsExist'
    BY <1>2, KeysTyped DEF FailRefund, IInv, TablesTyped, ParentsExist, RefundStatus,
                           OrderOf, Absent
  <2>2. OneLiveRefund'
    BY <1>2 DEF FailRefund, IInv, TablesTyped, OneLiveRefund, Absent
  <2>3. PendingIsReceived'
    BY <1>2 DEF FailRefund, IInv, TablesTyped, PendingIsReceived
  <2>4. (RefundedHasCompleted /\ CompletedIsRefunded)'
    BY <1>2 DEF FailRefund, IInv, TablesTyped, RefundedHasCompleted, CompletedIsRefunded
  <2>5. (RefundedIsReturned /\ OneRefundedReturn)'
    BY <1>2 DEF FailRefund, IInv, RefundedIsReturned, OneRefundedReturn, OrderOf
  <2> QED
    BY <2>1, <2>2, <2>3, <2>4, <2>5 DEF IInv
<1>3. CASE CompleteRefund(f)
  <2>1. /\ refundStatus[f] = "pending" /\ returnStatus[t] = "received"
        /\ orderStatus[OrderOf(t)] = "return_requested"
        /\ returnStatus' = [returnStatus EXCEPT ![t] = "refunded"]
        /\ orderStatus' = [orderStatus EXCEPT ![OrderOf(t)] = "returned"]
        /\ refundStatus' = [refundStatus EXCEPT ![f] = "completed"]
    BY <1>3 DEF CompleteRefund
  <2>2. TablesTyped' /\ ParentsExist'
    BY <2>1, KeysTyped DEF IInv, TablesTyped, ParentsExist, OrderStatus, ReturnStatus,
                           RefundStatus, OrderOf, Absent
  <2>3. OneLiveRefund'
    BY <2>1 DEF IInv, TablesTyped, OneLiveRefund, Absent
  <2>4. PendingIsReceived'
    <3> SUFFICES ASSUME NEW g \in Refund, refundStatus'[g] = "pending"
                 PROVE  returnStatus'[RefundReturn[g]] = "received"
      BY DEF PendingIsReceived
    <3>1. g # f /\ refundStatus[g] = "pending"
      BY <2>1 DEF IInv, TablesTyped
    <3>2. RefundReturn[g] # t
      BY <2>1, <3>1 DEF IInv, OneLiveRefund, Absent
    <3> QED
      BY <2>1, <3>1, <3>2, KeysTyped DEF IInv, TablesTyped, PendingIsReceived
  <2>5. RefundedHasCompleted'
    BY <2>1 DEF IInv, TablesTyped, RefundedHasCompleted
  <2>6. CompletedIsRefunded'
    BY <2>1, KeysTyped DEF IInv, TablesTyped, CompletedIsRefunded
  <2>7. \A u \in Return : returnStatus[u] = "refunded" => OrderOf(u) # OrderOf(t)
    BY <2>1 DEF IInv, RefundedIsReturned
  <2>8. (RefundedIsReturned /\ OneRefundedReturn)'
    BY <2>1, <2>7, KeysTyped DEF IInv, TablesTyped, RefundedIsReturned,
                                 OneRefundedReturn, OrderOf
  <2> QED
    BY <2>2, <2>3, <2>4, <2>5, <2>6, <2>8 DEF IInv
<1> QED
  BY <1>1, <1>2, <1>3 DEF RefundStep

LEMMA StepInv == IInv /\ [Next]_tables => IInv'
<1> SUFFICES ASSUME IInv, [Next]_tables PROVE IInv'
  OBVIOUS
<1>1. CASE UNCHANGED tables
  BY <1>1 DEF tables, IInv, TablesTyped, ParentsExist, OneLiveRefund, PendingIsReceived,
              RefundedHasCompleted, CompletedIsRefunded, RefundedIsReturned,
              OneRefundedReturn, OrderOf
<1>2. CASE Next
  BY <1>2, OrderStepInv, ReturnStepInv, RefundStepInv DEF Next
<1> QED
  BY <1>1, <1>2

\* Status columns hold statuses of types.ts.
THEOREM TypeCorrect == Spec => []TablesTyped
<1>1. IInv => TablesTyped
  BY DEF IInv
<1> QED
  BY <1>1, InitInv, StepInv, PTL DEF Spec

LEMMA Invariant == Spec => []IInv
BY InitInv, StepInv, PTL DEF Spec

\* completeRefundTransaction settles refund, return and order together: none is
\* ever settled without the others.
THEOREM SettledTogether == Spec => []Settled
BY InvImplies, Invariant, PTL

\* At most one refund of an order is ever completed, whatever was requested,
\* rejected, failed and moved by staff before.
THEOREM OnePayment == Spec => []PaidOnce
BY InvImplies, Invariant, PTL

\* A pending refund is for a received return and the only live one of it
\* (insertRefund and the partial unique index).
THEOREM PendingIsDue == Spec => []PendingRefundIsDue
BY InvImplies, Invariant, PTL

-----------------------------------------------------------------------------
(***************************************************************************)
(* The workflow implements Settlement. Only AdvanceReturn to "received"    *)
(* adds to Back; CompleteRefund adds to Paid, and finds no earlier payment *)
(* of the order, for that would have left the order returned.              *)
(***************************************************************************)
Receives(t) == Back' = Back \cup {t} /\ Paid' = Paid

Pays(f) ==
  /\ RefundReturn[f] \in Back
  /\ \A g \in Paid : OrderOf(RefundReturn[g]) # OrderOf(RefundReturn[f])
  /\ Paid' = Paid \cup {f} /\ Back' = Back

SettlementStep ==
  \/ \E t \in Return : Receives(t)
  \/ \E f \in Refund : Pays(f)
  \/ UNCHANGED <<Back, Paid>>

LEMMA StepSettles == IInv /\ [Next]_tables => SettlementStep
<1> SUFFICES ASSUME IInv, [Next]_tables PROVE SettlementStep
  OBVIOUS
<1>1. CASE UNCHANGED tables
  BY <1>1 DEF tables, Back, Paid, SettlementStep
<1>2. ASSUME NEW o \in Order, OrderStep(o) PROVE UNCHANGED <<Back, Paid>>
  BY <1>2 DEF OrderStep, InsertOrder, CancelOrder, UpdateOrderStatus, Back, Paid
<1>3. ASSUME NEW t \in Return, ReturnStep(t) PROVE Receives(t) \/ UNCHANGED <<Back, Paid>>
  <2>1. PICK to \in ReturnStatus \ {"refunded"} :
          /\ returnStatus' = [returnStatus EXCEPT ![t] = to]
          /\ returnStatus[t] \notin {"received", "refunded"}
          /\ UNCHANGED refundStatus
    BY <1>3 DEF ReturnStep, CreateReturn, RejectReturn, AdvanceReturn, DeskTargets,
                validReturnTransitions, ReturnStatus, Absent
  <2>2. Paid' = Paid
    BY <2>1 DEF Paid
  <2>3. Back' = IF to = "received" THEN Back \cup {t} ELSE Back
    BY <2>1 DEF Back, IInv, TablesTyped
  <2> QED
    BY <2>2, <2>3 DEF Receives
<1>4. ASSUME NEW f \in Refund, InsertRefund(f) \/ FailRefund(f)
      PROVE  UNCHANGED <<Back, Paid>>
  BY <1>4 DEF InsertRefund, FailRefund, Back, Paid, IInv, TablesTyped, Absent
<1>5. ASSUME NEW f \in Refund, CompleteRefund(f) PROVE Pays(f)
  <2> DEFINE t == RefundReturn[f]
  <2>1. t \in Return /\ t \in Back
    BY <1>5, KeysTyped DEF CompleteRefund, Back
  <2>2. ASSUME NEW g \in Paid PROVE OrderOf(RefundReturn[g]) # OrderOf(t)
    <3>1. orderStatus[OrderOf(RefundReturn[g])] = "returned"
      BY KeysTyped DEF Paid, IInv, CompletedIsRefunded, RefundedIsReturned
    <3> QED
      BY <1>5, <3>1 DEF CompleteRefund
  <2>3. Paid' = Paid \cup {f} /\ Back' = Back
    BY <1>5, <2>1 DEF CompleteRefund, Back, Paid, IInv, TablesTyped
  <2> QED
    BY <2>1, <2>2, <2>3 DEF Pays
<1> QED
  BY <1>1, <1>2, <1>3, <1>4, <1>5 DEF Next, RefundStep, SettlementStep

LEMMA NothingSettled == Init => Back = {} /\ Paid = {}
BY DEF Init, Back, Paid, Absent

\* Every operation is, for the money, a receipt of goods, a payment or nothing.
THEOREM Settles == Spec => ImplementsSettlement
<1>1. Init => Promise!Init
  BY NothingSettled DEF Promise!Init
<1>2. SettlementStep => [Promise!Next]_<<Back, Paid>>
  BY KeysTyped DEF SettlementStep, Receives, Pays, Paid, Promise!Next, Promise!Receive, Promise!Pay
<1> QED
  BY <1>1, <1>2, StepSettles, Invariant, PTL DEF Spec, ImplementsSettlement, Promise!Spec

-----------------------------------------------------------------------------
LEMMA StepMoves == TablesTyped /\ Next => ValidMove
<1> SUFFICES ASSUME TablesTyped, Next PROVE ValidMove
  OBVIOUS
<1> USE DEF ValidMove, TablesTyped
<1>1. ASSUME NEW o \in Order, OrderStep(o) PROVE ValidMove
  BY <1>1 DEF OrderStep, InsertOrder, CancelOrder, UpdateOrderStatus, validTransitions
<1>2. ASSUME NEW t \in Return, ReturnStep(t) PROVE ValidMove
  <2>1. CASE CreateReturn(t)
    BY <2>1, KeysTyped DEF CreateReturn, validTransitions
  <2>2. CASE RejectReturn(t)
    BY <2>2, KeysTyped DEF RejectReturn, validTransitions, validReturnTransitions
  <2>3. ASSUME NEW to \in ReturnStatus, AdvanceReturn(t, to) PROVE ValidMove
    BY <2>3 DEF AdvanceReturn
  <2> QED
    BY <1>2, <2>1, <2>2, <2>3 DEF ReturnStep
<1>3. ASSUME NEW f \in Refund, RefundStep(f) PROVE ValidMove
  BY <1>3, KeysTyped DEF RefundStep, InsertRefund, FailRefund, CompleteRefund,
                         validTransitions, validReturnTransitions
<1> QED
  BY <1>1, <1>2, <1>3 DEF Next

\* Statuses move along validTransitions and validReturnTransitions only, the
\* writes of the SQL transactions included, and no settled refund moves again.
THEOREM MovesValid == Spec => TableMoves
<1>1. IInv /\ [Next]_tables => [ValidMove]_tables
  BY StepMoves DEF IInv
<1> QED
  BY <1>1, InitInv, StepInv, PTL DEF Spec, TableMoves

-----------------------------------------------------------------------------
(***************************************************************************)
(* When PATCH requests stay away from delivered orders, the order and its  *)
(* returns move in step.                                                   *)
(***************************************************************************)
Active(t) == returnStatus[t] \in ActiveReturn

Held(o) ==
  /\ \A t, u \in Return :
       Active(t) /\ Active(u) /\ OrderOf(t) = o /\ OrderOf(u) = o => t = u
  /\ \A t \in Return : Active(t) /\ OrderOf(t) = o => orderStatus[o] = "return_requested"
  /\ orderStatus[o] = "return_requested" => \E t \in Return : OrderOf(t) = o /\ Active(t)

Hold == \A o \in Order : FulfilmentOnly(o) => Held(o)

LEMMA HoldIsReturnHoldsOrder == Hold <=> ReturnHoldsOrder
<1>1. ASSUME NEW o \in Order
      PROVE  Held(o) <=>
               /\ \A t, u \in ActiveReturnsOf(o) : t = u
               /\ orderStatus[o] = "return_requested" <=> ActiveReturnsOf(o) # {}
  BY DEF Held, Active, ActiveReturnsOf
<1> QED
  BY <1>1 DEF Hold, ReturnHoldsOrder

\* A step keeps an order held that no PATCH reaches once it is delivered.
LEMMA HoldStep ==
  ASSUME TablesTyped, Next, NEW p \in Order, FulfilmentOnly(p), Held(p)
  PROVE  Held(p)'
<1> USE KeysTyped DEF Held, Active, ActiveReturn, TablesTyped, OrderOf
<1>1. ASSUME NEW o \in Order, OrderStep(o) PROVE Held(p)'
  <2>1. PICK to \in OrderStatus :
          /\ orderStatus' = [orderStatus EXCEPT ![o] = to]
          /\ o = p => orderStatus[o] # "return_requested" /\ to # "return_requested"
          /\ UNCHANGED returnStatus
    <3>1. CASE InsertOrder(o)
      BY <3>1 DEF InsertOrder, OrderStatus, Absent
    <3>2. CASE CancelOrder(o)
      BY <3>2 DEF CancelOrder, OrderStatus
    <3>3. ASSUME NEW to \in OrderStatus, UpdateOrderStatus(o, to)
          PROVE  /\ orderStatus' = [orderStatus EXCEPT ![o] = to]
                 /\ o = p => orderStatus[o] # "return_requested" /\ to # "return_requested"
                 /\ UNCHANGED returnStatus
      <4>1. o = p => orderStatus[o] \notin {"delivered", "return_requested", "returned"}
        BY <3>3 DEF UpdateOrderStatus, FulfilmentOnly, ReturnSide
      <4> QED
        BY <3>3, <4>1 DEF UpdateOrderStatus, validTransitions
    <3> QED
      BY <1>1, <3>1, <3>2, <3>3 DEF OrderStep
  <2> QED
    BY <2>1
<1>2. ASSUME NEW t \in Return, CreateReturn(t) PROVE Held(p)'
  BY <1>2 DEF CreateReturn
<1>3. ASSUME NEW t \in Return, RejectReturn(t) PROVE Held(p)'
  BY <1>3 DEF RejectReturn
<1>4. ASSUME NEW t \in Return, NEW to \in ReturnStatus, AdvanceReturn(t, to) PROVE Held(p)'
  <2>1. /\ Active(t) /\ Active(t)'
        /\ UNCHANGED orderStatus
        /\ \A u \in Return \ {t} : returnStatus'[u] = returnStatus[u]
    BY <1>4 DEF AdvanceReturn, DeskTargets, validReturnTransitions
  <2>2. \A u \in Return : Active(u)' <=> Active(u)
    BY <2>1
  <2> QED
    BY <2>1, <2>2
<1>5. ASSUME NEW f \in Refund, RefundStep(f) PROVE Held(p)'
  <2>1. CASE InsertRefund(f)
    BY <2>1 DEF InsertRefund
  <2>2. CASE FailRefund(f)
    BY <2>2 DEF FailRefund
  <2>3. CASE CompleteRefund(f)
    BY <2>3 DEF CompleteRefund
  <2> QED
    BY <1>5, <2>1, <2>2, <2>3 DEF RefundStep
<1> QED
  BY <1>1, <1>2, <1>3, <1>4, <1>5 DEF Next, ReturnStep

\* An order that no PATCH reaches once it is delivered is return_requested exactly
\* while one of its returns is open, whatever staff do to other orders.
THEOREM ReturnsHold == Spec => []ReturnHoldsOrder
<1>1. Init => Hold
  <2> SUFFICES ASSUME Init, NEW o \in Order PROVE Held(o)
    BY DEF Hold
  <2>1. orderStatus[o] # "return_requested"
    BY Statuses DEF Init, Absent
  <2>2. \A t \in Return : ~Active(t)
    BY DEF Init, Active, ActiveReturn, Absent
  <2> QED
    BY <2>1, <2>2 DEF Held
<1>2. IInv /\ Hold /\ [Next]_tables => Hold'
  <2> SUFFICES ASSUME IInv, Hold, [Next]_tables, NEW o \in Order, FulfilmentOnly(o)
               PROVE  Held(o)'
    BY DEF Hold, FulfilmentOnly
  <2>1. Held(o)
    BY DEF Hold
  <2>2. CASE UNCHANGED tables
    BY <2>1, <2>2 DEF tables, Held, Active, OrderOf
  <2> QED
    BY <2>1, <2>2, HoldStep DEF IInv
<1> QED
  BY <1>1, <1>2, InitInv, StepInv, HoldIsReturnHoldsOrder, PTL DEF Spec

-----------------------------------------------------------------------------
(***************************************************************************)
(* What OneActiveReturn needs. Staff may move orders to return_requested   *)
(* and to returned by hand; only the way back to delivered must be left to *)
(* rejections.                                                             *)
(***************************************************************************)
Kept(t) == returnStatus[t] \notin {Absent, "rejected"}

\* No order has two returns that were not rejected, and while it has one it is not
\* delivered, so that no other can be requested.
OneKept ==
  /\ \A t, u \in Return : Kept(t) /\ Kept(u) /\ OrderOf(t) = OrderOf(u) => t = u
  /\ \A t \in Return : Kept(t) => orderStatus[OrderOf(t)] \in {"return_requested", "returned"}

LEMMA OneKeptStep ==
  ASSUME ReopenedByRejection, TablesTyped, OneKept, Next
  PROVE  OneKept'
<1> USE KeysTyped DEF OneKept, Kept, TablesTyped, OrderOf
<1>1. ASSUME NEW o \in Order, OrderStep(o) PROVE OneKept'
  <2>1. /\ \E to : orderStatus' = [orderStatus EXCEPT ![o] = to]
        /\ orderStatus[o] \in {"return_requested", "returned"} =>
             orderStatus'[o] \in {"return_requested", "returned"}
        /\ UNCHANGED returnStatus
    <3>1. CASE InsertOrder(o)
      BY <3>1 DEF InsertOrder, Absent
    <3>2. CASE CancelOrder(o)
      BY <3>2 DEF CancelOrder
    <3>3. ASSUME NEW to \in OrderStatus, UpdateOrderStatus(o, to) PROVE <2>1!:
      BY <3>3, ReopenedByRejection
      DEF UpdateOrderStatus, ReopenedByRejection, validTransitions
    <3> QED
      BY <1>1, <3>1, <3>2, <3>3 DEF OrderStep
  <2> QED
    BY <2>1
<1>2. ASSUME NEW t \in Return, CreateReturn(t) PROVE OneKept'
  BY <1>2 DEF CreateReturn
<1>3. ASSUME NEW t \in Return, RejectReturn(t) PROVE OneKept'
  <2>1. Kept(t)
    BY <1>3 DEF RejectReturn, Absent
  <2>2. \A u \in Return : Kept(u)' <=> Kept(u) /\ u # t
    BY <1>3, <2>1 DEF RejectReturn, Absent
  <2>3. \A u \in Return : Kept(u)' => OrderOf(u) # OrderOf(t)
    BY <2>1, <2>2
  <2> QED
    BY <1>3, <2>2, <2>3 DEF RejectReturn
<1>4. ASSUME NEW t \in Return, NEW to \in ReturnStatus, AdvanceReturn(t, to) PROVE OneKept'
  <2>1. \A u \in Return : Kept(u)' <=> Kept(u)
    BY <1>4 DEF AdvanceReturn, DeskTargets, validReturnTransitions, Absent
  <2> QED
    BY <1>4, <2>1 DEF AdvanceReturn
<1>5. ASSUME NEW f \in Refund, RefundStep(f) PROVE OneKept'
  <2>1. CASE InsertRefund(f) \/ FailRefund(f)
    BY <2>1 DEF InsertRefund, FailRefund
  <2>2. CASE CompleteRefund(f)
    <3>1. \A u \in Return : Kept(u)' <=> Kept(u)
      BY <2>2 DEF CompleteRefund, Absent
    <3> QED
      BY <2>2, <3>1 DEF CompleteRefund
  <2> QED
    BY <1>5, <2>1, <2>2 DEF RefundStep
<1> QED
  BY <1>1, <1>2, <1>3, <1>4, <1>5 DEF Next, ReturnStep

LEMMA KeptInvariant ==
  ASSUME ReopenedByRejection
  PROVE  Spec => []OneKept
<1>1. Init => OneKept
  BY DEF Init, OneKept, Kept
<1>2. IInv /\ OneKept /\ [Next]_tables => OneKept'
  <2>1. ASSUME UNCHANGED tables, OneKept PROVE OneKept'
    BY <2>1 DEF tables, OneKept, Kept, OrderOf
  <2> QED
    BY <2>1, OneKeptStep, ReopenedByRejection DEF IInv
<1> QED
  BY <1>1, <1>2, InitInv, StepInv, PTL DEF Spec

\* Further returns on an order wait until the first is resolved, as README.md:731 has
\* it, unless a PATCH takes an order from return_requested to delivered: the late
\* delivery update of the counterexample is the only way to two open returns.
THEOREM ReturnsInTurn ==
  ASSUME ReopenedByRejection
  PROVE  Spec => []OneActiveReturn
<1>1. OneKept => OneActiveReturn
  BY DEF OneKept, Kept, OneActiveReturn, ActiveReturnsOf, ActiveReturn, Absent
<1> QED
  BY <1>1, KeptInvariant, ReopenedByRejection, PTL

=============================================================================
