------------------------------- MODULE Schema -------------------------------
(***************************************************************************)
(* The tables orders, return_requests and refunds, and what must be true   *)
(* of them. The tables are the state that modules Workflow and Engine      *)
(* share.                                                                  *)
(*                                                                         *)
(* A row is named by its id. The foreign keys are constants: an id         *)
(* determines the order item a return is for and the return a refund is    *)
(* for, so inserting a row picks an unused id with the right parent. The   *)
(* finite sets of ids are the bounds of a model.                           *)
(***************************************************************************)
EXTENDS OrderStates

CONSTANTS
  Order,         \* ids of rows of table orders
  Item,          \* rows of table order_items, (order_id, product_id) pairs
  Return,        \* ids of rows of table return_requests
  Refund,        \* ids of rows of table refunds
  ItemOrder,     \* order_items.order_id
  ReturnItem,    \* the order item a return request is for
  RefundReturn,  \* refunds.return_request_id
  StaffMoves,    \* of each order, pairs <<from, to>>: a PATCH of its status to
                 \* "to" may reach it in status "from"
  InitialOrders  \* what table orders may hold at the start

ASSUME ForeignKeys ==
  /\ ItemOrder \in [Item -> Order]
  /\ ReturnItem \in [Return -> Item]
  /\ RefundReturn \in [Refund -> Return]

\* isValidStatus lets through any status. A database without return requests
\* has no order that was returned.
ASSUME Statuses ==
  /\ StaffMoves \in [Order -> SUBSET (OrderStatus \X OrderStatus)]
  /\ InitialOrders \subseteq
       [Order -> {Absent, "pending", "confirmed", "shipped", "delivered", "cancelled"}]

VARIABLES
  orderStatus,   \* orders.status
  returnStatus,  \* return_requests.status
  refundStatus   \* refunds.status

tables == <<orderStatus, returnStatus, refundStatus>>

OrderOf(t) == ItemOrder[ReturnItem[t]]

\* The refunds the partial unique index refunds_return_request_id_active_unique
\* holds for return t.
LiveRefunds(t) ==
  {f \in Refund : RefundReturn[f] = t /\ refundStatus[f] \notin {Absent, "failed"}}

-----------------------------------------------------------------------------
(***************************************************************************)
(* Properties                                                              *)
(***************************************************************************)

\* Every status column holds a status of types.ts, or the row does not exist.
TablesTyped ==
  /\ orderStatus \in [Order -> OrderStatus \cup {Absent}]
  /\ returnStatus \in [Return -> ReturnStatus \cup {Absent}]
  /\ refundStatus \in [Refund -> RefundStatus \cup {Absent}]

\* A return is refunded exactly when one of its refunds is completed, and then
\* its order is returned for good: the three updates of completeRefundTransaction
\* are never seen apart, whatever status updates staff make around them.
Settled ==
  \A t \in Return :
    /\ returnStatus[t] = "refunded" <=>
         \E f \in Refund : RefundReturn[f] = t /\ refundStatus[f] = "completed"
    /\ returnStatus[t] = "refunded" => orderStatus[OrderOf(t)] = "returned"

\* At most one refund of an order is ever completed, even when the order went
\* through several return requests, failed refunds and manual status updates.
PaidOnce ==
  \A f, g \in Refund :
    /\ refundStatus[f] = "completed"
    /\ refundStatus[g] = "completed"
    /\ OrderOf(RefundReturn[f]) = OrderOf(RefundReturn[g])
    => f = g

\* A refund that is still pending is for a return that is received and not paid
\* by another refund, so completing it is refused only because of the order.
PendingRefundIsDue ==
  \A f \in Refund :
    refundStatus[f] = "pending" =>
      /\ returnStatus[RefundReturn[f]] = "received"
      /\ LiveRefunds(RefundReturn[f]) = {f}

\* No operation moves a status outside the table of its service, the statuses
\* the SQL transactions write without consulting a table included; rows are
\* never deleted and never inserted in another status than "pending"; and a
\* refund that was completed or failed stays so.
ValidMove ==
  /\ \A o \in Order :
       orderStatus'[o] # orderStatus[o] =>
         <<orderStatus[o], orderStatus'[o]>> \in
           validTransitions \cup {<<Absent, "pending">>}
  /\ \A t \in Return :
       returnStatus'[t] # returnStatus[t] =>
         <<returnStatus[t], returnStatus'[t]>> \in
           validReturnTransitions \cup {<<Absent, "pending">>}
  /\ \A f \in Refund :
       refundStatus'[f] # refundStatus[f] =>
         <<refundStatus[f], refundStatus'[f]>> \in
           {<<Absent, "pending">>, <<"pending", "completed">>, <<"pending", "failed">>}

TableMoves == [][ValidMove]_tables

\* The returns whose goods have come back, and the refunds that are paid.
Back == {t \in Return : returnStatus[t] \in {"received", "refunded"}}
Paid == {f \in Refund : refundStatus[f] = "completed"}

\* What all the operations on orders, returns and refunds come to (Settlement):
\* whatever is requested, repeated, rejected or moved by staff, an order is paid
\* back at most once, for goods that came back, and for good.
Promise ==
  INSTANCE Settlement WITH
    back <- Back, paid <- Paid,
    RefundOrder <- [f \in Refund |-> OrderOf(RefundReturn[f])]

ImplementsSettlement == Promise!Spec

\* The return requests of an order that are not resolved yet.
ActiveReturnsOf(o) ==
  {t \in Return : OrderOf(t) = o /\ returnStatus[t] \in ActiveReturn}

\* One active return per order (README.md:731): further returns on an order wait
\* until the first is resolved. It fails when a PATCH asking for "delivered" (sent
\* twice, or late) reaches an order whose return is open: nothing in
\* updateOrderStatus keeps return_requested -> delivered to rejections.
OneActiveReturn ==
  \A o \in Order : \A t, u \in ActiveReturnsOf(o) : t = u

\* No PATCH asks for "delivered" of an order whose return is requested; that is left
\* to rejections.
ReopenedByRejection ==
  \A o \in Order : <<"return_requested", "delivered">> \notin StaffMoves[o]

\* The order statuses between which the return operations move an order.
ReturnSide == {"delivered", "return_requested", "returned"}

FulfilmentOnly(o) == \A m \in StaffMoves[o] : m[1] \notin ReturnSide

\* An order that PATCH requests reach only before it is delivered (FulfilmentOnly)
\* is return_requested exactly while one return request of it is open: no
\* interleaving of returnOrder, for one item of it or for two, with reviewReturn and
\* completeRefund lets a second return in, loses one, or leaves the order waiting
\* for none. What staff do to other orders does not matter.
ReturnHoldsOrder ==
  \A o \in Order :
    FulfilmentOnly(o) =>
      /\ \A t, u \in ActiveReturnsOf(o) : t = u
      /\ orderStatus[o] = "return_requested" <=> ActiveReturnsOf(o) # {}

=============================================================================
