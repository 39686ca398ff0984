------------------------------ MODULE Workflow ------------------------------
(***************************************************************************)
(* The order, return and refund workflow as a client of the API is told it *)
(* behaves: every operation takes effect at one instant and reads the      *)
(* three tables in the state it changes. Module Engine has the operations  *)
(* as the code runs them (a read, a pause, a compare-and-set or a locked   *)
(* transaction) and implements this module.                                *)
(***************************************************************************)
EXTENDS Schema

Init ==
  /\ orderStatus \in InitialOrders
  /\ returnStatus = [t \in Return |-> Absent]
  /\ refundStatus = [f \in Refund |-> Absent]

-----------------------------------------------------------------------------
(***************************************************************************)
(* Orders                                                                  *)
(***************************************************************************)

InsertOrder(o) ==
  /\ orderStatus[o] = Absent
  /\ orderStatus' = [orderStatus EXCEPT ![o] = "pending"]
  /\ UNCHANGED <<returnStatus, refundStatus>>

UpdateOrderStatus(o, to) ==
  /\ <<orderStatus[o], to>> \in StaffMoves[o]
  /\ <<orderStatus[o], to>> \in validTransitions
  /\ orderStatus' = [orderStatus EXCEPT ![o] = to]
  /\ UNCHANGED <<returnStatus, refundStatus>>

\* Variant: a shipped order can be cancelled.
CancelShipped(o) ==
  /\ orderStatus[o] \in {"pending", "confirmed", "shipped"}
  /\ orderStatus' = [orderStatus EXCEPT ![o] = "cancelled"]
  /\ UNCHANGED <<returnStatus, refundStatus>>

CancelOrder(o) ==
  /\ orderStatus[o] \in {"pending", "confirmed"}
  /\ orderStatus' = [orderStatus EXCEPT ![o] = "cancelled"]
  /\ UNCHANGED <<returnStatus, refundStatus>>

-----------------------------------------------------------------------------
(***************************************************************************)
(* Return requests                                                         *)
(***************************************************************************)

CreateReturn(t) ==
  /\ returnStatus[t] = Absent
  /\ orderStatus[OrderOf(t)] = "delivered"
  /\ returnStatus' = [returnStatus EXCEPT ![t] = "pending"]
  /\ orderStatus' = [orderStatus EXCEPT ![OrderOf(t)] = "return_requested"]
  /\ UNCHANGED refundStatus

\* Variant: a rejected return gets a status of orders.
RejectAsCancelled(t) ==
  /\ returnStatus[t] = "pending"
  /\ orderStatus[OrderOf(t)] = "return_requested"
  /\ returnStatus' = [returnStatus EXCEPT ![t] = "cancelled"]
  /\ orderStatus' = [orderStatus EXCEPT ![OrderOf(t)] = "delivered"]
  /\ UNCHANGED refundStatus

RejectReturn(t) ==
  /\ returnStatus[t] = "pending"
  /\ orderStatus[OrderOf(t)] = "return_requested"
  /\ returnStatus' = [returnStatus EXCEPT ![t] = "rejected"]
  /\ orderStatus' = [orderStatus EXCEPT ![OrderOf(t)] = "delivered"]
  /\ UNCHANGED refundStatus

AdvanceReturn(t, to) ==
  /\ to \in DeskTargets
  /\ <<returnStatus[t], to>> \in validReturnTransitions
  /\ returnStatus' = [returnStatus EXCEPT ![t] = to]
  /\ UNCHANGED <<orderStatus, refundStatus>>

-----------------------------------------------------------------------------
(***************************************************************************)
(* Refunds                                                                 *)
(***************************************************************************)

\* Variant: no unique index.
InsertSecondRefund(f) ==
  /\ refundStatus[f] = Absent
  /\ returnStatus[RefundReturn[f]] = "received"
  /\ refundStatus' = [refundStatus EXCEPT ![f] = "pending"]
  /\ UNCHANGED <<orderStatus, returnStatus>>

InsertRefund(f) ==
  /\ refundStatus[f] = Absent
  /\ returnStatus[RefundReturn[f]] = "received"
  /\ LiveRefunds(RefundReturn[f]) = {}
  /\ refundStatus' = [refundStatus EXCEPT ![f] = "pending"]
  /\ UNCHANGED <<orderStatus, returnStatus>>

FailRefund(f) ==
  /\ refundStatus[f] = "pending"
  /\ refundStatus' = [refundStatus EXCEPT ![f] = "failed"]
  /\ UNCHANGED <<orderStatus, returnStatus>>

\* Variant: the status of the order is not checked.
CompleteUnasked(f) ==
  LET t == RefundReturn[f]
  IN  /\ refundStatus[f] = "pending"
      /\ returnStatus[t] = "received"
      /\ returnStatus' = [returnStatus EXCEPT ![t] = "refunded"]
      /\ orderStatus' = [orderStatus EXCEPT ![OrderOf(t)] = "returned"]
      /\ refundStatus' = [refundStatus EXCEPT ![f] = "completed"]

CompleteRefund(f) ==
  LET t == RefundReturn[f]
  IN  /\ refundStatus[f] = "pending"
      /\ returnStatus[t] = "received"
      /\ orderStatus[OrderOf(t)] = "return_requested"
      /\ returnStatus' = [returnStatus EXCEPT ![t] = "refunded"]
      /\ orderStatus' = [orderStatus EXCEPT ![OrderOf(t)] = "returned"]
      /\ refundStatus' = [refundStatus EXCEPT ![f] = "completed"]

-----------------------------------------------------------------------------
OrderStep(o) ==
  \/ InsertOrder(o)
  \/ CancelOrder(o)
  \/ \E to \in OrderStatus : UpdateOrderStatus(o, to)

ReturnStep(t) ==
  \/ CreateReturn(t)
  \/ RejectReturn(t)
  \/ \E to \in ReturnStatus : AdvanceReturn(t, to)

RefundStep(f) ==
  \/ InsertRefund(f)
  \/ FailRefund(f)
  \/ CompleteRefund(f)

Next ==
  \/ \E o \in Order : OrderStep(o)
  \/ \E t \in Return : ReturnStep(t)
  \/ \E f \in Refund : RefundStep(f)

Spec == Init /\ [][Next]_tables

=============================================================================
