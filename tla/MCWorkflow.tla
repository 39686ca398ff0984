----------------------------- MODULE MCWorkflow -----------------------------
(***************************************************************************)
(* Instance for TLC: two orders, the first with two items and three        *)
(* return requests (two for the same item), the second with one.           *)
(***************************************************************************)
EXTENDS Workflow, TLC

CONSTANTS o1, o2, i1, i2, i3, t1, t2, t3, t4, f1, f2, f3, f4, f5

MCItemOrder == i1 :> o1 @@ i2 :> o1 @@ i3 :> o2
MCReturnItem == t1 :> i1 @@ t2 :> i1 @@ t3 :> i2 @@ t4 :> i3
MCRefundReturn == f1 :> t1 @@ f2 :> t1 @@ f3 :> t2 @@ f4 :> t3 @@ f5 :> t4

\* PATCH requests that reach any order in any status.
MCAnyMove == [o \in Order |-> OrderStatus \X OrderStatus]
\* A database without orders.
MCNoOrders == {[o \in Order |-> Absent]}
=============================================================================
