-------------------------- MODULE MCConnectionPool --------------------------
(***************************************************************************)
(* Instance for TLC: three requests share two connections and work on one  *)
(* order, a return request for its item and a refund.                       *)
(***************************************************************************)
EXTENDS ConnectionPool

CONSTANTS o1, i1, t1, f1, r1, r2, r3

MCItemOrder == i1 :> o1
MCReturnItem == t1 :> i1
MCRefundReturn == f1 :> t1

\* PATCH requests that reach the order before it is delivered only. (Others wait for
\* the same row in the same way; they are in MCEngine.)
MCFulfilment == [o \in Order |-> {m \in validTransitions : m[1] \notin ReturnSide}]
\* The order is on its way to the customer.
MCShipped == {[o \in Order |-> "shipped"]}
=============================================================================
