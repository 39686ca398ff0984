------------------------------ MODULE MCEngine ------------------------------
(***************************************************************************)
(* Instances for TLC. Rows of different orders never meet in an operation, *)
(* so that one order has all the interactions; a database has two orders,  *)
(* one of which was cancelled.                                             *)
(*                                                                         *)
(* Order o1 has two items, a return request for each, two refunds for the  *)
(* first return and one for the second; PATCH requests may reach it in any *)
(* status. Order o2 has two items, two return requests for the first (the  *)
(* second after the first was rejected) and one for the second, and a      *)
(* refund for two of them; PATCH requests reach it before it is delivered. *)
(***************************************************************************)
EXTENDS Engine, TLC

CONSTANTS o1, o2, i1, i2, i3, i4, t1, t2, t3, t4, t5, f1, f2, f3, f4, f5, r1, r2

MCItemOrder == i1 :> o1 @@ i2 :> o1 @@ i3 :> o2 @@ i4 :> o2
MCReturnItem == t1 :> i1 @@ t2 :> i2 @@ t3 :> i3 @@ t4 :> i3 @@ t5 :> i4
MCRefundReturn == f1 :> t1 @@ f2 :> t1 @@ f3 :> t2 @@ f4 :> t4 @@ f5 :> t5

MCStaffMoves ==
  o1 :> (OrderStatus \X OrderStatus) @@
  o2 :> {m \in validTransitions : m[1] \notin ReturnSide}

Only(o) == [p \in Order |-> IF p = o THEN Absent ELSE "cancelled"]
\* One of the orders is still to be placed.
MCOneOrder == {Only(o1), Only(o2)}
MCFirstOrder == {Only(o1)}
MCSecondOrder == {Only(o2)}

Symmetry == Permutations(Request)
=============================================================================
