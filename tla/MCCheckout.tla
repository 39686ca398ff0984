----------------------------- MODULE MCCheckout -----------------------------
(***************************************************************************)
(* Instance for TLC: two customers order from two products; the second     *)
(* version of the price list has a new price for one of them.              *)
(***************************************************************************)
EXTENDS Checkout, TLC

CONSTANTS o1, o2, p1, p2, c1, c2, r1

MCCustomerOf == o1 :> c1 @@ o2 :> c2
MCCartOf == o1 :> (p1 :> 1 @@ p2 :> 2) @@ o2 :> (p2 :> 3)
MCPriceLists == {p1 :> 1 @@ p2 :> 1, p1 :> 2}
=============================================================================
