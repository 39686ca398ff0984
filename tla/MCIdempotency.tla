--------------------------- MODULE MCIdempotency ---------------------------
(***************************************************************************)
(* Instance for TLC: an attempt and two retries with one key, and one      *)
(* request with another key, or (MCOneKey) none.                           *)
(***************************************************************************)
EXTENDS Idempotency, TLC

CONSTANTS k1, k2, r1, r2, r3, r4

MCKeyOf == r1 :> k1 @@ r2 :> k1 @@ r3 :> k1 @@ r4 :> k2
MCOneKey == r1 :> k1 @@ r2 :> k1 @@ r3 :> k1

Symmetry == Permutations({r1, r2, r3})
=============================================================================
