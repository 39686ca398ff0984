---------------------------- MODULE MCMigrations ----------------------------
(***************************************************************************)
(* Instance for TLC: two runners, one order with two refunds, two users    *)
(* who may choose the same key.                                            *)
(***************************************************************************)
EXTENDS Migrations, TLC

CONSTANTS m1, m2, o1, f1, f2, u1, u2

MCRefundOrder == f1 :> o1 @@ f2 :> o1

Symmetry == Permutations(Runner) \cup Permutations(Refund) \cup Permutations(User)
=============================================================================
