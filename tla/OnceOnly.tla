------------------------------ MODULE OnceOnly ------------------------------
(***************************************************************************)
(* What an idempotency key promises its client: of all the requests sent   *)
(* with the key at most one takes effect, and every request that is told   *)
(* of a success is told of that one. Failing and being refused is always   *)
(* possible and is no step.                                                *)
(***************************************************************************)
CONSTANTS Request, Key, KeyOf, None

VARIABLES
  took,   \* the requests of each key that took effect
  reply   \* the request whose result each request was told

Init ==
  /\ took = [k \in Key |-> {}]
  /\ reply = [r \in Request |-> None]

TakeEffect(r) ==
  /\ took[KeyOf[r]] = {}
  /\ took' = [took EXCEPT ![KeyOf[r]] = {r}]
  /\ UNCHANGED reply

Tell(r) ==
  /\ reply[r] = None
  /\ \E s \in took[KeyOf[r]] : reply' = [reply EXCEPT ![r] = s]
  /\ UNCHANGED took

Next == \E r \in Request : TakeEffect(r) \/ Tell(r)

Spec == Init /\ [][Next]_<<took, reply>>
=============================================================================
