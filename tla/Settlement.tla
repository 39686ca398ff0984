----------------------------- MODULE Settlement -----------------------------
(***************************************************************************)
(* What orders, returns and refunds promise about money: goods that came   *)
(* back stay back, a refund is paid only for a return whose goods came     *)
(* back, no order is paid back twice, and what was paid is never undone.   *)
(* Requesting, approving, rejecting and failing change nothing here.       *)
(***************************************************************************)
CONSTANTS
  Return, Refund,
  RefundReturn,  \* the return request a refund is for
  RefundOrder    \* the order it pays back

VARIABLES
  back,  \* return requests whose goods have been received
  paid   \* refunds that are completed

Init == back = {} /\ paid = {}

Receive(t) ==
  /\ back' = back \cup {t}
  /\ UNCHANGED paid

Pay(f) ==
  /\ RefundReturn[f] \in back
  /\ \A g \in paid : RefundOrder[g] # RefundOrder[f]
  /\ paid' = paid \cup {f}
  /\ UNCHANGED back

Next ==
  \/ \E t \in Return : Receive(t)
  \/ \E f \in Refund : Pay(f)

Spec == Init /\ [][Next]_<<back, paid>>
=============================================================================
