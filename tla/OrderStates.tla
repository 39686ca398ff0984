---------------------------- MODULE OrderStates ----------------------------
(***************************************************************************)
(* The status values of orders, return requests and refunds and the two    *)
(* transition tables of the services, as sets of pairs <<from, to>>.       *)
(* Absent stands for a row that has not been inserted; no status column    *)
(* ever holds it.                                                          *)
(***************************************************************************)

OrderStatus == {"pending", "confirmed", "shipped", "delivered",
                "cancelled", "return_requested", "returned"}

ReturnStatus == {"pending", "approved", "rejected",
                 "in_transit", "received", "refunded"}

RefundStatus == {"pending", "completed", "failed"}

Absent == "absent"

\* Variant: a returned order can be requested for return again.
ReopenReturned ==
  { <<"pending", "confirmed">>, <<"pending", "cancelled">>,
    <<"confirmed", "shipped">>, <<"confirmed", "cancelled">>,
    <<"shipped", "delivered">>, <<"delivered", "return_requested">>,
    <<"return_requested", "returned">>, <<"return_requested", "delivered">>,
    <<"returned", "return_requested">> }

validTransitions ==
  { <<"pending", "confirmed">>,
    <<"pending", "cancelled">>,
    <<"confirmed", "shipped">>,
    <<"confirmed", "cancelled">>,
    <<"shipped", "delivered">>,
    <<"delivered", "return_requested">>,
    <<"return_requested", "returned">>,
    <<"return_requested", "delivered">> }

validReturnTransitions ==
  { <<"pending", "approved">>,
    <<"pending", "rejected">>,
    <<"approved", "in_transit">>,
    <<"in_transit", "received">>,
    <<"received", "refunded">> }

\* Variant: a route reaches markReturnRefunded.
RefundedRouted == {"approved", "in_transit", "received", "refunded"}

\* The targets the routes of returnsRouter pass to applyReturnTransition. The
\* table also allows "refunded", but markReturnRefunded is not routed.
DeskTargets == {"approved", "in_transit", "received"}

\* A return request that is neither rejected nor refunded yet.
ActiveReturn == {"pending", "approved", "in_transit", "received"}

=============================================================================
