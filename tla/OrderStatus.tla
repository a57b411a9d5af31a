---------------------------- MODULE OrderStatus ----------------------------
(***************************************************************************)
(* The state machine of an order: ord/order-status.ts.  Every change of    *)
(* orders.status goes through OrdService.transition, which asks this table *)
(* first.  "NONE" is not a status of the code: it stands for an order that *)
(* has not been inserted yet.                                              *)
(***************************************************************************)

OrderStatuses ==
  {"CREATED", "PENDING_PAYMENT", "PAID", "DISPENSE_REQUESTED", "EXPIRED",
   "FAILED", "REFUND_PENDING", "DISPENSED", "FORFEITED", "REFUNDED"}

ORDER_TRANSITIONS ==
  {<<"CREATED", "PENDING_PAYMENT">>, <<"CREATED", "FAILED">>,
   <<"PENDING_PAYMENT", "PAID">>, <<"PENDING_PAYMENT", "EXPIRED">>,
   <<"PENDING_PAYMENT", "FAILED">>,
   <<"PAID", "DISPENSE_REQUESTED">>, <<"PAID", "FAILED">>,
   <<"PAID", "REFUND_PENDING">>,
   <<"DISPENSE_REQUESTED", "DISPENSED">>, <<"DISPENSE_REQUESTED", "FAILED">>,
   <<"DISPENSE_REQUESTED", "FORFEITED">>,
   <<"DISPENSE_REQUESTED", "REFUND_PENDING">>,
   <<"EXPIRED", "REFUND_PENDING">>,
   <<"FAILED", "REFUND_PENDING">>, <<"FAILED", "REFUNDED">>,
   <<"REFUND_PENDING", "REFUNDED">>}

CanTransition(from, to) == <<from, to>> \in ORDER_TRANSITIONS

(* What one transaction may do to an order: insert it as CREATED, or move  *)
(* it along one edge, or along two (settleOrderPayment closes an overdue   *)
(* order and marks it for refund in the same transaction, createNew        *)
(* inserts an order and opens its payment, markRefunded passes through     *)
(* REFUND_PENDING).                                                        *)
Edge(from, to) == CanTransition(from, to) \/ (from = "NONE" /\ to = "CREATED")

MayBecome(from, to) ==
  \/ Edge(from, to)
  \/ \E via \in OrderStatuses : Edge(from, via) /\ CanTransition(via, to)
=============================================================================
