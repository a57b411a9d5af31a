-------------------------- MODULE OrderLifecycle --------------------------
(***************************************************************************)
(* What the platform promises about each order, whatever the payments, the *)
(* scheduler and the device do:                                            *)
(*   - its status moves only along ORDER_TRANSITIONS;                      *)
(*   - a customer who paid and was not served is put on the staff's work   *)
(*     list (needs_manual_review) by the very step that fails the order;   *)
(*   - nothing takes an order off that list except a forfeit, by which the *)
(*     customer is owed nothing, or a recorded refund.                     *)
(* StationContract implements this specification.                          *)
(***************************************************************************)
EXTENDS OrderStatus

CONSTANT Orders

VARIABLES
  status,   \* orders.status, or "NONE" before the insert
  review    \* the orders with needs_manual_review

vars == <<status, review>>

Init ==
  /\ status = [o \in Orders |-> "NONE"]
  /\ review = {}

(* The statuses in which money is owed to the customer.                    *)
Owed == {"FAILED", "REFUND_PENDING"}

Advance(o) ==
  /\ MayBecome(status[o], status'[o])
  /\ status'[o] \in Owed => o \in review'
  /\ o \in review /\ o \notin review' => status'[o] \in {"FORFEITED", "REFUNDED"}

Flag(o) ==
  /\ status'[o] = status[o]
  /\ o \in review => o \in review'

(* One transaction may touch several orders: createNew expires the overdue *)
(* order it replaces, a forced maintenance fails the whole paid queue.     *)
Next ==
  /\ status' \in [Orders -> OrderStatuses \cup {"NONE"}]
  /\ review' \subseteq Orders
  /\ \A o \in Orders : Advance(o) \/ Flag(o)

Spec == Init /\ [][Next]_vars
=============================================================================
