----------------------------- MODULE Checkout -----------------------------
(***************************************************************************)
(* Selling one spray: ORD's orders, their payments, and the payment        *)
(* gateway they are settled through (ord.service.ts, ord/payment).         *)
(*                                                                         *)
(* The gateway is called outside the transaction that acts on its answer,  *)
(* so a cancellation is two steps (Ask..., then its commit) between which  *)
(* a webhook, another cancellation or a crash may come.  A webhook is      *)
(* delivered any number of times, late, and in any order.                  *)
(***************************************************************************)
EXTENDS MachineMode

VARIABLES
  pay,          \* payments.status of the order's only payment
  payTxn,       \* payments.provider_transaction_id
  claimed,      \* the transfers with a row in payment_events that took them as paid
  failed,       \* those whose row in payment_events says PAYMENT_FAILED
  link,         \* the payment link at the gateway (external)
  sentFor,      \* the order each bank transfer was made for (external)
  rightAmount,  \* the transfers of exactly the price (external)
  onTime,       \* the transfers made before the order's expires_at
  late,         \* the orders whose expires_at has passed
  closing       \* cancellations between the gateway's answer and their commit

gatewayVars == <<link, sentFor, rightAmount, onTime>>
paymentVars == <<pay, payTxn, claimed, failed>>
checkoutVars == <<paymentVars, gatewayVars, late, closing>>

PaymentStatuses ==
  {"PENDING", "FAILED", "EXPIRED", "CANCELLED", "SUCCEEDED", "REFUND_PENDING"}
SETTLEABLE_NotCancelled == {"PENDING", "FAILED", "EXPIRED"}      \* mutant
SETTLEABLE_NotExpired == {"PENDING", "FAILED", "CANCELLED"}      \* mutant
SETTLEABLE == {"PENDING", "FAILED", "EXPIRED", "CANCELLED"}
LinkStatuses == {"NONE", "OPEN", "PAID", "CLOSED"}

(* "listed": a forced maintenance has read the order as unpaid and will    *)
(* cancel it; "cancel", "expire": the gateway has answered, the            *)
(* transaction has not run.                                                *)
ClosingKinds == {"listed", "cancel", "expire"}

NoOrder == "none"

ASSUME NoOrderAssumption == NoOrder \notin Orders

(* A forced maintenance that has not listed the unpaid orders yet.         *)
ForcedMachine == <<NoOrder, "listed">>

CheckoutTypeOK ==
  /\ pay \in [Orders -> PaymentStatuses \cup {"NONE"}]
  /\ payTxn \in [Orders -> Transfers \cup {NoTransfer}]
  /\ claimed \subseteq Transfers
  /\ failed \subseteq Transfers
  /\ link \in [Orders -> LinkStatuses]
  /\ sentFor \in [Transfers -> Orders \cup {NoOrder}]
  /\ rightAmount \subseteq Transfers
  /\ onTime \subseteq Transfers
  /\ late \subseteq Orders
  /\ closing \subseteq (Orders \cup {NoOrder}) \X ClosingKinds

CheckoutInit ==
  /\ pay = [o \in Orders |-> "NONE"]
  /\ payTxn = [o \in Orders |-> NoTransfer]
  /\ claimed = {}
  /\ failed = {}
  /\ link = [o \in Orders |-> "NONE"]
  /\ sentFor = [t \in Transfers |-> NoOrder]
  /\ rightAmount = {}
  /\ onTime = {}
  /\ late = {}
  /\ closing = {}

-----------------------------------------------------------------------------
(* The customer, the bank and the clock.                                   *)

(* The QR code can be scanned while the link is open, and once more after  *)
(* it was paid.  The amount may be wrong, and the gateway may not show the *)
(* link as paid yet.                                                       *)
Transfer(t, o) ==
  /\ sentFor[t] = NoOrder
  /\ \A s \in Transfers : s < t => sentFor[s] # NoOrder
  /\ link[o] \in {"OPEN", "PAID"}
  /\ sentFor' = [sentFor EXCEPT ![t] = o]
  /\ onTime' = IF o \in late THEN onTime ELSE onTime \cup {t}
  /\ rightAmount' \in {rightAmount, rightAmount \cup {t}}
  /\ link' \in {link, [link EXCEPT ![o] = "PAID"]}
  /\ UNCHANGED <<dbVars, paymentVars, late, closing>>

(* expires_at passes.                                                      *)
PaymentDeadline(o) ==
  /\ status[o] # "NONE"
  /\ o \notin late
  /\ late' = late \cup {o}
  /\ UNCHANGED <<dbVars, paymentVars, gatewayVars, closing>>

-----------------------------------------------------------------------------
(* Placing an order.                                                       *)

(* An overdue order that still waits for its payment is expired by the     *)
(* transaction that creates the next one, without asking the gateway.      *)
CreateOrder(o) ==
  /\ status[o] = "NONE"
  /\ MachineAcceptsOrders
  /\ slot[SlotOf[o]] = "AVAILABLE"
  /\ ActiveCustomerCommands = {}
  /\ OpenOrders \subseteq late
  /\ status' = [p \in Orders |->
                  IF p = o THEN "PENDING_PAYMENT"
                  ELSE IF p \in OpenOrders THEN "EXPIRED" ELSE status[p]]
  /\ pay' = [p \in Orders |->
               IF p = o THEN "PENDING"
               ELSE IF p \in OpenOrders /\ pay[p] = "PENDING" THEN "EXPIRED"
               ELSE pay[p]]
  /\ link' = [link EXCEPT ![o] = "OPEN"]
  /\ UNCHANGED <<review, paidAt, cmd, slot, machineVars, payTxn, claimed,
                 failed, sentFor, rightAmount, onTime, late, closing>>

-----------------------------------------------------------------------------
(* Cancelling and expiring an order that waits for its payment.            *)

(* PaymentService.cancelPendingAtGateway, and its caller's try block.  A   *)
(* payment that is not PENDING has nothing to cancel; a failed call is     *)
(* logged and the order is closed all the same, whether or not the gateway *)
(* has seen the call.  The answer ALREADY_PAID ends the handler.           *)
GatewayCloses(o) ==
  \/ pay[o] # "PENDING" /\ UNCHANGED link
  \/ pay[o] = "PENDING" /\ link[o] # "PAID" /\ link' = [link EXCEPT ![o] = "CLOSED"]
  \/ pay[o] = "PENDING" /\ UNCHANGED link  \* no answer

(* The customer leaves the QR screen.                                      *)
AskCancel(o) ==
  /\ status[o] = "PENDING_PAYMENT"
  /\ GatewayCloses(o)
  /\ closing' = closing \cup {<<o, "cancel">>}
  /\ UNCHANGED <<dbVars, paymentVars, sentFor, rightAmount, onTime, late>>

(* The expiry job, or a kiosk that polls an overdue order.                 *)
AskExpire(o) ==
  /\ status[o] = "PENDING_PAYMENT"
  /\ o \in late
  /\ GatewayCloses(o)
  /\ closing' = closing \cup {<<o, "expire">>}
  /\ UNCHANGED <<dbVars, paymentVars, sentFor, rightAmount, onTime, late>>

(* A forced maintenance has changed the mode; it lists the unpaid orders   *)
(* after that transaction.                                                 *)
ForceAndCancel ==
  /\ ForceMaintenance
  /\ closing' = closing \cup {ForcedMachine}
  /\ UNCHANGED <<paymentVars, gatewayVars, late>>

ListUnpaid ==
  /\ ForcedMachine \in closing
  /\ closing' = (closing \ {ForcedMachine}) \cup
       ({o \in Orders : status[o] = "PENDING_PAYMENT"} \X {"listed"})
  /\ UNCHANGED <<dbVars, paymentVars, gatewayVars, late>>

(* It then goes through the list.                                          *)
AskForced(o) ==
  /\ <<o, "listed">> \in closing
  /\ \/ /\ GatewayCloses(o)
        /\ closing' = (closing \ {<<o, "listed">>}) \cup {<<o, "cancel">>}
     \/ /\ pay[o] = "PENDING" /\ link[o] = "PAID"  \* ALREADY_PAID
        /\ closing' = closing \ {<<o, "listed">>}
        /\ UNCHANGED link
  /\ UNCHANGED <<dbVars, paymentVars, sentFor, rightAmount, onTime, late>>

(* The transaction after the gateway's answer looks at the order again.    *)

CloseUnpaid_NoRecheck(o, kind, payment) ==                       \* mutant
  /\ <<o, kind>> \in closing
  /\ closing' = closing \ {<<o, kind>>}
  /\ status' = [status EXCEPT ![o] = "EXPIRED"]
  /\ pay' = [pay EXCEPT ![o] = IF @ = "PENDING" THEN payment ELSE @]
  /\ UNCHANGED <<review, paidAt, cmd, slot, machineVars, payTxn, claimed,
                 failed, gatewayVars, late>>

CloseUnpaid(o, kind, payment) ==
  /\ <<o, kind>> \in closing
  /\ closing' = closing \ {<<o, kind>>}
  /\ IF status[o] = "PENDING_PAYMENT"
     THEN /\ status' = [status EXCEPT ![o] = "EXPIRED"]
          /\ pay' = [pay EXCEPT ![o] = IF @ = "PENDING" THEN payment ELSE @]
     ELSE UNCHANGED <<status, pay>>
  /\ UNCHANGED <<review, paidAt, cmd, slot, machineVars, payTxn, claimed,
                 failed, gatewayVars, late>>

CommitCancel(o) == CloseUnpaid(o, "cancel", "CANCELLED")
CommitExpire(o) == CloseUnpaid(o, "expire", "EXPIRED")

-----------------------------------------------------------------------------
(* Payment webhooks: PaymentWebhookService.settle.                         *)

(* The unique index on payment_events: a transfer's event is acted on      *)
(* once, whatever it reports.                                              *)
IsNewEvent(t) == t \notin claimed \cup failed

ClaimEvent(t) == IsNewEvent(t) /\ claimed' = claimed \cup {t} /\ UNCHANGED failed

(* The gateway reports a failed attempt: one of its own, or of a transfer   *)
(* that it reports as paid later, under the same event id.                 *)
FailureEvent(o) ==
  /\ UNCHANGED claimed
  /\ \/ UNCHANGED failed
     \/ \E t \in Transfers :
          sentFor[t] = o /\ IsNewEvent(t) /\ failed' = failed \cup {t}

WebhookFailed(o) ==
  /\ pay[o] # "NONE"
  /\ pay' = [pay EXCEPT ![o] = IF @ = "PENDING" THEN "FAILED" ELSE @]
  /\ FailureEvent(o)
  /\ UNCHANGED <<dbVars, payTxn, gatewayVars, late, closing>>

IsSettleable(o) == pay[o] \in SETTLEABLE

IsExtraTransfer(o, t) ==
  /\ ~IsSettleable(o)
  /\ payTxn[o] # NoTransfer
  /\ payTxn[o] # t

(* Money that cannot settle the payment: a wrong amount, or a second       *)
(* transfer on a settled one.  Staff are told; nothing else changes.       *)
WebhookUnusable(t) ==
  /\ sentFor[t] # NoOrder
  /\ ClaimEvent(t)
  /\ t \notin rightAmount \/ IsExtraTransfer(sentFor[t], t)
  /\ FlagForReview({sentFor[t]})
  /\ UNCHANGED <<status, paidAt, cmd, slot, machineVars, pay, payTxn,
                 gatewayVars, late, closing>>

(* OrdService.settleOrderPayment: an order still waiting for a payment     *)
(* made in time is PAID; an expired one, or one paid too late, goes to     *)
(* REFUND_PENDING; any other keeps its status and is shown to staff.       *)
SettlesAsPaid_AnyTime(o, t) == status[o] = "PENDING_PAYMENT"     \* mutant
SettlesAsPaid(o, t) == status[o] = "PENDING_PAYMENT" /\ t \in onTime

SettleOrderPayment(o, t) ==
  /\ status' = [status EXCEPT ![o] =
                  IF SettlesAsPaid(o, t) THEN "PAID"
                  ELSE IF @ \in {"PENDING_PAYMENT", "EXPIRED"}
                  THEN "REFUND_PENDING" ELSE @]
  /\ paidAt' = [paidAt EXCEPT ![o] = IF SettlesAsPaid(o, t) THEN t ELSE @]
  /\ review' = IF SettlesAsPaid(o, t) THEN review ELSE review \cup {o}

(* An event for a transfer that is already recorded changes nothing.       *)
WebhookPaid(t) ==
  LET o == sentFor[t] IN
  /\ o # NoOrder
  /\ ClaimEvent(t)
  /\ t \in rightAmount
  /\ ~IsExtraTransfer(o, t)
  /\ IF IsSettleable(o)
     THEN /\ SettleOrderPayment(o, t)
          /\ pay' = [pay EXCEPT ![o] =
                       IF SettlesAsPaid(o, t) THEN "SUCCEEDED" ELSE "REFUND_PENDING"]
          /\ payTxn' = [payTxn EXCEPT ![o] = t]
     ELSE UNCHANGED <<orderVars, pay, payTxn>>
  /\ UNCHANGED <<cmd, slot, machineVars, gatewayVars, late, closing>>

-----------------------------------------------------------------------------
(* PAID_QUEUE_MAX_SEC has passed since the payment: DspService's job, or a *)
(* kiosk that polls the order.                                             *)
QueueTimeout(o) ==
  /\ status[o] = "PAID"
  /\ FailBeforeDispense({o})
  /\ UNCHANGED <<paidAt, cmd, slot, machineVars, checkoutVars>>

(* The process stops before it commits, or a commit fails.                 *)
LoseClosing ==
  /\ closing # {}
  /\ closing' = {}
  /\ UNCHANGED <<dbVars, paymentVars, gatewayVars, late>>

CheckoutNext ==
  \/ \E o \in Orders :
       \/ \E t \in Transfers : Transfer(t, o)
       \/ PaymentDeadline(o)
       \/ CreateOrder(o)
       \/ AskCancel(o) \/ AskExpire(o) \/ AskForced(o)
       \/ CommitCancel(o) \/ CommitExpire(o)
       \/ WebhookFailed(o)
       \/ QueueTimeout(o)
  \/ \E t \in Transfers : WebhookUnusable(t) \/ WebhookPaid(t)
  \/ ForceAndCancel \/ ListUnpaid
  \/ LoseClosing
=============================================================================
