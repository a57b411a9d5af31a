------------------------------- MODULE Sales -------------------------------
(***************************************************************************)
(* A machine as its customers and staff reach it: orders, payments and the *)
(* machine's mode in detail, and a dispense service of which only the      *)
(* contract is known.                                                      *)
(***************************************************************************)
EXTENDS Checkout, StationContract

salesVars == <<dbVars, checkoutVars>>

SalesInit == DbInit /\ CheckoutInit

SalesNext ==
  \/ CheckoutNext
  \/ MachineModeNext /\ UNCHANGED checkoutVars
  \/ DispenseContract /\ UNCHANGED checkoutVars

SalesSpec == SalesInit /\ [][SalesNext]_salesVars

SalesTypeOK == DbTypeOK /\ CheckoutTypeOK

-----------------------------------------------------------------------------
(* A payment that still waits for money belongs to an order that still     *)
(* waits for it: no gateway answer, webhook or job closes one without the  *)
(* other.                                                                  *)
OpenPaymentMeansOpenOrder ==
  \A o \in Orders : pay[o] = "PENDING" => status[o] = "PENDING_PAYMENT"

(* Money can only arrive for an order that settleOrderPayment knows what   *)
(* to do with: its last branch ("cannot happen") is never reached.         *)
SettleableIsPayable ==
  \A o \in Orders : pay[o] \in SETTLEABLE => status[o] \in {"PENDING_PAYMENT", "EXPIRED"}

(* No order is served, or fails or forfeits its spray, without having been *)
(* paid on time and in full by the transfer its payment records.           *)
PaidStatuses == {"PAID", "DISPENSE_REQUESTED", "DISPENSED", "FAILED", "FORFEITED"}

ServedMeansPaid ==
  \A o \in Orders : status[o] \in PaidStatuses =>
    /\ pay[o] = "SUCCEEDED"
    /\ paidAt[o] # NoTransfer
    /\ payTxn[o] = paidAt[o]
    /\ sentFor[paidAt[o]] = o
    /\ paidAt[o] \in rightAmount \cap onTime

(* Every transfer the API has been told of, and not first that it failed,  *)
(* is either the one its order's payment records, or left its order on the *)
(* staff's work list.  Only a forfeited order may have left that list.     *)
MoneyAccounted ==
  \A t \in claimed :
    \/ payTxn[sentFor[t]] = t
    \/ sentFor[t] \in review
    \/ status[sentFor[t]] = "FORFEITED"

(* The payment is to be refunded exactly when the order is.                *)
RefundsAgree ==
  \A o \in Orders : pay[o] = "REFUND_PENDING" <=> status[o] = "REFUND_PENDING"

(* An order and its payment, which have their own locks and are written by *)
(* different services, are waiting together and refunded together.         *)
PaymentFollowsOrder == OpenPaymentMeansOpenOrder /\ RefundsAgree

(* On the rows they share, Checkout and the machine's mode do what the     *)
(* other components assume of them.                                        *)
ImplementsContract == ContractSpec

-----------------------------------------------------------------------------
(* The jobs keep running, the gateway delivers a webhook until it is       *)
(* accepted, and a process does not crash before its commit each time.  An *)
(* overdue order is closed only when the gateway does not say ALREADY_PAID.*)
ExpireJob(o) == AskExpire(o) /\ (pay[o] = "PENDING" => link[o] # "PAID")

Sweep(c) == CommandLost(c) \/ CommandCloses(c, ExpiredCommand)

SalesFairness ==
  /\ \A o \in Orders :
       /\ WF_salesVars(PaymentDeadline(o))
       /\ WF_salesVars(ExpireJob(o))
       /\ SF_salesVars(CommitExpire(o))
       /\ SF_salesVars(CommitCancel(o))
       /\ WF_salesVars(QueueTimeout(o))
  /\ \A t \in Transfers :
       /\ WF_salesVars(WebhookPaid(t))
       /\ WF_salesVars(WebhookUnusable(t))
  /\ \A c \in Commands : WF_salesVars(Sweep(c) /\ UNCHANGED checkoutVars)
  /\ WF_salesVars(CompleteDraining /\ UNCHANGED checkoutVars)

FairSalesSpec == SalesSpec /\ SalesFairness

(* An order does not wait for its payment for ever, unless staff have been *)
(* told to look at it.                                                     *)
PaymentWaitEnds ==
  \A o \in Orders :
    status[o] = "PENDING_PAYMENT" ~> (status[o] # "PENDING_PAYMENT" \/ o \in review)

TransferIsAnswered(t) == \E o \in Orders : sentFor[t] = o /\ (payTxn[o] = t \/ o \in review)

(* A transfer in full that the API does not know of yet is answered: the   *)
(* order is settled, or staff are told, unless an attempt to make it is    *)
(* reported as failed first under the same event id.                       *)
MoneyIsAnswered ==
  \A t \in Transfers :
    t \in rightAmount \ claimed ~> t \in failed \/ TransferIsAnswered(t)

(* Neither a customer nor the staff wait for a payment, or an answer to    *)
(* one, that never comes.                                                  *)
PaymentsAreAnswered == PaymentWaitEnds /\ MoneyIsAnswered

(* A machine that is draining gets to its maintenance, or is reopened or   *)
(* disabled, unless an order under review still waits for its payment.     *)
DrainingEnds ==
  mode = "DRAINING" ~> (mode # "DRAINING" \/ OpenOrders \cap review # {})

-----------------------------------------------------------------------------
(* FR-ORD-16 AC1: every order that is not paid in time expires.            *)
OverdueOrdersExpire ==
  \A o \in Orders : status[o] = "PENDING_PAYMENT" ~> status[o] # "PENDING_PAYMENT"

(* settle's comment: some gateways report a failure and then the success,   *)
(* which a FAILED payment still takes.                                      *)
LateSuccessIsTaken == \A t \in Transfers : t \in rightAmount ~> TransferIsAnswered(t)
=============================================================================
