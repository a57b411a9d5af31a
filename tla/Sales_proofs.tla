---------------------------- MODULE Sales_proofs ----------------------------
(***************************************************************************)
(* Orders and payments, whatever the webhooks, the cancellations, the      *)
(* crashes and the dispense service do: Sales keeps its part of the        *)
(* contract, and its money is accounted for.  Refund claims, whatever all  *)
(* these and staff do between the day a claim is filed and the day it is   *)
(* paid: a claim pays once, and pays what is owed.                         *)
(***************************************************************************)
EXTENDS Refunds, StationContract_proofs

USE DEF orderVars, machineVars, dbVars, paymentVars, gatewayVars, checkoutVars

-----------------------------------------------------------------------------
(* The inductive invariant.                                                *)

(* An order is inserted with its payment, and before its payment link.     *)
PlacedTogether ==
  /\ \A o \in Orders : pay[o] = "NONE" <=> status[o] = "NONE"
  /\ \A o \in Orders : link[o] # "NONE" => status[o] # "NONE"
  /\ \A t \in Transfers : sentFor[t] # NoOrder => status[sentFor[t]] # "NONE"

(* A payment has recorded a transfer exactly when it is settled.           *)
SettledOnce ==
  \A o \in Orders : payTxn[o] = NoTransfer <=> pay[o] \in SETTLEABLE \cup {"NONE"}

(* An order is only paid by a transfer whose event was claimed; this is    *)
(* what keeps one transfer from paying twice.                              *)
PaidByClaimed ==
  \A o \in Orders : paidAt[o] # NoTransfer => paidAt[o] \in claimed

(* A payment that is to be refunded has an order that is, or was.  Weaker   *)
(* than RefundsAgree, so that it also holds once staff refund orders.      *)
RefundsFollow ==
  \A o \in Orders :
    /\ pay[o] = "REFUND_PENDING" => status[o] \in {"REFUND_PENDING", "REFUNDED"}
    /\ status[o] = "REFUND_PENDING" => pay[o] = "REFUND_PENDING"

SalesInv ==
  /\ SalesTypeOK
  /\ PlacedTogether
  /\ SettledOnce
  /\ PaidByClaimed
  /\ OpenPaymentMeansOpenOrder
  /\ SettleableIsPayable
  /\ ServedMeansPaid
  /\ RefundsFollow

(* No order, no payment and no transfer exists at the start.               *)
LEMMA InitSalesInv == SalesInit => SalesInv
  <1> SUFFICES ASSUME SalesInit PROVE SalesInv
    OBVIOUS
  <1>1. DbTypeOK
    BY InitTypeOK DEF SalesInit
  <1>2. CheckoutTypeOK
    BY DEF SalesInit, CheckoutInit, CheckoutTypeOK, LinkStatuses, NoTransfer
  <1> QED
    BY <1>1, <1>2, NoOrderAssumption
    DEF SalesInit, DbInit, CheckoutInit, SalesInv, SalesTypeOK, PlacedTogether,
        SettledOnce, PaidByClaimed, OpenPaymentMeansOpenOrder, SettleableIsPayable,
        SETTLEABLE, ServedMeansPaid, PaidStatuses, RefundsFollow, NoTransfer, Transfers

-----------------------------------------------------------------------------
(* What a step of DSP or of the device may do to orders, as Sales needs it.*)

Served(from, to) ==
  \/ from = to
  \/ from = "PAID" /\ to \in {"DISPENSE_REQUESTED", "FAILED"}
  \/ from = "DISPENSE_REQUESTED" /\ to \in {"DISPENSED", "FAILED", "FORFEITED"}

(* DSP only takes orders that were paid further along.                     *)
LEMMA DispenseServes ==
  ASSUME DbTypeOK, DispenseContract
  PROVE  /\ \A o \in Orders : Served(status[o], status'[o])
         /\ \A o \in Orders : o \in review => o \in review' \/ status'[o] = "FORFEITED"
         /\ UNCHANGED paidAt
  <1> USE DEF Served, DbTypeOK
  <1>1. ASSUME NEW o \in Orders, OrderArmed(o)
        PROVE  (\A p \in Orders : Served(status[p], status'[p])) /\ UNCHANGED <<review, paidAt>>
    BY <1>1 DEF OrderArmed, StartDispense
  <1>2. ASSUME NEW d \in Diags, DiagnosticCreated(d) PROVE UNCHANGED orderVars
    BY <1>2 DEF DiagnosticCreated
  <1>3. ASSUME NEW c \in Commands,
               CommandSent(c) \/ CommandAcknowledged(c) \/ CommandLost(c)
        PROVE  UNCHANGED <<status, paidAt>> /\ review \subseteq review'
    BY <1>3 DEF CommandSent, CommandAcknowledged, CommandLost, FlagForReview
  <1>4. ASSUME NEW c \in Commands, NEW outcome \in Outcomes \cup {ExpiredCommand},
               CommandCloses(c, outcome)
        PROVE  /\ \A o \in Orders : Served(status[o], status'[o])
               /\ \A o \in Orders : o \in review => o \in review' \/ status'[o] = "FORFEITED"
               /\ UNCHANGED paidAt
    <2>1. outcome.order \in {"DISPENSED", "FAILED", "FORFEITED"}
      BY DEF Outcomes, ExpiredCommand, Delivered, Broken, Refused, NotPressed, Outcome
    <2> QED
      BY <1>4, <2>1 DEF CommandCloses, FinishDispense
  <1> QED
    BY <1>1, <1>2, <1>3, <1>4 DEF DispenseContract

(* Orders that only move on after their payment keep the invariant.        *)
LEMMA ServingKeepsInv ==
  ASSUME SalesInv, DbTypeOK',
         \A o \in Orders : Served(status[o], status'[o]),
         UNCHANGED <<paidAt, checkoutVars>>
  PROVE  SalesInv'
  <1>1. SalesTypeOK'
    BY DEF SalesInv, SalesTypeOK, CheckoutTypeOK
  <1>2. PlacedTogether'
    BY DEF SalesInv, PlacedTogether, Served, SalesTypeOK, CheckoutTypeOK
  <1>3. SettledOnce' /\ PaidByClaimed'
    BY DEF SalesInv, SettledOnce, PaidByClaimed
  <1>4. OpenPaymentMeansOpenOrder' /\ SettleableIsPayable' /\ RefundsFollow'
    BY DEF SalesInv, OpenPaymentMeansOpenOrder, SettleableIsPayable, RefundsFollow, Served
  <1>5. ServedMeansPaid'
    BY DEF SalesInv, ServedMeansPaid, PaidStatuses, Served
  <1> QED
    BY <1>1, <1>2, <1>3, <1>4, <1>5 DEF SalesInv

(* The dispense service keeps SalesInv.                                    *)
LEMMA DispenseKeepsSalesInv ==
    SalesInv /\ DispenseContract /\ UNCHANGED checkoutVars => SalesInv'
  BY DispenseServes, ServingKeepsInv, DispenseKeepsType DEF SalesInv, SalesTypeOK

(* The machine's mode keeps SalesInv.                                      *)
LEMMA ModeKeepsSalesInv ==
    SalesInv /\ MachineModeNext /\ UNCHANGED checkoutVars => SalesInv'
  <1> SUFFICES ASSUME SalesInv, MachineModeNext, UNCHANGED checkoutVars PROVE SalesInv'
    OBVIOUS
  <1>1. DbTypeOK'
    BY ModeKeepsType DEF SalesInv, SalesTypeOK
  <1>2. UNCHANGED orderVars
    BY DEF MachineModeNext, SetMode, CompleteDraining, OpenRefill, CloseRefill,
       LoseConnection, Heartbeat, EnableSlot, DisableSlot
  <1> QED
    BY <1>1, <1>2, ServingKeepsInv DEF Served

-----------------------------------------------------------------------------
(* The steps of Checkout, one lemma per group of actions that touch the    *)
(* same variables.                                                         *)

(* The bank, the clock, and what the handlers do before they commit.       *)
LEMMA OutsideKeepsSalesInv ==
  ASSUME SalesInv, UNCHANGED <<dbVars, paymentVars>>,
         \/ \E o \in Orders, t \in Transfers : Transfer(t, o)
         \/ \E o \in Orders :
              PaymentDeadline(o) \/ AskCancel(o) \/ AskExpire(o) \/ AskForced(o)
         \/ ListUnpaid \/ LoseClosing
  PROVE  SalesInv'
  <1> USE DEF SalesInv, SalesTypeOK
  <1>1. DbTypeOK'
    BY DEF DbTypeOK
  <1>2. ASSUME NEW o \in Orders, NEW t \in Transfers, Transfer(t, o)
        PROVE CheckoutTypeOK' /\ PlacedTogether' /\ ServedMeansPaid'
    <2>1. CheckoutTypeOK'
      BY <1>2 DEF Transfer, CheckoutTypeOK, LinkStatuses
    <2>2. PlacedTogether'
      BY <1>2, NoOrderAssumption DEF Transfer, PlacedTogether, CheckoutTypeOK, LinkStatuses
    <2>3. ServedMeansPaid'
      BY <1>2, NoOrderAssumption
      DEF Transfer, ServedMeansPaid, CheckoutTypeOK, DbTypeOK
    <2> QED
      BY <2>1, <2>2, <2>3
  <1>3. ASSUME UNCHANGED <<sentFor, rightAmount, onTime>>,
               \/ \E o \in Orders :
                    PaymentDeadline(o) \/ AskCancel(o) \/ AskExpire(o) \/ AskForced(o)
               \/ ListUnpaid \/ LoseClosing
        PROVE CheckoutTypeOK' /\ PlacedTogether' /\ ServedMeansPaid'
    <2>1. CheckoutTypeOK'
      <3>1. CASE ListUnpaid \/ LoseClosing
        <4>1. closing' \subseteq (Orders \cup {NoOrder}) \X ClosingKinds
          BY <3>1 DEF ListUnpaid, LoseClosing, CheckoutTypeOK, ClosingKinds
        <4> QED
          BY <3>1, <4>1 DEF ListUnpaid, LoseClosing, CheckoutTypeOK
      <3>2. ASSUME NEW o \in Orders, AskCancel(o) \/ AskExpire(o) \/ AskForced(o)
            PROVE  CheckoutTypeOK'
        <4>1. closing' \subseteq (Orders \cup {NoOrder}) \X ClosingKinds
          BY <3>2 DEF AskCancel, AskExpire, AskForced, CheckoutTypeOK, ClosingKinds
        <4>2. link' \in [Orders -> LinkStatuses]
          BY <3>2 DEF AskCancel, AskExpire, AskForced, GatewayCloses, CheckoutTypeOK,
             LinkStatuses
        <4> QED
          BY <3>2, <4>1, <4>2 DEF AskCancel, AskExpire, AskForced, CheckoutTypeOK
      <3>3. ASSUME NEW o \in Orders, PaymentDeadline(o) PROVE CheckoutTypeOK'
        BY <3>3 DEF PaymentDeadline, CheckoutTypeOK
      <3> QED
        BY <1>3, <3>1, <3>2, <3>3
    <2>2. PlacedTogether'
      BY <1>3 DEF PaymentDeadline, AskCancel, AskExpire, AskForced, GatewayCloses,
         ListUnpaid, LoseClosing, PlacedTogether, CheckoutTypeOK, SettleableIsPayable,
         SETTLEABLE
    <2>3. ServedMeansPaid'
      BY <1>3 DEF ServedMeansPaid
    <2> QED
      BY <2>1, <2>2, <2>3
  <1>4. CheckoutTypeOK' /\ PlacedTogether' /\ ServedMeansPaid'
    BY <1>2, <1>3 DEF PaymentDeadline, AskCancel, AskExpire, AskForced,
       ListUnpaid, LoseClosing
  <1>5. /\ SettledOnce' /\ PaidByClaimed' /\ OpenPaymentMeansOpenOrder'
        /\ SettleableIsPayable' /\ RefundsFollow'
    BY DEF SettledOnce, PaidByClaimed, OpenPaymentMeansOpenOrder,
       SettleableIsPayable, RefundsFollow
  <1> QED
    BY <1>1, <1>4, <1>5

(* createNew, with the overdue order it expires.                           *)
LEMMA CreateKeepsSalesInv ==
  ASSUME SalesInv, NEW o \in Orders, CreateOrder(o)
  PROVE  SalesInv'
  <1> USE DEF SalesInv, SalesTypeOK, CreateOrder, OpenOrders
  <1>1. DbTypeOK' /\ CheckoutTypeOK'
    BY DEF DbTypeOK, OrderStatuses, CheckoutTypeOK, PaymentStatuses, LinkStatuses
  <1>2. PlacedTogether'
    BY NoOrderAssumption DEF PlacedTogether, DbTypeOK, CheckoutTypeOK
  <1>3. SettledOnce' /\ PaidByClaimed'
    BY DEF SettledOnce, PaidByClaimed, PlacedTogether, SETTLEABLE, DbTypeOK, CheckoutTypeOK
  <1>4. OpenPaymentMeansOpenOrder' /\ SettleableIsPayable' /\ RefundsFollow'
    BY DEF OpenPaymentMeansOpenOrder, SettleableIsPayable, RefundsFollow, PlacedTogether,
       SETTLEABLE, DbTypeOK, CheckoutTypeOK
  <1>5. ServedMeansPaid'
    BY DEF ServedMeansPaid, PaidStatuses, PlacedTogether, DbTypeOK, CheckoutTypeOK
  <1> QED
    BY <1>1, <1>2, <1>3, <1>4, <1>5

(* The transaction after a gateway call.                                   *)
LEMMA CloseKeepsSalesInv ==
  ASSUME SalesInv, NEW o \in Orders, CommitCancel(o) \/ CommitExpire(o)
  PROVE  SalesInv'
  <1> USE DEF SalesInv, SalesTypeOK
  <1> PICK kind \in ClosingKinds, payment \in {"CANCELLED", "EXPIRED"} :
        CloseUnpaid(o, kind, payment)
    BY DEF CommitCancel, CommitExpire, ClosingKinds
  <1> USE DEF CloseUnpaid
  <1>1. DbTypeOK' /\ CheckoutTypeOK'
    BY DEF DbTypeOK, OrderStatuses, CheckoutTypeOK, PaymentStatuses
  <1>2. PlacedTogether'
    BY NoOrderAssumption DEF PlacedTogether, DbTypeOK, CheckoutTypeOK
  <1>3. SettledOnce' /\ PaidByClaimed'
    BY DEF SettledOnce, PaidByClaimed, SETTLEABLE, CheckoutTypeOK
  <1>4. OpenPaymentMeansOpenOrder' /\ SettleableIsPayable' /\ RefundsFollow'
    BY DEF OpenPaymentMeansOpenOrder, SettleableIsPayable, RefundsFollow,
       SETTLEABLE, DbTypeOK, CheckoutTypeOK
  <1>5. ServedMeansPaid'
    BY DEF ServedMeansPaid, PaidStatuses, DbTypeOK, CheckoutTypeOK
  <1> QED
    BY <1>1, <1>2, <1>3, <1>4, <1>5

(* A failure reported by the gateway.                                      *)
LEMMA FailedKeepsSalesInv ==
  ASSUME SalesInv, NEW o \in Orders, WebhookFailed(o)
  PROVE  SalesInv'
  <1> USE DEF SalesInv, SalesTypeOK, WebhookFailed
  <1>0. UNCHANGED claimed /\ failed' \subseteq Transfers
    BY DEF FailureEvent, CheckoutTypeOK
  <1>1. DbTypeOK' /\ CheckoutTypeOK'
    BY <1>0 DEF DbTypeOK, CheckoutTypeOK, PaymentStatuses
  <1>2. PlacedTogether'
    BY DEF PlacedTogether, CheckoutTypeOK
  <1>3. SettledOnce' /\ PaidByClaimed'
    BY <1>0 DEF SettledOnce, PaidByClaimed, SETTLEABLE, CheckoutTypeOK
  <1>4. OpenPaymentMeansOpenOrder' /\ SettleableIsPayable' /\ RefundsFollow'
    BY DEF OpenPaymentMeansOpenOrder, SettleableIsPayable, RefundsFollow,
       SETTLEABLE, CheckoutTypeOK
  <1>5. ServedMeansPaid'
    BY DEF ServedMeansPaid, CheckoutTypeOK
  <1> QED
    BY <1>1, <1>2, <1>3, <1>4, <1>5

(* A wrong amount, or a second transfer.                                   *)
LEMMA UnusableKeepsSalesInv ==
  ASSUME SalesInv, NEW t \in Transfers, WebhookUnusable(t)
  PROVE  SalesInv'
  BY DEF SalesInv, SalesTypeOK, WebhookUnusable, ClaimEvent, FlagForReview,
     DbTypeOK, CheckoutTypeOK, PlacedTogether, SettledOnce, PaidByClaimed,
     OpenPaymentMeansOpenOrder, SettleableIsPayable, RefundsFollow, ServedMeansPaid

(* settle, and settleOrderPayment within it.                               *)
LEMMA PaidKeepsSalesInv ==
  ASSUME SalesInv, NEW t \in Transfers, WebhookPaid(t)
  PROVE  SalesInv'
  <1> DEFINE o == sentFor[t]
  <1> USE DEF SalesInv, SalesTypeOK
  <1>0. /\ o \in Orders /\ o # NoOrder
        /\ claimed' = claimed \cup {t}
        /\ t \in rightAmount
        /\ UNCHANGED <<cmd, slot, machineVars, failed, gatewayVars, late, closing>>
    BY DEF WebhookPaid, ClaimEvent, CheckoutTypeOK
  <1>1. CASE ~IsSettleable(o)
    <2>1. UNCHANGED <<orderVars, pay, payTxn>>
      BY <1>1 DEF WebhookPaid
    <2> QED
      BY <1>0, <2>1 DEF DbTypeOK, CheckoutTypeOK, PlacedTogether, SettledOnce,
         PaidByClaimed, OpenPaymentMeansOpenOrder, SettleableIsPayable,
         RefundsFollow, ServedMeansPaid
  <1>2. CASE IsSettleable(o)
    <2> USE <1>0
    <2>1. /\ SettleOrderPayment(o, t)
          /\ pay' = [pay EXCEPT ![o] =
                       IF SettlesAsPaid(o, t) THEN "SUCCEEDED" ELSE "REFUND_PENDING"]
          /\ payTxn' = [payTxn EXCEPT ![o] = t]
      BY <1>2 DEF WebhookPaid
    <2>2. status[o] \in {"PENDING_PAYMENT", "EXPIRED"}
      BY <1>2 DEF IsSettleable, SettleableIsPayable
    <2>3. CASE SettlesAsPaid(o, t)
      <3>1. /\ status' = [status EXCEPT ![o] = "PAID"]
            /\ paidAt' = [paidAt EXCEPT ![o] = t]
            /\ pay' = [pay EXCEPT ![o] = "SUCCEEDED"]
            /\ t \in onTime
            /\ UNCHANGED review
        BY <2>1, <2>3 DEF SettleOrderPayment, SettlesAsPaid
      <3>2. DbTypeOK' /\ CheckoutTypeOK'
        BY <2>1, <3>1 DEF DbTypeOK, OrderStatuses, CheckoutTypeOK, PaymentStatuses
      <3>3. PlacedTogether' /\ SettledOnce' /\ PaidByClaimed'
        BY <2>1, <2>2, <3>1 DEF PlacedTogether, SettledOnce, PaidByClaimed, SETTLEABLE,
           DbTypeOK, CheckoutTypeOK, NoTransfer, Transfers
      <3>4. OpenPaymentMeansOpenOrder' /\ SettleableIsPayable' /\ RefundsFollow'
        BY <2>1, <2>2, <3>1 DEF OpenPaymentMeansOpenOrder, SettleableIsPayable,
           RefundsFollow, SETTLEABLE, DbTypeOK, CheckoutTypeOK
      <3>5. ServedMeansPaid'
        BY <2>1, <2>2, <3>1 DEF ServedMeansPaid, PaidStatuses, DbTypeOK,
           CheckoutTypeOK, NoTransfer, Transfers
      <3> QED
        BY <3>2, <3>3, <3>4, <3>5
    <2>4. CASE ~SettlesAsPaid(o, t)
      <3>1. /\ status' = [status EXCEPT ![o] = "REFUND_PENDING"]
            /\ paidAt' = paidAt
            /\ pay' = [pay EXCEPT ![o] = "REFUND_PENDING"]
            /\ review' = review \cup {o}
        BY <2>1, <2>2, <2>4 DEF SettleOrderPayment, DbTypeOK
      <3>2. DbTypeOK' /\ CheckoutTypeOK'
        BY <2>1, <3>1 DEF DbTypeOK, OrderStatuses, CheckoutTypeOK, PaymentStatuses
      <3>3. PlacedTogether' /\ SettledOnce' /\ PaidByClaimed'
        BY <2>1, <2>2, <3>1 DEF PlacedTogether, SettledOnce, PaidByClaimed, SETTLEABLE,
           DbTypeOK, CheckoutTypeOK, NoTransfer, Transfers
      <3>4. OpenPaymentMeansOpenOrder' /\ SettleableIsPayable' /\ RefundsFollow'
        BY <2>1, <2>2, <3>1 DEF OpenPaymentMeansOpenOrder, SettleableIsPayable,
           RefundsFollow, SETTLEABLE, DbTypeOK, CheckoutTypeOK
      <3>5. ServedMeansPaid'
        BY <2>1, <2>2, <3>1 DEF ServedMeansPaid, PaidStatuses, DbTypeOK,
           CheckoutTypeOK, NoTransfer, Transfers
      <3> QED
        BY <3>2, <3>3, <3>4, <3>5
    <2> QED
      BY <2>3, <2>4
  <1> QED
    BY <1>1, <1>2

(* A paid order that is not served, and a machine forced into maintenance. *)
LEMMA PaidFailsKeepsSalesInv ==
  ASSUME SalesInv, ForceAndCancel \/ \E o \in Orders : QueueTimeout(o)
  PROVE  SalesInv'
  <1> USE DEF SalesInv, SalesTypeOK
  <1>1. CASE ForceAndCancel
    <2>1. DbTypeOK'
      BY <1>1, ModeKeepsType DEF ForceAndCancel
    <2>2. CheckoutTypeOK'
      BY <1>1 DEF ForceAndCancel, ForcedMachine, ClosingKinds, CheckoutTypeOK
    <2>3. \A o \in Orders : Served(status[o], status'[o])
      BY <1>1 DEF ForceAndCancel, ForceMaintenance, FailBeforeDispense, PaidQueue,
         Served, DbTypeOK
    <2> QED
      BY <1>1, <2>1, <2>2, <2>3
      DEF ForceAndCancel, ForceMaintenance, Served, PlacedTogether, SettledOnce,
          PaidByClaimed, OpenPaymentMeansOpenOrder, SettleableIsPayable,
          ServedMeansPaid, PaidStatuses, RefundsFollow, CheckoutTypeOK
  <1>2. ASSUME NEW o \in Orders, QueueTimeout(o) PROVE SalesInv'
    <2>1. DbTypeOK'
      BY <1>2 DEF QueueTimeout, FailBeforeDispense, DbTypeOK, OrderStatuses
    <2>2. \A p \in Orders : Served(status[p], status'[p])
      BY <1>2 DEF QueueTimeout, FailBeforeDispense, Served, DbTypeOK
    <2> QED
      BY <1>2, <2>1, <2>2, ServingKeepsInv DEF QueueTimeout
  <1> QED
    BY <1>1, <1>2

(* SalesInv is inductive.                                                  *)
LEMMA StepKeepsSalesInv == SalesInv /\ [SalesNext]_salesVars => SalesInv'
  <1> SUFFICES ASSUME SalesInv, [SalesNext]_salesVars PROVE SalesInv'
    OBVIOUS
  <1>1. CASE UNCHANGED salesVars
    BY <1>1, ServingKeepsInv DEF salesVars, Served, SalesInv, SalesTypeOK, DbTypeOK
  <1>2. CASE CheckoutNext
    <2>1. ASSUME NEW o \in Orders, NEW t \in Transfers, Transfer(t, o) PROVE SalesInv'
      BY <2>1, OutsideKeepsSalesInv DEF Transfer
    <2>2. ASSUME NEW o \in Orders,
                 PaymentDeadline(o) \/ AskCancel(o) \/ AskExpire(o) \/ AskForced(o)
          PROVE SalesInv'
      BY <2>2, OutsideKeepsSalesInv DEF PaymentDeadline, AskCancel, AskExpire, AskForced
    <2>3. CASE ListUnpaid \/ LoseClosing
      BY <2>3, OutsideKeepsSalesInv DEF ListUnpaid, LoseClosing
    <2> QED
      BY <1>2, <2>1, <2>2, <2>3, CreateKeepsSalesInv, CloseKeepsSalesInv,
         FailedKeepsSalesInv, UnusableKeepsSalesInv, PaidKeepsSalesInv,
         PaidFailsKeepsSalesInv
      DEF CheckoutNext
  <1> QED
    BY <1>1, <1>2, ModeKeepsSalesInv, DispenseKeepsSalesInv DEF SalesNext

(* Orders and payments keep SalesInv under every order of webhooks,        *)
(* cancellations, jobs and crashes.                                        *)
THEOREM SalesSafety == SalesSpec => []SalesInv
  <1>1. SalesInit => SalesInv
    BY InitSalesInv
  <1>2. SalesInv /\ [SalesNext]_salesVars => SalesInv'
    BY StepKeepsSalesInv
  <1> QED
    BY <1>1, <1>2, PTL DEF SalesSpec

(* The rows and the gateway's state keep their types.                      *)
THEOREM SalesTypeCorrect == SalesSpec => []SalesTypeOK
  <1>1. SalesInv => SalesTypeOK
    BY DEF SalesInv
  <1> QED
    BY <1>1, SalesSafety, PTL

(* An open payment belongs to an open order.                               *)
THEOREM SalesOpenPaymentMeansOpenOrder == SalesSpec => []OpenPaymentMeansOpenOrder
  <1>1. SalesInv => OpenPaymentMeansOpenOrder
    BY DEF SalesInv
  <1> QED
    BY <1>1, SalesSafety, PTL

(* settleOrderPayment's last branch is never reached.                      *)
THEOREM SalesSettleableIsPayable == SalesSpec => []SettleableIsPayable
  <1>1. SalesInv => SettleableIsPayable
    BY DEF SalesInv
  <1> QED
    BY <1>1, SalesSafety, PTL

(* Nobody is served, failed or forfeited who has not paid on time and in   *)
(* full, by the one transfer the payment records.                          *)
THEOREM SalesServedMeansPaid == SalesSpec => []ServedMeansPaid
  <1>1. SalesInv => ServedMeansPaid
    BY DEF SalesInv
  <1> QED
    BY <1>1, SalesSafety, PTL

-----------------------------------------------------------------------------
(* What a step of Sales may do to an order and to its money.               *)

NewStatus(from, to) ==
  \/ Served(from, to)
  \/ /\ from \in {"NONE", "CREATED", "PENDING_PAYMENT", "EXPIRED"}
     /\ to \in {"PENDING_PAYMENT", "EXPIRED", "REFUND_PENDING"}
  \/ from = "PENDING_PAYMENT" /\ to = "PAID"

OrderGoesOn(o) ==
  /\ NewStatus(status[o], status'[o])
  /\ status'[o] \in {"FAILED", "REFUND_PENDING"} => status'[o] = status[o] \/ o \in review'
  /\ o \in review => o \in review' \/ status'[o] = "FORFEITED"

MoneyGoesOn(o) ==
  /\ payTxn'[o] = payTxn[o] \/ (payTxn[o] = NoTransfer /\ sentFor'[payTxn'[o]] = o
                                 /\ payTxn'[o] \in claimed')
  /\ \/ paidAt'[o] = paidAt[o]
     \/ /\ paidAt'[o] \notin claimed
        /\ payTxn[o] = NoTransfer /\ payTxn'[o] = paidAt'[o]
        /\ status[o] = "PENDING_PAYMENT" /\ status'[o] = "PAID"

TransferGoesOn(t) ==
  /\ t \in claimed => t \in claimed'
  /\ sentFor[t] # NoOrder => sentFor'[t] = sentFor[t]
  /\ t \in claimed' => t \in claimed \/ sentFor'[t] # NoOrder

GoesOn ==
  /\ \A o \in Orders : OrderGoesOn(o) /\ MoneyGoesOn(o)
  /\ \A t \in Transfers : TransferGoesOn(t)

(* An order that does not move, and money that does not.                   *)
LEMMA StillGoesOn ==
  /\ UNCHANGED <<status, review>> => \A o \in Orders : OrderGoesOn(o)
  /\ UNCHANGED <<paidAt, payTxn>> => \A o \in Orders : MoneyGoesOn(o)
  /\ UNCHANGED <<claimed, sentFor>> => \A t \in Transfers : TransferGoesOn(t)
  BY DEF OrderGoesOn, NewStatus, Served, MoneyGoesOn, TransferGoesOn

(* Every step lets orders and money only go on: no transfer is forgotten,  *)
(* none pays twice, and nothing but a refund makes an order REFUNDED.      *)
LEMMA StepGoesOn ==
  ASSUME SalesInv, [SalesNext]_salesVars
  PROVE  GoesOn
  <1> USE StillGoesOn DEF SalesInv, SalesTypeOK, GoesOn
  <1>1. CASE UNCHANGED salesVars
    BY <1>1 DEF salesVars
  <1>2. CASE DispenseContract /\ UNCHANGED checkoutVars
    <2>1. \A o \in Orders : OrderGoesOn(o)
      BY <1>2, DispenseServes, DispenseMoves
      DEF OrderGoesOn, NewStatus, Served, OrderMoves
    <2> QED
      BY <1>2, <2>1, DispenseServes
  <1>3. CASE MachineModeNext /\ UNCHANGED checkoutVars
    BY <1>3 DEF MachineModeNext, SetMode, CompleteDraining, OpenRefill, CloseRefill,
       LoseConnection, Heartbeat, EnableSlot, DisableSlot
  <1>4. ASSUME NEW o \in Orders, NEW t \in Transfers, Transfer(t, o) PROVE GoesOn
    BY <1>4 DEF Transfer, TransferGoesOn, CheckoutTypeOK
  <1>5. ASSUME NEW o \in Orders,
               \/ PaymentDeadline(o)
               \/ AskCancel(o) \/ AskExpire(o) \/ AskForced(o)
        PROVE  GoesOn
    BY <1>5 DEF PaymentDeadline, AskCancel, AskExpire, AskForced
  <1>6. ASSUME NEW o \in Orders, WebhookFailed(o) PROVE GoesOn
    <2>1. \A t \in Transfers : TransferGoesOn(t)
      BY <1>6, NoOrderAssumption DEF WebhookFailed, FailureEvent, ClaimEvent, TransferGoesOn
    <2> QED
      BY <1>6, <2>1 DEF WebhookFailed
  <1>7. ASSUME NEW o \in Orders, CreateOrder(o) PROVE GoesOn
    <2>1. \A p \in Orders : OrderGoesOn(p)
      BY <1>7 DEF CreateOrder, OpenOrders, OrderGoesOn, NewStatus, Served, DbTypeOK
    <2> QED
      BY <1>7, <2>1 DEF CreateOrder
  <1>8. ASSUME NEW o \in Orders, CommitCancel(o) \/ CommitExpire(o) PROVE GoesOn
    <2>1. \A p \in Orders : OrderGoesOn(p)
      BY <1>8 DEF CommitCancel, CommitExpire, CloseUnpaid, OrderGoesOn, NewStatus, Served,
         DbTypeOK
    <2> QED
      BY <1>8, <2>1 DEF CommitCancel, CommitExpire, CloseUnpaid
  <1>9. ASSUME ForceAndCancel \/ \E o \in Orders : QueueTimeout(o) PROVE GoesOn
    <2>1. \A p \in Orders : OrderGoesOn(p)
      BY <1>9 DEF ForceAndCancel, ForceMaintenance, QueueTimeout, FailBeforeDispense,
         PaidQueue, OrderGoesOn, NewStatus, Served, DbTypeOK
    <2> QED
      BY <1>9, <2>1 DEF ForceAndCancel, ForceMaintenance, QueueTimeout
  <1>10. CASE ListUnpaid \/ LoseClosing
    BY <1>10 DEF ListUnpaid, LoseClosing
  <1>11. ASSUME NEW t \in Transfers, WebhookUnusable(t) PROVE GoesOn
    <2>1. \A o \in Orders : OrderGoesOn(o)
      BY <1>11 DEF WebhookUnusable, FlagForReview, OrderGoesOn, NewStatus, Served
    <2>2. \A s \in Transfers : TransferGoesOn(s)
      BY <1>11 DEF WebhookUnusable, ClaimEvent, TransferGoesOn
    <2> QED
      BY <1>11, <2>1, <2>2 DEF WebhookUnusable
  <1>12. ASSUME NEW t \in Transfers, WebhookPaid(t) PROVE GoesOn
    <2> DEFINE o == sentFor[t]
    <2>1. /\ o \in Orders /\ o # NoOrder
          /\ t \notin claimed /\ claimed' = claimed \cup {t}
          /\ UNCHANGED sentFor
      BY <1>12 DEF WebhookPaid, ClaimEvent, IsNewEvent, CheckoutTypeOK
    <2>2. \A s \in Transfers : TransferGoesOn(s)
      BY <2>1 DEF TransferGoesOn
    <2>3. CASE ~IsSettleable(o)
      BY <1>12, <2>2, <2>3 DEF WebhookPaid
    <2>4. CASE IsSettleable(o)
      <3>1. /\ status[o] \in {"PENDING_PAYMENT", "EXPIRED"}
            /\ payTxn[o] = NoTransfer
            /\ SettleOrderPayment(o, t)
            /\ payTxn' = [payTxn EXCEPT ![o] = t]
        BY <1>12, <2>1, <2>4
        DEF WebhookPaid, IsSettleable, SettleableIsPayable, SettledOnce
      <3>2. \A p \in Orders : OrderGoesOn(p)
        BY <2>1, <3>1
        DEF SettleOrderPayment, SettlesAsPaid, OrderGoesOn, NewStatus, Served, DbTypeOK
      <3>3. \A p \in Orders : MoneyGoesOn(p)
        BY <2>1, <3>1
        DEF SettleOrderPayment, SettlesAsPaid, MoneyGoesOn, DbTypeOK, CheckoutTypeOK
      <3> QED
        BY <2>2, <3>2, <3>3
    <2> QED
      BY <2>3, <2>4
  <1> QED
    BY <1>1, <1>2, <1>3, <1>4, <1>5, <1>6, <1>7, <1>8, <1>9, <1>10, <1>11, <1>12
    DEF SalesNext, CheckoutNext

-----------------------------------------------------------------------------
(* Without staff no order is REFUNDED.                                     *)
NeverRefunded == \A o \in Orders : status[o] # "REFUNDED"

(* Orders and payments agree on what is to be refunded.                    *)
THEOREM SalesRefundsAgree == SalesSpec => []RefundsAgree
  <1>1. SalesInit => NeverRefunded
    BY DEF SalesInit, DbInit, NeverRefunded
  <1>2. SalesInv /\ NeverRefunded /\ [SalesNext]_salesVars => NeverRefunded'
    BY StepGoesOn DEF NeverRefunded, GoesOn, OrderGoesOn, NewStatus, Served
  <1>3. SalesInv /\ NeverRefunded => RefundsAgree
    BY DEF SalesInv, RefundsFollow, NeverRefunded, RefundsAgree
  <1> QED
    BY <1>1, <1>2, <1>3, SalesSafety, PTL DEF SalesSpec

(* An order and its payment wait together and are refunded together.       *)
THEOREM SalesPaymentFollowsOrder == SalesSpec => []PaymentFollowsOrder
  <1>1. OpenPaymentMeansOpenOrder /\ RefundsAgree => PaymentFollowsOrder
    BY DEF PaymentFollowsOrder
  <1> QED
    BY <1>1, SalesOpenPaymentMeansOpenOrder, SalesRefundsAgree, PTL

-----------------------------------------------------------------------------
(* Refinement: Sales does on the shared rows what StationContract allows.  *)

(* The contract's rows start as the contract says.                         *)
LEMMA SalesInitRefines == SalesInit => DbInit
  BY DEF SalesInit

(* Each step of Checkout maps to a step or to a stutter of the contract.   *)
LEMMA CheckoutRefines ==
    SalesInv /\ CheckoutNext => CheckoutContract \/ ForceMaintenance \/ UNCHANGED dbVars
  <1> SUFFICES ASSUME SalesInv, CheckoutNext
      PROVE  CheckoutContract \/ ForceMaintenance \/ UNCHANGED dbVars
    OBVIOUS
  <1> USE DEF SalesInv, SalesTypeOK
  <1>1. ASSUME NEW o \in Orders,
               \/ \E t \in Transfers : Transfer(t, o)
               \/ PaymentDeadline(o)
               \/ AskCancel(o) \/ AskExpire(o) \/ AskForced(o)
               \/ WebhookFailed(o)
        PROVE  UNCHANGED dbVars
    BY <1>1 DEF Transfer, PaymentDeadline, AskCancel, AskExpire, AskForced, WebhookFailed
  <1>2. ASSUME NEW o \in Orders, CreateOrder(o) PROVE OrderPlaced(o)
    BY <1>2 DEF CreateOrder, OrderPlaced
  <1>3. ASSUME NEW o \in Orders, CommitCancel(o) \/ CommitExpire(o)
        PROVE  OrderExpired(o) \/ UNCHANGED dbVars
    BY <1>3 DEF CommitCancel, CommitExpire, CloseUnpaid, OrderExpired
  <1>4. ASSUME NEW o \in Orders, QueueTimeout(o) PROVE PaidOrderFails(o)
    BY <1>4 DEF QueueTimeout, PaidOrderFails
  <1>5. ASSUME NEW t \in Transfers, WebhookUnusable(t)
        PROVE  \E o \in Orders : MoneyUnusable(o)
    BY <1>5 DEF WebhookUnusable, MoneyUnusable, PlacedTogether, CheckoutTypeOK
  <1>6. ASSUME NEW t \in Transfers, WebhookPaid(t)
        PROVE  CheckoutContract \/ UNCHANGED dbVars
    <2> DEFINE o == sentFor[t]
    <2>1. /\ o \in Orders
          /\ t \notin claimed
          /\ UNCHANGED <<cmd, slot, machineVars>>
      BY <1>6 DEF WebhookPaid, ClaimEvent, IsNewEvent, CheckoutTypeOK
    <2>2. CASE ~IsSettleable(o)
      BY <1>6, <2>2 DEF WebhookPaid
    <2>3. CASE IsSettleable(o) /\ SettlesAsPaid(o, t)
      <3>1. \A p \in Orders : paidAt[p] # t
        BY <2>1 DEF PaidByClaimed, NoTransfer, Transfers
      <3>2. OrderPaid(o, t)
        BY <1>6, <2>1, <2>3, <3>1
        DEF WebhookPaid, SettleOrderPayment, SettlesAsPaid, OrderPaid
      <3> QED
        BY <2>1, <3>2 DEF CheckoutContract
    <2>4. CASE IsSettleable(o) /\ ~SettlesAsPaid(o, t)
      <3>1. status[o] \in {"PENDING_PAYMENT", "EXPIRED"}
        BY <2>1, <2>4 DEF IsSettleable, SettleableIsPayable
      <3>2. MoneyTooLate(o)
        BY <1>6, <2>1, <2>4, <3>1
        DEF WebhookPaid, SettleOrderPayment, MoneyTooLate, FlagForReview, DbTypeOK
      <3> QED
        BY <2>1, <3>2 DEF CheckoutContract
    <2> QED
      BY <2>2, <2>3, <2>4
  <1>7. CASE ForceAndCancel
    BY <1>7 DEF ForceAndCancel
  <1>8. CASE ListUnpaid \/ LoseClosing
    BY <1>8 DEF ListUnpaid, LoseClosing
  <1> QED
    BY <1>1, <1>2, <1>3, <1>4, <1>5, <1>6, <1>7, <1>8
    DEF CheckoutNext, CheckoutContract

(* Checkout keeps the contract, whatever the number of customers and       *)
(* transfers and in whatever order the gateway's calls return.             *)
THEOREM SalesImplementsContract == SalesSpec => ImplementsContract
  <1>1. SalesInit => DbInit
    BY SalesInitRefines
  <1>2. SalesInv /\ [SalesNext]_salesVars => [ContractNext]_dbVars
    BY CheckoutRefines DEF SalesNext, ContractNext, salesVars
  <1> QED
    BY <1>1, <1>2, SalesSafety, PTL DEF SalesSpec, ContractSpec, ImplementsContract

(* Hence what the contract guarantees holds of Sales.                      *)
THEOREM SalesKeepsPromises == SalesSpec => []ContractInv /\ ImplementsLifecycle
  BY SalesImplementsContract, ContractSafety, ContractImplementsLifecycle, PTL
  DEF ImplementsContract

-----------------------------------------------------------------------------
(* The money that the API was told of.                                     *)

MoneyInv ==
  /\ MoneyAccounted
  /\ \A t \in claimed : sentFor[t] # NoOrder

(* A step that hears of no transfer, and takes no one off the list but by  *)
(* a forfeit.                                                              *)
MoneyUntouched ==
  /\ UNCHANGED <<claimed, payTxn>>
  /\ \A t \in claimed : sentFor'[t] = sentFor[t]
  /\ \A o \in Orders : o \in review => o \in review' \/ status'[o] = "FORFEITED"
  /\ \A o \in Orders : status[o] = "FORFEITED" => status'[o] = "FORFEITED"

(* A step that touches neither money nor the list keeps MoneyInv.          *)
LEMMA UntouchedKeepsMoney ==
    CheckoutTypeOK /\ MoneyInv /\ MoneyUntouched => MoneyInv'
  BY DEF CheckoutTypeOK, MoneyInv, MoneyAccounted, MoneyUntouched

(* MoneyInv is inductive.                                                  *)
LEMMA StepKeepsMoney ==
  ASSUME SalesInv, MoneyInv, [SalesNext]_salesVars
  PROVE  MoneyInv'
  <1> USE DEF SalesInv, SalesTypeOK
  <1>1. CASE UNCHANGED salesVars
    BY <1>1, UntouchedKeepsMoney DEF salesVars, MoneyUntouched
  <1>2. CASE DispenseContract /\ UNCHANGED checkoutVars
    BY <1>2, DispenseServes, UntouchedKeepsMoney DEF MoneyUntouched, Served
  <1>3. CASE MachineModeNext /\ UNCHANGED checkoutVars
    BY <1>3, UntouchedKeepsMoney
    DEF MoneyUntouched, MachineModeNext, SetMode, CompleteDraining, OpenRefill,
        CloseRefill, LoseConnection, Heartbeat, EnableSlot, DisableSlot
  <1>4. ASSUME NEW o \in Orders, NEW t \in Transfers, Transfer(t, o) PROVE MoneyInv'
    BY <1>4, UntouchedKeepsMoney DEF Transfer, MoneyInv, MoneyUntouched, CheckoutTypeOK
  <1>5. ASSUME NEW o \in Orders,
               \/ PaymentDeadline(o)
               \/ AskCancel(o) \/ AskExpire(o) \/ AskForced(o)
               \/ WebhookFailed(o)
        PROVE  MoneyInv'
    BY <1>5, UntouchedKeepsMoney
    DEF PaymentDeadline, AskCancel, AskExpire, AskForced, WebhookFailed,
        FailureEvent, MoneyUntouched
  <1>6. ASSUME NEW o \in Orders, CreateOrder(o) PROVE MoneyInv'
    BY <1>6, UntouchedKeepsMoney DEF CreateOrder, OpenOrders, MoneyUntouched, DbTypeOK
  <1>7. ASSUME NEW o \in Orders, CommitCancel(o) \/ CommitExpire(o) PROVE MoneyInv'
    BY <1>7, UntouchedKeepsMoney
    DEF CommitCancel, CommitExpire, CloseUnpaid, MoneyUntouched, DbTypeOK
  <1>8. ASSUME ForceAndCancel \/ \E o \in Orders : QueueTimeout(o) PROVE MoneyInv'
    BY <1>8, UntouchedKeepsMoney
    DEF ForceAndCancel, ForceMaintenance, QueueTimeout, FailBeforeDispense, PaidQueue,
        MoneyUntouched, DbTypeOK
  <1>9. CASE ListUnpaid \/ LoseClosing
    BY <1>9, UntouchedKeepsMoney DEF ListUnpaid, LoseClosing, MoneyUntouched
  <1>10. ASSUME NEW t \in Transfers, WebhookUnusable(t) PROVE MoneyInv'
    BY <1>10 DEF WebhookUnusable, ClaimEvent, FlagForReview, MoneyInv, MoneyAccounted,
       CheckoutTypeOK
  <1>11. ASSUME NEW t \in Transfers, WebhookPaid(t) PROVE MoneyInv'
    <2> DEFINE o == sentFor[t]
    <2>1. /\ o \in Orders
          /\ claimed' = claimed \cup {t}
          /\ sentFor' = sentFor
          /\ ~IsExtraTransfer(o, t)
      BY <1>11 DEF WebhookPaid, ClaimEvent, CheckoutTypeOK
    <2>2. CASE ~IsSettleable(o)
      <3>1. payTxn[o] = t
        BY <2>1, <2>2, <1>11, NoOrderAssumption
        DEF IsExtraTransfer, IsSettleable, SettledOnce, PlacedTogether, SETTLEABLE, WebhookPaid
      <3> QED
        BY <1>11, <2>1, <2>2, <3>1, NoOrderAssumption
        DEF WebhookPaid, MoneyInv, MoneyAccounted
    <2>3. CASE IsSettleable(o)
      <3>1. payTxn[o] = NoTransfer
        BY <2>1, <2>3 DEF IsSettleable, SettledOnce
      <3>2. /\ payTxn' = [payTxn EXCEPT ![o] = t]
            /\ review \subseteq review'
            /\ \A p \in Orders : status[p] = "FORFEITED" => status'[p] = "FORFEITED"
        BY <1>11, <2>1, <2>3
        DEF WebhookPaid, SettleOrderPayment, SettlesAsPaid, DbTypeOK
      <3>3. /\ payTxn \in [Orders -> Transfers \cup {NoTransfer}]
            /\ claimed \subseteq Transfers /\ sentFor \in [Transfers -> Orders \cup {NoOrder}]
            /\ NoTransfer \notin Transfers
        BY DEF CheckoutTypeOK, NoTransfer, Transfers
      <3> QED
        BY <2>1, <3>1, <3>2, <3>3, NoOrderAssumption DEF MoneyInv, MoneyAccounted
    <2> QED
      BY <2>2, <2>3
  <1> QED
    BY <1>1, <1>2, <1>3, <1>4, <1>5, <1>6, <1>7, <1>8, <1>9, <1>10, <1>11
    DEF SalesNext, CheckoutNext

(* Every transfer the API was told of, and not first that it failed, is    *)
(* the one its order's payment records, or staff have been told of it.     *)
THEOREM SalesMoneyAccounted == SalesSpec => []MoneyAccounted
  <1>1. SalesInit => MoneyInv
    BY DEF SalesInit, CheckoutInit, MoneyInv, MoneyAccounted
  <1>2. SalesInv /\ MoneyInv /\ [SalesNext]_salesVars => MoneyInv'
    BY StepKeepsMoney
  <1>3. MoneyInv => MoneyAccounted
    BY DEF MoneyInv
  <1> QED
    BY <1>1, <1>2, <1>3, SalesSafety, PTL DEF SalesSpec

-----------------------------------------------------------------------------
(* Refund claims: the inductive invariant.                                 *)

(* A payment records a transfer that was made for its order and heard of;  *)
(* an order that was paid records the same one, and stays paid until it is *)
(* refunded.                                                               *)
RecordsAreTrue ==
  /\ \A t \in claimed : sentFor[t] # NoOrder
  /\ \A o \in Orders :
       /\ payTxn[o] # NoTransfer => payTxn[o] \in claimed /\ sentFor[payTxn[o]] = o
       /\ paidAt[o] # NoTransfer =>
            payTxn[o] = paidAt[o] /\ status[o] \in PaidStatuses \cup {"REFUNDED"}

(* What a claim is to pay is money of its order, that came in; the money   *)
(* the payment records is only in a claim that refunds the order.  This    *)
(* does not change after it was read, however late the claim is filed or   *)
(* paid.                                                                   *)
PaysOwn(o, whole, us) ==
  /\ \A t \in us : t \in claimed /\ sentFor[t] = o
  /\ payTxn[o] # NoTransfer
  /\ payTxn[o] \in us => whole

ClaimsPayOwn ==
  /\ \A o \in Orders : claim[o] # "NONE" => PaysOwn(o, o \in refundOrder, units[o])
  /\ \A f \in filing : PaysOwn(f.order, f.refundOrder, f.units)

(* Only a claim that is closed as REFUNDED has paid anything.              *)
PaidByClaim ==
  \A t \in Transfers :
    /\ paidBack[t] <= 1
    /\ paidBack[t] # 0 => t \in claimed /\ claim[sentFor[t]] = "REFUNDED"

RefundsInv ==
  /\ RefundsTypeOK
  /\ SalesInv
  /\ RecordsAreTrue
  /\ ClaimsPayOwn
  /\ PaidByClaim
  /\ RefundedByClaim
  /\ OwedOrClaimed

(* There is no claim at the start.                                         *)
LEMMA InitRefundsInv == RefundsInit => RefundsInv
  <1> SUFFICES ASSUME RefundsInit PROVE RefundsInv
    OBVIOUS
  <1>1. SalesInv
    BY InitSalesInv DEF RefundsInit
  <1>2. RefundsTypeOK
    BY <1>1 DEF RefundsInit, RefundsTypeOK, SalesInv, Filing
  <1>3. RecordsAreTrue /\ ClaimsPayOwn /\ PaidByClaim
    BY DEF RefundsInit, SalesInit, DbInit, CheckoutInit, RecordsAreTrue, ClaimsPayOwn,
       PaidByClaim
  <1>4. RefundedByClaim /\ OwedOrClaimed
    BY DEF RefundsInit, SalesInit, DbInit, RefundedByClaim, OwedOrClaimed
  <1> QED
    BY <1>1, <1>2, <1>3, <1>4 DEF RefundsInv

-----------------------------------------------------------------------------
(* Orders, payments and the device go on while claims are open.            *)

(* An order cannot come to be REFUNDED, nor stop being it, by itself.      *)
LEMMA SalesKeepsRefunded ==
  ASSUME GoesOn, NEW o \in Orders
  PROVE  status'[o] = "REFUNDED" <=> status[o] = "REFUNDED"
  BY DEF GoesOn, OrderGoesOn, NewStatus, Served

(* A step of Sales keeps the invariant.                                    *)
LEMMA SalesKeepsRefundsInv ==
  ASSUME RefundsInv, [SalesNext]_salesVars, UNCHANGED claimVars
  PROVE  RefundsInv'
  <1> USE DEF RefundsInv, claimVars
  <1>1. SalesInv' /\ GoesOn
    BY StepKeepsSalesInv, StepGoesOn
  <1>2. RefundsTypeOK'
    BY <1>1 DEF RefundsTypeOK, SalesInv, Filing
  <1>3. ASSUME NEW t \in claimed PROVE t \in claimed' /\ sentFor'[t] = sentFor[t]
    BY <1>1 DEF GoesOn, TransferGoesOn, RecordsAreTrue, SalesInv, SalesTypeOK, CheckoutTypeOK
  <1>4. ASSUME NEW o \in Orders, payTxn[o] # NoTransfer PROVE payTxn'[o] = payTxn[o]
    BY <1>1, <1>4 DEF GoesOn, MoneyGoesOn
  <1>5. RecordsAreTrue'
    <2>1. \A t \in claimed' : sentFor'[t] # NoOrder
      BY <1>1, <1>3 DEF GoesOn, TransferGoesOn, RecordsAreTrue, SalesInv, SalesTypeOK,
         CheckoutTypeOK
    <2>2. ASSUME NEW o \in Orders, payTxn'[o] # NoTransfer
          PROVE  payTxn'[o] \in claimed' /\ sentFor'[payTxn'[o]] = o
      BY <1>1, <1>3, <2>2 DEF GoesOn, MoneyGoesOn, RecordsAreTrue
    <2>3. ASSUME NEW o \in Orders, paidAt'[o] # NoTransfer
          PROVE  payTxn'[o] = paidAt'[o] /\ status'[o] \in PaidStatuses \cup {"REFUNDED"}
      BY <1>1, <1>4, <2>3 DEF GoesOn, MoneyGoesOn, OrderGoesOn, NewStatus, Served,
         RecordsAreTrue, PaidStatuses
    <2> QED
      BY <2>1, <2>2, <2>3 DEF RecordsAreTrue
  <1>6. ClaimsPayOwn'
    <2>1. ASSUME NEW o \in Orders, NEW whole, NEW us, PaysOwn(o, whole, us)
          PROVE  PaysOwn(o, whole, us)'
      BY <1>3, <1>4, <2>1 DEF PaysOwn
    <2>2. \A f \in filing : f.order \in Orders
      BY DEF RefundsTypeOK, Filing
    <2> QED
      BY <2>1, <2>2 DEF ClaimsPayOwn
  <1>7. PaidByClaim'
    BY <1>3 DEF PaidByClaim
  <1>8. RefundedByClaim'
    BY <1>1, SalesKeepsRefunded DEF RefundedByClaim
  <1>9. OwedOrClaimed'
    BY <1>1 DEF OwedOrClaimed, GoesOn, OrderGoesOn
  <1> QED
    BY <1>1, <1>2, <1>5, <1>6, <1>7, <1>8, <1>9

-----------------------------------------------------------------------------
(* The steps of a claim.                                                   *)

(* What submit reads is money of the order.                                *)
LEMMA RefundablePaysOwn ==
  ASSUME RefundsInv, NEW o \in Orders, Refundable(o) # {}
  PROVE  Refundable(o) \in SUBSET Transfers /\ PaysOwn(o, NotServed(o), Refundable(o))
  <1> USE DEF RefundsInv, SalesInv, SalesTypeOK, CheckoutTypeOK
  <1>1. NotServed(o) => payTxn[o] # NoTransfer
    BY DEF NotServed, RefundsFollow, SettledOnce, SETTLEABLE, ServedMeansPaid, PaidStatuses
  <1>2. payTxn[o] # NoTransfer => payTxn[o] \in claimed /\ sentFor[payTxn[o]] = o
    BY DEF RecordsAreTrue
  <1>3. \A t \in ExtraTransfers(o) :
          t \in claimed /\ sentFor[t] = o /\ payTxn[o] # NoTransfer /\ payTxn[o] # t
    BY DEF ExtraTransfers
  <1> QED
    BY <1>1, <1>2, <1>3 DEF Refundable, PaysOwn

(* submit, before its transaction.                                         *)
LEMMA ReadKeepsRefundsInv ==
  ASSUME RefundsInv, NEW o \in Orders, ReadClaimable(o)
  PROVE  RefundsInv'
  <1> USE DEF ReadClaimable, salesVars
  <1>1. Refundable(o) \in SUBSET Transfers /\ PaysOwn(o, NotServed(o), Refundable(o))
    BY RefundablePaysOwn
  <1> DEFINE f == [order |-> o, refundOrder |-> NotServed(o), units |-> Refundable(o)]
  <1>2. f \in Filing /\ filing' = filing \cup {f}
    BY <1>1 DEF Filing, NotServed
  <1>3. SalesInv'
    BY StepKeepsSalesInv DEF RefundsInv
  <1>4. RefundsTypeOK'
    BY <1>2, <1>3 DEF RefundsInv, RefundsTypeOK, SalesInv
  <1>5. ClaimsPayOwn'
    BY <1>1, <1>2 DEF RefundsInv, ClaimsPayOwn, PaysOwn
  <1> QED
    BY <1>3, <1>4, <1>5 DEF RefundsInv, RecordsAreTrue, PaidByClaim, RefundedByClaim,
       OwedOrClaimed

(* submit's transaction, whenever it comes.                                *)
LEMMA FileKeepsRefundsInv ==
  ASSUME RefundsInv, NEW f \in filing, FileClaim(f)
  PROVE  RefundsInv'
  <1> USE DEF FileClaim, salesVars, ClaimIndexAllows
  <1>1. f \in Filing
    BY DEF RefundsInv, RefundsTypeOK
  <1>2. SalesInv'
    BY StepKeepsSalesInv DEF RefundsInv
  <1>3. RefundsTypeOK'
    BY <1>1, <1>2 DEF RefundsInv, RefundsTypeOK, SalesInv, Filing, ClaimStatuses
  <1>4. ClaimsPayOwn'
    BY <1>1 DEF RefundsInv, RefundsTypeOK, Filing, ClaimsPayOwn, PaysOwn
  <1>5. PaidByClaim' /\ RefundedByClaim' /\ OwedOrClaimed'
    BY <1>1 DEF RefundsInv, RefundsTypeOK, Filing, PaidByClaim, RefundedByClaim,
       OwedOrClaimed, RecordsAreTrue, SalesInv, SalesTypeOK, CheckoutTypeOK
  <1> QED
    BY <1>2, <1>3, <1>4, <1>5 DEF RefundsInv, RecordsAreTrue

(* Staff, or the job, change an order only as a refund does: SalesInv      *)
(* holds of an order that is REFUNDED and has a recorded transfer.         *)
LEMMA RefundKeepsSalesInv ==
  ASSUME SalesInv, NEW o \in Orders,
         \/ UNCHANGED status
         \/ payTxn[o] # NoTransfer /\ status' = [status EXCEPT ![o] = "REFUNDED"],
         review' \subseteq review,
         UNCHANGED <<paidAt, cmd, slot, machineVars, checkoutVars>>
  PROVE  SalesInv'
  <1> USE DEF SalesInv, SalesTypeOK
  <1>1. DbTypeOK' /\ CheckoutTypeOK'
    BY DEF DbTypeOK, CheckoutTypeOK, OrderStatuses
  <1>2. payTxn[o] # NoTransfer => pay[o] \notin SETTLEABLE \cup {"NONE"}
    BY DEF SettledOnce
  <1>3. PlacedTogether' /\ SettledOnce' /\ PaidByClaimed'
    BY <1>2 DEF PlacedTogether, SettledOnce, PaidByClaimed, DbTypeOK, CheckoutTypeOK
  <1>4. OpenPaymentMeansOpenOrder' /\ SettleableIsPayable' /\ RefundsFollow'
    BY <1>2 DEF OpenPaymentMeansOpenOrder, SettleableIsPayable, RefundsFollow, SETTLEABLE,
       DbTypeOK
  <1>5. ServedMeansPaid'
    BY DEF ServedMeansPaid, PaidStatuses, DbTypeOK
  <1> QED
    BY <1>1, <1>3, <1>4, <1>5

(* The staff record what they have transferred.                            *)
LEMMA PayoutKeepsRefundsInv ==
  ASSUME RefundsInv, NEW o \in Orders, RecordPayout(o)
  PROVE  RefundsInv'
  <1> USE DEF RefundsInv
  <1>1. PaysOwn(o, o \in refundOrder, units[o])
    BY DEF RecordPayout, ClaimsPayOwn
  <1>2. \/ o \notin refundOrder /\ UNCHANGED status
        \/ o \in refundOrder /\ status' = [status EXCEPT ![o] = "REFUNDED"]
    BY DEF RecordPayout, MarkRefunded, ClearManualReview
  <1>3. review' = review \ {o} /\ claim' = [claim EXCEPT ![o] = "REFUNDED"]
    BY DEF RecordPayout, MarkRefunded, ClearManualReview
  <1>4. SalesInv'
    BY <1>1, <1>2, <1>3, RefundKeepsSalesInv DEF RecordPayout, PaysOwn
  <1>5. paidBack' \in [Transfers -> Nat]
    BY DEF RecordPayout, RefundsTypeOK
  <1>6. RefundsTypeOK'
    BY <1>3, <1>4, <1>5 DEF RecordPayout, RefundsTypeOK, SalesInv, ClaimStatuses
  <1>7. RecordsAreTrue'
    BY <1>2 DEF RecordPayout, RecordsAreTrue, SalesInv, SalesTypeOK, DbTypeOK
  <1>8. ClaimsPayOwn'
    BY <1>3 DEF RecordPayout, ClaimsPayOwn, PaysOwn, RefundsTypeOK
  <1>9. PaidByClaim'
    <2> SUFFICES ASSUME NEW t \in Transfers
        PROVE  /\ paidBack'[t] <= 1
               /\ paidBack'[t] # 0 => t \in claimed' /\ claim'[sentFor'[t]] = "REFUNDED"
      BY DEF PaidByClaim
    <2>1. claim[o] = "OPEN" /\ UNCHANGED <<claimed, sentFor>>
      BY DEF RecordPayout
    <2>2. CASE t \in units[o]
      <3>1. t \in claimed /\ sentFor[t] = o
        BY <1>1, <2>2 DEF PaysOwn
      <3>2. paidBack[t] = 0 /\ paidBack'[t] = paidBack[t] + 1
        BY <2>1, <2>2, <3>1 DEF PaidByClaim, RecordPayout
      <3> QED
        BY <1>3, <2>1, <3>1, <3>2 DEF RefundsTypeOK
    <2>3. CASE t \notin units[o]
      <3>1. paidBack'[t] = paidBack[t]
        BY <2>3 DEF RecordPayout
      <3> QED
        BY <1>3, <2>1, <3>1 DEF PaidByClaim, RefundsTypeOK
    <2> QED
      BY <2>2, <2>3
  <1>10. RefundedByClaim'
    BY <1>2, <1>3 DEF RecordPayout, RefundedByClaim, RefundsTypeOK, SalesTypeOK, DbTypeOK
  <1>11. OwedOrClaimed'
    BY <1>2, <1>3 DEF RecordPayout, OwedOrClaimed, RefundsTypeOK, SalesTypeOK, DbTypeOK
  <1> QED
    BY <1>4, <1>6, <1>7, <1>8, <1>9, <1>10, <1>11

(* The staff reject the claim, or nobody looked at it for too long.        *)
LEMMA CloseKeepsRefundsInv ==
  ASSUME RefundsInv, NEW o \in Orders, Reject(o) \/ ExpireClaim(o)
  PROVE  RefundsInv'
  <1> USE DEF RefundsInv
  <1>1. /\ claim[o] = "OPEN"
        /\ UNCHANGED <<status, paidAt, cmd, slot, machineVars, checkoutVars, refundOrder,
                       units, filing, paidBack>>
        /\ \/ claim' = [claim EXCEPT ![o] = "REJECTED"] /\ review' = review \ {o}
           \/ claim' = [claim EXCEPT ![o] = "EXPIRED"] /\ review' = review
    BY DEF Reject, ExpireClaim, ClearManualReview, salesVars
  <1>2. SalesInv'
    BY <1>1, RefundKeepsSalesInv
  <1>3. RefundsTypeOK'
    BY <1>1, <1>2 DEF RefundsTypeOK, SalesInv, ClaimStatuses
  <1>4. RecordsAreTrue' /\ ClaimsPayOwn'
    BY <1>1 DEF RecordsAreTrue, ClaimsPayOwn, PaysOwn, RefundsTypeOK
  <1>5. PaidByClaim' /\ RefundedByClaim' /\ OwedOrClaimed'
    BY <1>1 DEF PaidByClaim, RefundedByClaim, OwedOrClaimed, RecordsAreTrue, RefundsTypeOK,
       SalesTypeOK, CheckoutTypeOK
  <1> QED
    BY <1>2, <1>3, <1>4, <1>5

(* RefundsInv is inductive.                                                *)
LEMMA StepKeepsRefundsInv == RefundsInv /\ [RefundsNext]_refundsVars => RefundsInv'
  <1> SUFFICES ASSUME RefundsInv, [RefundsNext]_refundsVars PROVE RefundsInv'
    OBVIOUS
  <1>1. CASE UNCHANGED refundsVars
    BY <1>1, SalesKeepsRefundsInv DEF refundsVars
  <1>2. CASE SalesNext /\ UNCHANGED claimVars
    BY <1>2, SalesKeepsRefundsInv
  <1>3. CASE ClaimsNext
    BY <1>3, ReadKeepsRefundsInv, FileKeepsRefundsInv, PayoutKeepsRefundsInv,
       CloseKeepsRefundsInv
    DEF ClaimsNext
  <1> QED
    BY <1>1, <1>2, <1>3 DEF RefundsNext

(* RefundsInv holds for any number of orders, transfers and claims that    *)
(* are filed at the same time.                                             *)
THEOREM RefundsSafety == RefundsSpec => []RefundsInv
  <1>1. RefundsInit => RefundsInv
    BY InitRefundsInv
  <1>2. RefundsInv /\ [RefundsNext]_refundsVars => RefundsInv'
    BY StepKeepsRefundsInv
  <1> QED
    BY <1>1, <1>2, PTL DEF RefundsSpec

(* A claim pays once, and what it pays is what the order says.             *)
THEOREM RefundsClaimsPayOnce == RefundsSpec => []ClaimsPayOnce
  <1>1. RefundsInv => ClaimsPayOnce
    BY DEF RefundsInv, PaidByClaim, ClaimsPayOnce, PaidBackOnce
  <1> QED
    BY <1>1, RefundsSafety, PTL

(* Who is owed the price of an order is on the list until a claim decides. *)
THEOREM RefundsOwedOrClaimed == RefundsSpec => []OwedOrClaimed
  <1>1. RefundsInv => OwedOrClaimed
    BY DEF RefundsInv
  <1> QED
    BY <1>1, RefundsSafety, PTL
-----------------------------------------------------------------------------
(* Refinement: what becomes of each transfer follows MoneyTrail.           *)

(* Before any transfer, there is none to follow.                           *)
LEMMA InitTrail == RefundsInit => Trail!Init
  BY DEF RefundsInit, SalesInit, CheckoutInit, Trail!Init, Fate

(* What was earned is in no claim that can be paid.                        *)
LEMMA EarnedIsKept ==
  ASSUME RefundsInv, NEW o \in Orders, RecordPayout(o), NEW t \in units[o]
  PROVE  Fate(t) \in {"held", "owed"}
  <1>1. PaysOwn(o, o \in refundOrder, units[o])
    BY DEF RefundsInv, ClaimsPayOwn, RecordPayout
  <1>2. t \in Transfers /\ t \in claimed /\ sentFor[t] = o
    BY <1>1 DEF PaysOwn, RefundsInv, RefundsTypeOK
  <1>3. paidBack[t] = 0
    BY <1>2 DEF RefundsInv, PaidByClaim, RecordPayout
  <1>4. t = paidAt[o] => status[o] \notin {"DISPENSED", "FORFEITED"}
    <2> SUFFICES ASSUME t = paidAt[o] PROVE o \in refundOrder
      BY DEF RecordPayout, MarkRefunded, CanBeRefunded
    <2>1. paidAt[o] # NoTransfer
      BY <1>2 DEF NoTransfer, Transfers
    <2> QED
      BY <1>1, <2>1 DEF PaysOwn, RefundsInv, RecordsAreTrue
  <1> QED
    BY <1>2, <1>3, <1>4 DEF Fate

(* Each transfer keeps its fate or turns as MoneyTrail allows, while       *)
(* Sales goes on.                                                          *)
LEMMA SalesTurns ==
  ASSUME RefundsInv, [SalesNext]_salesVars, UNCHANGED claimVars, NEW t \in Transfers
  PROVE  Fate(t)' = Fate(t) \/ Trail!MayTurn(Fate(t), Fate(t)')
  <1> DEFINE o == sentFor[t]
  <1> USE DEF claimVars
  <1>1. GoesOn
    BY StepGoesOn DEF RefundsInv
  <1>2. CASE t \notin claimed
    <2>1. paidBack[t] = 0 /\ paidBack'[t] = 0
      BY <1>2 DEF RefundsInv, PaidByClaim
    <2> DEFINE p == sentFor'[t]
    <2>2. CASE t \in claimed' /\ t = paidAt'[p]
      <3>1. p \in Orders
        BY <2>2, StepKeepsSalesInv, <1>1, <1>2
        DEF RefundsInv, SalesInv, SalesTypeOK, CheckoutTypeOK, GoesOn, TransferGoesOn
      <3>2. paidAt[p] # t
        BY <1>2, <3>1 DEF RefundsInv, RecordsAreTrue, NoTransfer, Transfers
      <3>3. status'[p] = "PAID"
        BY <1>1, <2>2, <3>1, <3>2 DEF GoesOn, MoneyGoesOn
      <3> QED
        BY <1>2, <2>1, <2>2, <3>3 DEF Fate, Trail!MayTurn
    <2>3. CASE t \notin claimed' \/ t # paidAt'[p]
      BY <1>2, <2>1, <2>3 DEF Fate, Trail!MayTurn
    <2> QED
      BY <2>2, <2>3
  <1>3. CASE t \in claimed /\ paidBack[t] > 0
    BY <1>1, <1>3 DEF GoesOn, TransferGoesOn, Fate
  <1>4. CASE t \in claimed /\ paidBack[t] = 0
    <2>1. t \in claimed' /\ sentFor'[t] = o /\ o \in Orders
      BY <1>1, <1>4 DEF GoesOn, TransferGoesOn, RefundsInv, RecordsAreTrue, SalesInv,
         SalesTypeOK, CheckoutTypeOK
    <2>2. t = paidAt'[o] <=> t = paidAt[o]
      BY <1>1, <1>4, <2>1 DEF GoesOn, MoneyGoesOn, RefundsInv, RecordsAreTrue, NoTransfer,
         Transfers
    <2>3. CASE t # paidAt[o]
      BY <1>4, <2>1, <2>2, <2>3 DEF Fate
    <2>4. CASE t = paidAt[o]
      <3>1. status[o] \in PaidStatuses \cup {"REFUNDED"}
        BY <2>1, <2>4 DEF RefundsInv, RecordsAreTrue, NoTransfer, Transfers
      <3>2. \/ status'[o] = status[o]
            \/ /\ status[o] \in {"PAID", "DISPENSE_REQUESTED"}
               /\ status'[o] \in PaidStatuses
        BY <1>1, <2>1, <3>1 DEF GoesOn, OrderGoesOn, NewStatus, Served, PaidStatuses
      <3> QED
        BY <1>4, <2>1, <2>2, <2>4, <3>1, <3>2 DEF Fate, Trail!MayTurn, PaidStatuses
    <2> QED
      BY <2>3, <2>4
  <1>5. paidBack[t] \in Nat
    BY DEF RefundsInv, RefundsTypeOK
  <1> QED
    BY <1>2, <1>3, <1>4, <1>5

(* The same while claims are handled.                                      *)
LEMMA ClaimsTurn ==
  ASSUME RefundsInv, ClaimsNext, NEW t \in Transfers
  PROVE  Fate(t)' = Fate(t) \/ Trail!MayTurn(Fate(t), Fate(t)')
  <1>1. UNCHANGED <<claimed, sentFor, paidAt>>
    BY DEF ClaimsNext, ReadClaimable, FileClaim, RecordPayout, Reject, ExpireClaim, salesVars
  <1>2. CASE UNCHANGED <<status, paidBack>>
    BY <1>1, <1>2 DEF Fate
  <1>3. ASSUME NEW o \in Orders, RecordPayout(o)
        PROVE  Fate(t)' = Fate(t) \/ Trail!MayTurn(Fate(t), Fate(t)')
    <2>0. paidBack \in [Transfers -> Nat]
      BY DEF RefundsInv, RefundsTypeOK
    <2>1. CASE t \in units[o]
      <3>1. Fate(t) \in {"held", "owed"}
        BY <1>3, <2>1, EarnedIsKept
      <3>2. t \in claimed' /\ paidBack'[t] > 0 /\ paidBack'[t] # 0
        BY <1>1, <1>3, <2>0, <2>1 DEF RecordPayout, RefundsInv, ClaimsPayOwn, PaysOwn
      <3> QED
        BY <3>1, <3>2 DEF Fate, Trail!MayTurn
    <2>2. CASE t \notin units[o]
      <3>1. paidBack'[t] = paidBack[t]
        BY <1>3, <2>2 DEF RecordPayout
      <3>2. \/ UNCHANGED status
            \/ /\ status' = [status EXCEPT ![o] = "REFUNDED"]
               /\ status[o] \notin {"DISPENSED", "FORFEITED"}
        BY <1>3 DEF RecordPayout, MarkRefunded, CanBeRefunded, ClearManualReview
      <3>3. CASE t \in claimed /\ paidBack[t] = 0 /\ sentFor[t] = o
        BY <1>1, <3>1, <3>2, <3>3
        DEF Fate, Trail!MayTurn, RefundsInv, SalesInv, SalesTypeOK, DbTypeOK
      <3>4. CASE t \notin claimed \/ paidBack[t] > 0
        BY <1>1, <3>1, <3>4 DEF Fate
      <3>5. CASE t \in claimed /\ sentFor[t] # o
        <4>1. status'[sentFor[t]] = status[sentFor[t]]
          BY <3>2, <3>5 DEF RefundsInv, SalesInv, SalesTypeOK, DbTypeOK, CheckoutTypeOK,
             RecordsAreTrue
        <4> QED
          BY <1>1, <3>1, <4>1 DEF Fate
      <3> QED
        BY <2>0, <3>3, <3>4, <3>5
    <2> QED
      BY <2>1, <2>2
  <1> QED
    BY <1>2, <1>3 DEF ClaimsNext, ReadClaimable, FileClaim, Reject, ExpireClaim,
       ClearManualReview, salesVars

(* No transfer is paid back twice, or while its spray is kept, for any     *)
(* number of customers, transfers and claims.                              *)
THEOREM RefundsImplementsTrail == RefundsSpec => ImplementsTrail
  <1>1. RefundsInit => Trail!Init
    BY InitTrail
  <1> DEFINE fate == [t \in Transfers |-> Fate(t)]
  <1>2. RefundsInv /\ [RefundsNext]_refundsVars => [Trail!Next]_fate
    <2> SUFFICES ASSUME RefundsInv, [RefundsNext]_refundsVars PROVE Trail!Next
      OBVIOUS
    <2>1. \A t \in Transfers : Fate(t)' = Fate(t) \/ Trail!MayTurn(Fate(t), Fate(t)')
      <3>1. CASE ClaimsNext
        BY <3>1, ClaimsTurn
      <3>2. CASE [SalesNext]_salesVars /\ UNCHANGED claimVars
        BY <3>2, SalesTurns
      <3> QED
        BY <3>1, <3>2 DEF RefundsNext, refundsVars
    <2>2. \A t \in Transfers : Fate(t)' \in Trail!Fates
      <3> TAKE t \in Transfers
      <3>1. paidBack'[t] = 0 \/ (paidBack'[t] # 0 /\ paidBack'[t] > 0)
        BY StepKeepsRefundsInv DEF RefundsInv, RefundsTypeOK
      <3> QED
        BY <3>1 DEF Fate, Trail!Fates
    <2> QED
      BY <2>1, <2>2 DEF Trail!Next
  <1> QED
    BY <1>1, <1>2, RefundsSafety, PTL DEF RefundsSpec, ImplementsTrail, Trail!Spec
=============================================================================
