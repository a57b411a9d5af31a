------------------------------- MODULE Refunds -------------------------------
(***************************************************************************)
(* Refund claims (ord/refund-claims): the customer of an order that went   *)
(* wrong files one claim; staff pay it back by hand and record that, or    *)
(* reject it; a job closes the claims nobody handled.                      *)
(*                                                                         *)
(* What a claim pays back is decided when it is filed, from rows read      *)
(* before its transaction, and acted on days later: meanwhile webhooks,    *)
(* reports of the device and the queue timeout go on.                      *)
(***************************************************************************)
EXTENDS Sales

VARIABLES
  claim,       \* refund_claims.status of the order's only claim, or "NONE"
  refundOrder, \* refund_claims.refund_order, of the orders with a claim
  units,       \* the transfers whose sum is refund_claims.amount
  filing,      \* claims being filed: what submit has read, not yet inserted
  paidBack     \* how often each transfer was paid back (history)

claimVars == <<claim, refundOrder, units, filing, paidBack>>
refundsVars == <<salesVars, claimVars>>

ClaimStatuses == {"OPEN", "REFUNDED", "REJECTED", "EXPIRED"}
Filing == [order : Orders, refundOrder : BOOLEAN, units : SUBSET Transfers]

RefundsTypeOK ==
  /\ SalesTypeOK
  /\ claim \in [Orders -> ClaimStatuses \cup {"NONE"}]
  /\ refundOrder \subseteq Orders
  /\ units \in [Orders -> SUBSET Transfers]
  /\ filing \subseteq Filing
  /\ paidBack \in [Transfers -> Nat]

RefundsInit ==
  /\ SalesInit
  /\ claim = [o \in Orders |-> "NONE"]
  /\ refundOrder = {}
  /\ units = [o \in Orders |-> {}]
  /\ filing = {}
  /\ paidBack = [t \in Transfers |-> 0]

-----------------------------------------------------------------------------
(* refundablePartsOf                                                       *)

NotServed(o) ==
  \/ status[o] = "REFUND_PENDING"
  \/ status[o] = "FAILED" /\ paidAt[o] # NoTransfer
  \/ status[o] = "DISPENSE_REQUESTED" /\ o \in review

(* The events recorded as EXTRA_TRANSFER_REFUND_PENDING.                   *)
ExtraTransfers(o) ==
  {t \in claimed \cap rightAmount : sentFor[t] = o /\ payTxn[o] \notin {NoTransfer, t}}

Refundable(o) == ExtraTransfers(o) \cup (IF NotServed(o) THEN {payTxn[o]} ELSE {})

-----------------------------------------------------------------------------
(* submit reads the order first; the unique index on order_id then lets    *)
(* one claim through.                                                      *)
ReadClaimable(o) ==
  /\ claim[o] = "NONE"
  /\ Refundable(o) # {}
  /\ filing' = filing \cup
       {[order |-> o, refundOrder |-> NotServed(o), units |-> Refundable(o)]}
  /\ UNCHANGED <<salesVars, claim, refundOrder, units, paidBack>>

ClaimIndexAllows(o) == claim[o] = "NONE"

FileClaim(f) ==
  /\ f \in filing
  /\ filing' = filing \ {f}
  /\ IF ClaimIndexAllows(f.order)
     THEN /\ claim' = [claim EXCEPT ![f.order] = "OPEN"]
          /\ refundOrder' = IF f.refundOrder THEN refundOrder \cup {f.order}
                            ELSE refundOrder \ {f.order}
          /\ units' = [units EXCEPT ![f.order] = f.units]
     ELSE UNCHANGED <<claim, refundOrder, units>>  \* CLAIM_ALREADY_OPEN
  /\ UNCHANGED <<salesVars, paidBack>>

(* OrdService.markRefunded: an order that cannot be refunded makes it      *)
(* throw, and the payout is not recorded.                                  *)
CanBeRefunded_Any(o) == TRUE                                     \* mutant
CanBeRefunded(o) ==
  status[o] \in {"PAID", "DISPENSE_REQUESTED", "EXPIRED", "FAILED", "REFUND_PENDING"}

MarkRefunded_KeepsStatus(o) ==                                   \* mutant
  /\ CanBeRefunded(o)
  /\ review' = review \ {o}
  /\ UNCHANGED status

MarkRefunded(o) ==
  /\ CanBeRefunded(o)
  /\ status' = [status EXCEPT ![o] = "REFUNDED"]
  /\ review' = review \ {o}

ClearManualReview(o) ==
  /\ review' = review \ {o}
  /\ UNCHANGED status

(* The staff member the claim is assigned to has made the transfers.       *)
RecordPayout(o) ==
  /\ claim[o] = "OPEN"
  /\ IF o \in refundOrder THEN MarkRefunded(o) ELSE ClearManualReview(o)
  /\ claim' = [claim EXCEPT ![o] = "REFUNDED"]
  /\ paidBack' = [t \in Transfers |-> IF t \in units[o] THEN paidBack[t] + 1 ELSE paidBack[t]]
  /\ UNCHANGED <<paidAt, cmd, slot, machineVars, checkoutVars, refundOrder, units, filing>>

Reject(o) ==
  /\ claim[o] = "OPEN"
  /\ ClearManualReview(o)
  /\ claim' = [claim EXCEPT ![o] = "REJECTED"]
  /\ UNCHANGED <<paidAt, cmd, slot, machineVars, checkoutVars, refundOrder, units,
                 filing, paidBack>>

ExpireClaim_Clears(o) ==                                         \* mutant
  /\ claim[o] = "OPEN"
  /\ claim' = [claim EXCEPT ![o] = "EXPIRED"]
  /\ ClearManualReview(o)
  /\ UNCHANGED <<paidAt, cmd, slot, machineVars, checkoutVars, refundOrder, units,
                 filing, paidBack>>

(* runMaintenance, REFUND_CLAIM_MAX_OPEN_DAYS after the claim was filed.   *)
ExpireClaim(o) ==
  /\ claim[o] = "OPEN"
  /\ claim' = [claim EXCEPT ![o] = "EXPIRED"]
  /\ UNCHANGED <<salesVars, refundOrder, units, filing, paidBack>>

ClaimsNext ==
  \/ \E o \in Orders : ReadClaimable(o) \/ RecordPayout(o) \/ Reject(o) \/ ExpireClaim(o)
  \/ \E f \in filing : FileClaim(f)

RefundsNext == (SalesNext /\ UNCHANGED claimVars) \/ ClaimsNext

RefundsSpec == RefundsInit /\ [][RefundsNext]_refundsVars

-----------------------------------------------------------------------------
(* No transfer is paid back twice, whatever is filed at the same time.     *)
PaidBackOnce == \A t \in Transfers : paidBack[t] <= 1

(* An order is REFUNDED exactly when a claim for it was paid.              *)
RefundedByClaim ==
  \A o \in Orders :
    status[o] = "REFUNDED" <=> claim[o] = "REFUNDED" /\ o \in refundOrder

(* A claim pays once, and what it pays is what the order says.             *)
ClaimsPayOnce == PaidBackOnce /\ RefundedByClaim

(* A customer who is owed the price of an order is on the list, or a claim *)
(* took the order off it: one that was rejected, or one filed before the   *)
(* order failed, which paid back only what had been transferred twice.     *)
OwedOrClaimed ==
  \A o \in Orders :
    status[o] \in {"FAILED", "REFUND_PENDING"} /\ o \notin review =>
      claim[o] = "REJECTED" \/ (claim[o] = "REFUNDED" /\ o \notin refundOrder)

(* What has become of a transfer.                                          *)
Fate(t) ==
  LET o == sentFor[t] IN
  CASE t \notin claimed -> "unknown"
    [] t \in claimed /\ paidBack[t] > 0 -> "paidBack"
    [] t \in claimed /\ paidBack[t] = 0 ->
         IF t = paidAt[o] /\ status[o] \in {"PAID", "DISPENSE_REQUESTED"} THEN "held"
         ELSE IF t = paidAt[o] /\ status[o] \in {"DISPENSED", "FORFEITED"} THEN "earned"
         ELSE "owed"

Trail == INSTANCE MoneyTrail WITH fate <- [t \in Transfers |-> Fate(t)]

(* Each transfer is kept for a spray, owed, or paid back once.  The money   *)
(* of a spray is not paid back: a claim filed while its report is lost is   *)
(* refused by markRefunded when the report arrives before the payout.       *)
ImplementsTrail == Trail!Spec
=============================================================================
