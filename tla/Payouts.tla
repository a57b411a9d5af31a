------------------------------ MODULE Payouts ------------------------------
(***************************************************************************)
(* Brand payouts (rev): the revenue of a brand is paid out by the month    *)
(* its orders were paid in.  A job adds up the month while it is a draft   *)
(* and closes it when the month is over; the brand may dispute a closed    *)
(* month; staff transfer the money by hand and record that.                *)
(*                                                                         *)
(* One brand.  The amount of a payout is the set of the orders it adds up. *)
(***************************************************************************)
EXTENDS OrderStatus, Naturals

CONSTANTS
  Sprays,     \* orders of the brand
  LastMonth   \* bound: the calendar stops in this month

ASSUME PayoutsAssumption == LastMonth \in Nat \ {0}

Months == 1..LastMonth

VARIABLES
  month,     \* the calendar month in Vietnam
  sale,      \* orders.status of each order
  paidIn,    \* the month of orders.paid_at, 0 before the payment
  payout,    \* brand_payouts.status of each month, "NONE" without a row
  counted,   \* the orders in order_count and amount
  dispute,   \* disputed_at and dispute_resolved_at
  ready,     \* whether the brand is verified and has a payout account
  job        \* what refreshPayouts has written but not committed

payoutVars == <<month, sale, paidIn, payout, counted, dispute, ready, job>>

PayoutStatuses == {"NONE", "DRAFT", "CONFIRMED", "PAID"}
NoJob == [running |-> FALSE]
Jobs == [running : {TRUE}, month : Months, counted : [Months -> SUBSET Sprays]]

PayoutsTypeOK ==
  /\ month \in Months
  /\ sale \in [Sprays -> OrderStatuses]
  /\ paidIn \in [Sprays -> 0..LastMonth]
  /\ payout \in [Months -> PayoutStatuses]
  /\ counted \in [Months -> SUBSET Sprays]
  /\ dispute \in [Months -> {"NONE", "OPEN", "ANSWERED"}]
  /\ ready \in BOOLEAN
  /\ job \in Jobs \cup {NoJob}

PayoutsInit ==
  /\ month = 1
  /\ sale = [o \in Sprays |-> "PENDING_PAYMENT"]
  /\ paidIn = [o \in Sprays |-> 0]
  /\ payout = [m \in Months |-> "NONE"]
  /\ counted = [m \in Months |-> {}]
  /\ dispute = [m \in Months |-> "NONE"]
  /\ ready = FALSE
  /\ job = NoJob

-----------------------------------------------------------------------------
NextMonth ==
  /\ month < LastMonth
  /\ month' = month + 1
  /\ UNCHANGED <<sale, paidIn, payout, counted, dispute, ready, job>>

(* paid_at is when the customer paid, which the webhook may report later.  *)
Pay(o, m) ==
  /\ sale[o] = "PENDING_PAYMENT"
  /\ m <= month
  /\ sale' = [sale EXCEPT ![o] = "PAID"]
  /\ paidIn' = [paidIn EXCEPT ![o] = m]
  /\ UNCHANGED <<month, payout, counted, dispute, ready, job>>

(* Everything else that happens to the order, whenever it happens: a       *)
(* result may be reported long after the command was given up.             *)
Proceed(o, s) ==
  /\ paidIn[o] # 0
  /\ CanTransition(sale[o], s)
  /\ sale' = [sale EXCEPT ![o] = s]
  /\ UNCHANGED <<month, paidIn, payout, counted, dispute, ready, job>>

-----------------------------------------------------------------------------
(* refreshPayouts: one transaction of two statements, each of which sees   *)
(* what others have committed by then; `now` is read before both.          *)

REVENUE_ORDER_STATUSES == {"DISPENSED", "FORFEITED"}

CountedOrders_Served(m) ==                                       \* mutant
  {o \in Sprays : sale[o] \in REVENUE_ORDER_STATUSES \cup {"DISPENSE_REQUESTED"} /\ paidIn[o] = m}

CountedOrders(m) ==
  {o \in Sprays : sale[o] \in REVENUE_ORDER_STATUSES /\ paidIn[o] = m}

MayRecount_Any(m) == TRUE                                        \* mutant
MayRecount(m) == payout[m] \in {"NONE", "DRAFT"}

RefreshDraftPayouts ==
  /\ ~job.running
  /\ job' = [running |-> TRUE, month |-> month,
             counted |-> [m \in Months |->
               IF MayRecount(m) /\ CountedOrders(m) # {} THEN CountedOrders(m) ELSE counted[m]]]
  /\ UNCHANGED <<month, sale, paidIn, payout, counted, dispute, ready>>

HasEnded_Open(m) == FALSE                                        \* mutant
HasEnded(m) == m < job.month

ConfirmEndedPeriods ==
  /\ job.running
  /\ counted' = job.counted
  /\ payout' = [m \in Months |->
       IF payout[m] \in {"CONFIRMED", "PAID"} THEN payout[m]
       ELSE IF job.counted[m] = {} THEN "NONE"
       ELSE IF HasEnded(m) THEN "CONFIRMED" ELSE "DRAFT"]
  /\ job' = NoJob
  /\ UNCHANGED <<month, sale, paidIn, dispute, ready>>

(* The process stops before the commit.                                    *)
LoseRefresh ==
  /\ job.running
  /\ job' = NoJob
  /\ UNCHANGED <<month, sale, paidIn, payout, counted, dispute, ready>>

-----------------------------------------------------------------------------
(* brands.legal_verified_at and payout_account_ciphertext (bnd).           *)
GetReady ==
  /\ ~ready
  /\ ready' = TRUE
  /\ UNCHANGED <<month, sale, paidIn, payout, counted, dispute, job>>

PayOut(m) ==
  /\ payout[m] = "CONFIRMED"
  /\ dispute[m] # "OPEN"
  /\ ready
  /\ payout' = [payout EXCEPT ![m] = "PAID"]
  /\ UNCHANGED <<month, sale, paidIn, counted, dispute, ready, job>>

Disputable(m) == payout[m] = "CONFIRMED" /\ dispute[m] = "NONE"

Dispute(m) ==
  /\ Disputable(m)
  /\ dispute' = [dispute EXCEPT ![m] = "OPEN"]
  /\ UNCHANGED <<month, sale, paidIn, payout, counted, ready, job>>

RespondToDispute(m) ==
  /\ dispute[m] = "OPEN"
  /\ dispute' = [dispute EXCEPT ![m] = "ANSWERED"]
  /\ UNCHANGED <<month, sale, paidIn, payout, counted, ready, job>>

-----------------------------------------------------------------------------
PayoutsNext ==
  \/ NextMonth
  \/ \E o \in Sprays : (\E m \in Months : Pay(o, m)) \/ (\E s \in OrderStatuses : Proceed(o, s))
  \/ RefreshDraftPayouts \/ ConfirmEndedPeriods \/ LoseRefresh
  \/ GetReady
  \/ \E m \in Months : PayOut(m) \/ Dispute(m) \/ RespondToDispute(m)

PayoutsSpec == PayoutsInit /\ [][PayoutsNext]_payoutVars

(* The scheduler ticks every PAYOUT_TICK_MS, and not every run of the job  *)
(* is cut off.                                                             *)
PayoutsFairness ==
  WF_payoutVars(RefreshDraftPayouts) /\ SF_payoutVars(ConfirmEndedPeriods)

FairPayoutsSpec == PayoutsSpec /\ PayoutsFairness

-----------------------------------------------------------------------------
(* A brand is paid for an order once, in the month its customer paid, and  *)
(* only for an order that was sprayed or forfeited: one that is refunded   *)
(* later was never in a payout.                                            *)
PaidForWhatWasEarned ==
  \A m \in Months : \A o \in counted[m] :
    /\ sale[o] \in REVENUE_ORDER_STATUSES
    /\ paidIn[o] = m

(* Nothing is transferred while the brand disputes the figures.            *)
DisputeHoldsPayment == \A m \in Months : payout[m] = "PAID" => dispute[m] # "OPEN"

(* The figures the brand was shown as final, and may have been paid, stay  *)
(* as they are, whatever happens to orders afterwards (AC4 of FR-SLT-52).  *)
ClosedFiguresStay ==
  [][\A m \in Months : payout[m] \in {"CONFIRMED", "PAID"} =>
       counted'[m] = counted[m] /\ payout'[m] \in {payout[m], "PAID"}]_payoutVars

(* A month that is over and in which the brand earned something is closed. *)
MonthsAreClosed ==
  \A m \in Months :
    m < month /\ CountedOrders(m) # {} ~> payout[m] \in {"CONFIRMED", "PAID"}

(* What rev.queries says of its figures: the payout of a closed month and  *)
(* the settlement of the same month add up the same orders.                *)
NoRevenueForgotten ==
  \A m \in Months : payout[m] \in {"CONFIRMED", "PAID"} => CountedOrders(m) = counted[m]
=============================================================================
