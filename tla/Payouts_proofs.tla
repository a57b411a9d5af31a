-------------------------- MODULE Payouts_proofs --------------------------
(***************************************************************************)
(* What Payouts promises the brand, for any number of orders and months.   *)
(***************************************************************************)
EXTENDS Payouts, TLAPS

(* What the job has written but not committed is right when it commits.    *)
JobIsRight ==
  job.running =>
    /\ \A m \in Months : \A o \in job.counted[m] :
         sale[o] \in REVENUE_ORDER_STATUSES /\ paidIn[o] = m
    /\ \A m \in Months :
         payout[m] \in {"CONFIRMED", "PAID"} => job.counted[m] = counted[m]

PayoutsInv == PayoutsTypeOK /\ PaidForWhatWasEarned /\ JobIsRight /\ DisputeHoldsPayment

LEMMA InitPayoutsInv == PayoutsInit => PayoutsInv
  <1> SUFFICES ASSUME PayoutsInit PROVE PayoutsInv
    OBVIOUS
  <1>1. 1 \in Months
    BY PayoutsAssumption DEF Months
  <1>2. counted \in [Months -> SUBSET Sprays] /\ paidIn \in [Sprays -> 0..LastMonth]
    BY PayoutsAssumption DEF PayoutsInit
  <1>3. PayoutsTypeOK
    BY <1>1, <1>2 DEF PayoutsInit, PayoutsTypeOK, PayoutStatuses, OrderStatuses
  <1>4. ~job.running
    BY DEF PayoutsInit, NoJob
  <1> QED
    BY <1>3, <1>4
    DEF PayoutsInit, PayoutsInv, PaidForWhatWasEarned, JobIsRight, DisputeHoldsPayment

(* Revenue that was earned stays earned: nothing leads out of DISPENSED or *)
(* FORFEITED.                                                              *)
LEMMA EarnedIsFinal ==
  ASSUME NEW from \in REVENUE_ORDER_STATUSES, NEW to
  PROVE  ~CanTransition(from, to)
  BY DEF CanTransition, ORDER_TRANSITIONS, REVENUE_ORDER_STATUSES

-----------------------------------------------------------------------------
(* One step.                                                               *)

(* Orders are paid for and served while the job runs.                      *)
LEMMA SaleKeepsPayoutsInv ==
  ASSUME PayoutsInv, NEW o \in Sprays,
         (\E m \in Months : Pay(o, m)) \/ (\E s \in OrderStatuses : Proceed(o, s))
  PROVE  PayoutsInv'
  <1>1. PayoutsTypeOK'
    BY PayoutsAssumption
    DEF PayoutsInv, PayoutsTypeOK, Pay, Proceed, OrderStatuses, Months
  <1>2. sale[o] \notin REVENUE_ORDER_STATUSES
    BY EarnedIsFinal DEF Pay, Proceed, REVENUE_ORDER_STATUSES
  <1>3. \A p \in Sprays : sale[p] \in REVENUE_ORDER_STATUSES =>
          sale'[p] = sale[p] /\ paidIn'[p] = paidIn[p]
    BY <1>2 DEF Pay, Proceed, PayoutsInv, PayoutsTypeOK
  <1>4. UNCHANGED <<payout, counted, dispute, job>>
    BY DEF Pay, Proceed
  <1>5. PaidForWhatWasEarned'
    BY <1>3, <1>4 DEF PayoutsInv, PayoutsTypeOK, PaidForWhatWasEarned
  <1>6. JobIsRight'
    <2>1. SUFFICES ASSUME job.running
          PROVE  \A m \in Months : \A p \in job.counted[m] :
                   sale'[p] \in REVENUE_ORDER_STATUSES /\ paidIn'[p] = m
      BY <1>4 DEF PayoutsInv, JobIsRight
    <2>2. job \in Jobs
      BY <2>1 DEF PayoutsInv, PayoutsTypeOK, NoJob
    <2> QED
      BY <1>3, <2>1, <2>2 DEF Jobs, PayoutsInv, JobIsRight
  <1> QED
    BY <1>1, <1>4, <1>5, <1>6 DEF PayoutsInv, DisputeHoldsPayment

(* What the job adds up is earned, and leaves closed months alone.         *)
LEMMA RefreshKeepsPayoutsInv ==
  ASSUME PayoutsInv, RefreshDraftPayouts
  PROVE  PayoutsInv'
  <1> DEFINE sums == [m \in Months |->
               IF MayRecount(m) /\ CountedOrders(m) # {} THEN CountedOrders(m) ELSE counted[m]]
  <1>1. job' = [running |-> TRUE, month |-> month, counted |-> sums]
    BY DEF RefreshDraftPayouts
  <1>2. sums \in [Months -> SUBSET Sprays]
    BY DEF CountedOrders, PayoutsInv, PayoutsTypeOK
  <1>3. PayoutsTypeOK'
    BY <1>1, <1>2 DEF PayoutsInv, PayoutsTypeOK, RefreshDraftPayouts, Jobs
  <1>4. \A m \in Months : \A o \in sums[m] :
          sale[o] \in REVENUE_ORDER_STATUSES /\ paidIn[o] = m
    BY DEF CountedOrders, PayoutsInv, PaidForWhatWasEarned
  <1>5. \A m \in Months : payout[m] \in {"CONFIRMED", "PAID"} => sums[m] = counted[m]
    BY DEF MayRecount
  <1> HIDE DEF sums
  <1>6. JobIsRight'
    BY <1>1, <1>4, <1>5 DEF JobIsRight, RefreshDraftPayouts
  <1> QED
    BY <1>3, <1>6
    DEF PayoutsInv, PaidForWhatWasEarned, DisputeHoldsPayment, RefreshDraftPayouts

(* Its second statement closes months; it neither pays nor reopens one.    *)
LEMMA ConfirmKeepsPayoutsInv ==
  ASSUME PayoutsInv, ConfirmEndedPeriods
  PROVE  PayoutsInv'
  <1>1. job \in Jobs
    BY DEF ConfirmEndedPeriods, PayoutsInv, PayoutsTypeOK, NoJob
  <1>2. payout' \in [Months -> PayoutStatuses]
    BY DEF ConfirmEndedPeriods, PayoutStatuses, PayoutsInv, PayoutsTypeOK
  <1>3. PayoutsTypeOK'
    BY <1>1, <1>2 DEF ConfirmEndedPeriods, PayoutsInv, PayoutsTypeOK, Jobs
  <1>4. PaidForWhatWasEarned'
    BY DEF ConfirmEndedPeriods, PayoutsInv, JobIsRight, PaidForWhatWasEarned
  <1>5. JobIsRight'
    BY DEF ConfirmEndedPeriods, JobIsRight, NoJob
  <1>6. DisputeHoldsPayment'
    BY DEF ConfirmEndedPeriods, PayoutsInv, PayoutsTypeOK, DisputeHoldsPayment
  <1> QED
    BY <1>3, <1>4, <1>5, <1>6 DEF PayoutsInv

LEMMA StepKeepsPayoutsInv == PayoutsInv /\ [PayoutsNext]_payoutVars => PayoutsInv'
  <1> SUFFICES ASSUME PayoutsInv, [PayoutsNext]_payoutVars PROVE PayoutsInv'
    OBVIOUS
  <1> USE DEF PayoutsInv, PayoutsTypeOK, PaidForWhatWasEarned, JobIsRight,
              DisputeHoldsPayment
  <1>1. CASE UNCHANGED payoutVars
    BY <1>1 DEF payoutVars
  <1>2. CASE NextMonth
    BY <1>2, PayoutsAssumption DEF NextMonth, Months
  <1>3. CASE LoseRefresh
    BY <1>3 DEF LoseRefresh, NoJob
  <1>4. CASE GetReady
    BY <1>4 DEF GetReady
  <1>5. ASSUME NEW m \in Months, PayOut(m) PROVE PayoutsInv'
    <2>1. payout' \in [Months -> PayoutStatuses]
      BY <1>5 DEF PayOut, PayoutStatuses
    <2>2. PayoutsTypeOK'
      BY <1>5, <2>1 DEF PayOut
    <2> QED
      BY <1>5, <2>2 DEF PayOut
  <1>6. ASSUME NEW m \in Months, Dispute(m) \/ RespondToDispute(m) PROVE PayoutsInv'
    BY <1>6 DEF Dispute, RespondToDispute, Disputable
  <1> QED
    BY <1>1, <1>2, <1>3, <1>4, <1>5, <1>6, SaleKeepsPayoutsInv, RefreshKeepsPayoutsInv,
       ConfirmKeepsPayoutsInv
    DEF PayoutsNext

-----------------------------------------------------------------------------
(* The theorems.                                                           *)

(* The payouts keep PayoutsInv, whatever commits while the job runs.       *)
THEOREM PayoutsSafety == PayoutsSpec => []PayoutsInv
  <1>1. PayoutsInit => PayoutsInv
    BY InitPayoutsInv
  <1>2. PayoutsInv /\ [PayoutsNext]_payoutVars => PayoutsInv'
    BY StepKeepsPayoutsInv
  <1> QED
    BY <1>1, <1>2, PTL DEF PayoutsSpec

(* The rows of the payouts keep their types.                               *)
THEOREM PayoutsTypeCorrect == PayoutsSpec => []PayoutsTypeOK
  <1>1. PayoutsInv => PayoutsTypeOK
    BY DEF PayoutsInv
  <1> QED
    BY <1>1, PayoutsSafety, PTL

(* A brand is paid for an order in the one month its customer paid, and    *)
(* only if it was sprayed or forfeited, now and for good.                  *)
THEOREM PayoutsPaidForWhatWasEarned == PayoutsSpec => []PaidForWhatWasEarned
  <1>1. PayoutsInv => PaidForWhatWasEarned
    BY DEF PayoutsInv
  <1> QED
    BY <1>1, PayoutsSafety, PTL

(* Nothing is transferred while the brand disputes the figures.            *)
THEOREM PayoutsDisputeHoldsPayment == PayoutsSpec => []DisputeHoldsPayment
  <1>1. PayoutsInv => DisputeHoldsPayment
    BY DEF PayoutsInv
  <1> QED
    BY <1>1, PayoutsSafety, PTL

(* Closed figures stay as they are, although the job that closes them read *)
(* the orders, and the months, before it could see what others committed.  *)
THEOREM PayoutsClosedFiguresStay == PayoutsSpec => ClosedFiguresStay
  <1> DEFINE stay == \A m \in Months : payout[m] \in {"CONFIRMED", "PAID"} =>
                       counted'[m] = counted[m] /\ payout'[m] \in {payout[m], "PAID"}
  <1>1. PayoutsInv /\ [PayoutsNext]_payoutVars => [stay]_payoutVars
    <2> SUFFICES ASSUME PayoutsInv, PayoutsNext PROVE stay
      BY DEF payoutVars
    <2>1. CASE ConfirmEndedPeriods
      BY <2>1 DEF ConfirmEndedPeriods, PayoutsInv, JobIsRight
    <2>2. ASSUME NEW m \in Months, PayOut(m) PROVE stay
      BY <2>2 DEF PayOut, PayoutsInv, PayoutsTypeOK
    <2> QED
      BY <2>1, <2>2
      DEF PayoutsNext, NextMonth, Pay, Proceed, RefreshDraftPayouts, LoseRefresh,
          GetReady, Dispute, RespondToDispute
  <1> QED
    BY <1>1, PayoutsSafety, PTL DEF PayoutsSpec, ClosedFiguresStay
=============================================================================
