------------------------------ MODULE Rentals ------------------------------
(***************************************************************************)
(* Renting the slots of a machine (slt, exp, and what inv does to the      *)
(* bottle of a slot): a brand puts slots in a checkout that is held for a  *)
(* while, pays it, stocks the slots, renews or declines, and otherwise     *)
(* goes through a period of grace to liquidation.                          *)
(*                                                                         *)
(* A rental (slot_rentals) is the pair of its checkout and the slot it was *)
(* bought for.  Passing a deadline is a step of its own.  Operations that  *)
(* read a rental before their transaction are two steps, with a request in *)
(* between; so are the webhook and the job that begins a grace, which read *)
(* inside theirs what another may write.  Other transactions are one step. *)
(***************************************************************************)
EXTENDS FiniteSets, Integers

CONSTANTS
  Checkouts, BrandOf,  \* rental_checkouts, and the brand of each
  Slots,
  Carts,               \* the slots that are offered together to a checkout
  Nobody, Platform,    \* who is not a brand: no one, and the platform
  Payments,            \* the payments a checkout may have: <<checkout, n>>
  MaxPayments,         \* bounds the payments of all checkouts
  HoldLimit,           \* BRAND_MAX_HELD_SLOTS
  MaxRequests          \* bounds the operations between their read and their write

Brands == {BrandOf[c] : c \in Checkouts}
Rentals == Checkouts \X Slots
NoRental == <<Nobody, Nobody>>

ASSUME RentalAssumptions ==
  /\ \A c \in Checkouts : BrandOf[c] \notin {Nobody, Platform, "EMPTY"}
  /\ Nobody \notin Checkouts \cup Slots
  /\ Nobody # Platform
  /\ Checkouts \cap Rentals = {}
  /\ \A p \in Payments : p[1] \in Checkouts

VARIABLES
  status,     \* slot_rentals.status, "NONE" before the row exists
  place,      \* slot_rentals.slot_id
  prev,       \* slot_rentals.previous_rental_id
  declined,   \* those with non_renewal_requested_at
  returned,   \* those with a row in bottle_returns
  checkout,   \* NONE, OPEN, PAID (paid_at) or CANCELLED (cancelled_at)
  overdue,    \* the open checkouts whose hold_expires_at has passed, the rentals
              \* in force or in GRACE whose ends_at or grace_ends_at has passed
  pay,        \* payments.status
  bottle,     \* the owner of the bottle in a slot, Nobody, or "EMPTY"
  session,    \* refill_sessions: the brand of the slot's open one, or Nobody
  requests,   \* operations that have read a rental and not yet begun to write
  settling,   \* webhooks that have locked a payment and its checkout
  ending      \* rentals the job has locked and found not renewed

rentalVars == <<status, place, prev, declined, returned>>
shopVars == <<checkout, pay>>
slotVars == <<bottle, session>>
flightVars == <<requests, settling, ending>>
vars == <<rentalVars, overdue, shopVars, slotVars, flightVars>>

RentalStatuses ==
  {"DRAFT", "ACTIVE", "EXPIRING", "GRACE", "RENEWED", "LIQUIDATED", "CLOSED", "CANCELLED"}
Occupying == {"ACTIVE", "EXPIRING", "GRACE", "LIQUIDATED"}
BLOCKING_STATUSES == Occupying \cup {"DRAFT"}
PaymentStatuses == {"PENDING", "FAILED", "EXPIRED", "SUCCEEDED", "REFUND_PENDING"}

Requests == [op : {"renew", "liquidate", "close", "return"}, rental : Rentals]
Settling == [payment : Payments, renews : SUBSET Rentals]

TypeOK ==
  /\ status \in [Rentals -> RentalStatuses \cup {"NONE"}]
  /\ place \in [Rentals -> Slots]
  /\ prev \in [Rentals -> Rentals \cup {NoRental}]
  /\ declined \subseteq Rentals /\ returned \subseteq Rentals
  /\ overdue \subseteq {c \in Checkouts : checkout[c] = "OPEN"}
                      \cup {r \in Rentals : status[r] \in {"ACTIVE", "EXPIRING", "GRACE"}}
  /\ checkout \in [Checkouts -> {"NONE", "OPEN", "PAID", "CANCELLED"}]
  /\ pay \in [Payments -> PaymentStatuses \cup {"NONE"}]
  /\ bottle \in [Slots -> Brands \cup {Platform, Nobody, "EMPTY"}]
  /\ session \in [Slots -> Brands \cup {Nobody}]
  /\ requests \subseteq Requests
  /\ settling \subseteq Settling
  /\ ending \subseteq Rentals

Init ==
  /\ status = [r \in Rentals |-> "NONE"]
  /\ place = [r \in Rentals |-> r[2]]
  /\ prev = [r \in Rentals |-> NoRental]
  /\ declined = {} /\ returned = {} /\ overdue = {}
  /\ checkout = [c \in Checkouts |-> "NONE"]
  /\ pay = [p \in Payments |-> "NONE"]
  /\ bottle = [s \in Slots |-> Nobody]
  /\ session = [s \in Slots |-> Nobody]
  /\ requests = {} /\ settling = {} /\ ending = {}

-----------------------------------------------------------------------------
(* Rows and constraints of the database                                    *)

RentalsOf(c) == {r \in Rentals : r[1] = c /\ status[r] # "NONE"}
BrandOfRental(r) == BrandOf[r[1]]
Paid(r) == checkout[r[1]] = "PAID"
RentalsAt(s) == {r \in Rentals : status[r] # "NONE" /\ place[r] = s}
BlockingAt(s) == {r \in Rentals : status[r] \in BLOCKING_STATUSES /\ place[r] = s}

(* Those that give a brand the slot: what is liquidated is the platform's.  *)
LiveAt(s) == {r \in BlockingAt(s) : status[r] # "LIQUIDATED"}

(* Who has a slot; what is live there is of one brand (OneBrandPerSlot).    *)
TenantOf(s) ==
  LET live == LiveAt(s) IN
  IF live # {} THEN BrandOfRental(CHOOSE r \in live : TRUE)
  ELSE IF BlockingAt(s) # {} THEN Platform
  ELSE Nobody

(* What one brand holds without having paid for it.                        *)
HeldBy(b) ==
  {r \in Rentals : /\ status[r] # "NONE" /\ BrandOfRental(r) = b
                   /\ checkout[r[1]] = "OPEN" /\ r[1] \notin overdue}

(* Whether the periods of two rentals that block a slot may be disjoint: a  *)
(* renewal's begins when the other's ends, the period of what is liquidated *)
(* was over when its grace began, and a grace that is prolonged may outlast *)
(* the renewal that is bought first.                                        *)
MayFollow(st, pr, r, q) ==
  \/ pr[r] = q \/ pr[q] = r
  \/ "LIQUIDATED" \in {st[r], st[q]}
  \/ pr[r] = pr[q] /\ pr[r] \in Rentals /\ st[pr[r]] \notin {"ACTIVE", "EXPIRING"}

(* uq_slot_active_rental, and what excl_slot_rental_overlap does not refuse *)
(* for certain; where it refuses more, the transaction is lost as well.     *)
IndexesAllow(st, pl, pr) ==
  LET blocking == {r \in Rentals : st[r] \in BLOCKING_STATUSES} IN
  \A r, q \in blocking :
    r # q /\ pl[r] = pl[q] =>
      ~({st[r], st[q]} \subseteq Occupying) /\ MayFollow(st, pr, r, q)

Request(what, r) ==
  /\ Cardinality(requests) < MaxRequests
  /\ requests' = requests \cup {[op |-> what, rental |-> r]}

(* A request is one operation, or several that have read the same.          *)
Answer(what, r) ==
  LET req == [op |-> what, rental |-> r] IN
  req \in requests /\ requests' \in {requests, requests \ {req}}

(* A webhook in flight holds the rows of a payment and of its checkout.    *)
Locked(c) == \E w \in settling : w.payment[1] = c

(* The process stops, or the request is refused, before anything is written. *)
LoseRequest(q) ==
  /\ q \in requests
  /\ requests' = requests \ {q}
  /\ UNCHANGED <<rentalVars, overdue, shopVars, slotVars, settling, ending>>

-----------------------------------------------------------------------------
(* Buying                                                                  *)

CreateCheckout(c, cart) ==
  /\ checkout[c] = "NONE"
  /\ Cardinality(HeldBy(BrandOf[c])) + Cardinality(cart) <= HoldLimit
  /\ \A s \in cart : BlockingAt(s) = {}
  /\ checkout' = [checkout EXCEPT ![c] = "OPEN"]
  /\ status' = [r \in Rentals |-> IF r \in {c} \X cart THEN "DRAFT" ELSE status[r]]
  /\ UNCHANGED <<place, prev, declined, returned, overdue, pay, slotVars, flightVars>>

CanRenew(r) == status[r] \in {"EXPIRING", "GRACE"}

AskRenewal(r) ==
  /\ CanRenew(r)
  /\ Request("renew", r)
  /\ UNCHANGED <<rentalVars, overdue, shopVars, slotVars, settling, ending>>

(* createRenewalCheckoutTx looks for open holds of the slot only; a        *)
(* renewal that is already paid is caught by the constraint.  The row that *)
(* it refers to must not be locked.                                        *)
Renew(r, c) ==
  LET n == <<c, place[r]>>
      st == [status EXCEPT ![n] = "DRAFT"]
      pr == [prev EXCEPT ![n] = r] IN
  /\ Answer("renew", r) /\ r \notin ending
  /\ checkout[c] = "NONE" /\ BrandOf[c] = BrandOfRental(r)
  /\ IF /\ Cardinality(HeldBy(BrandOf[c])) < HoldLimit
        /\ \A q \in RentalsAt(place[r]) : checkout[q[1]] = "OPEN" => q[1] \in overdue
        /\ IndexesAllow(st, place, pr)
     THEN /\ checkout' = [checkout EXCEPT ![c] = "OPEN"]
          /\ status' = st
          /\ prev' = pr
     ELSE UNCHANGED <<checkout, status, prev>>
  /\ UNCHANGED <<place, declined, returned, overdue, pay, slotVars, settling, ending>>

HoldExpires(c) ==
  /\ checkout[c] = "OPEN" /\ c \notin overdue
  /\ overdue' = overdue \cup {c}
  /\ UNCHANGED <<rentalVars, shopVars, slotVars, flightVars>>

(* payCheckout; with a payment pending it returns that one.                *)
PayCheckout(p) ==
  /\ checkout[p[1]] = "OPEN" /\ p[1] \notin overdue /\ ~Locked(p[1])
  /\ \A q \in Payments : q[1] = p[1] => pay[q] # "PENDING"
  /\ pay[p] = "NONE"
  /\ Cardinality({q \in Payments : pay[q] # "NONE"}) < MaxPayments
  /\ pay' = [pay EXCEPT ![p] = "PENDING"]
  /\ UNCHANGED <<rentalVars, overdue, checkout, slotVars, flightVars>>

CloseCheckout_KeepsPayment(c) ==                                 \* mutant
  /\ checkout[c] = "OPEN" /\ ~Locked(c)
  /\ checkout' = [checkout EXCEPT ![c] = "CANCELLED"]
  /\ status' = [r \in Rentals |-> IF r \in RentalsOf(c) THEN "CANCELLED" ELSE status[r]]
  /\ overdue' = overdue \ {c}
  /\ UNCHANGED <<place, prev, declined, returned, pay, slotVars, flightVars>>

CloseCheckout(c) ==
  /\ checkout[c] = "OPEN" /\ ~Locked(c)
  /\ checkout' = [checkout EXCEPT ![c] = "CANCELLED"]
  /\ pay' = [p \in Payments |-> IF p[1] = c /\ pay[p] = "PENDING" THEN "EXPIRED" ELSE pay[p]]
  /\ status' = [r \in Rentals |-> IF r \in RentalsOf(c) THEN "CANCELLED" ELSE status[r]]
  /\ overdue' = overdue \ {c}
  /\ UNCHANGED <<place, prev, declined, returned, slotVars, flightVars>>

CancelCheckout(c) == CloseCheckout(c)

CancelExpiredCheckout(c) == c \in overdue /\ CloseCheckout(c)

-----------------------------------------------------------------------------
(* The webhook of a payment (PaymentWebhookService.settle)                 *)

Settleable == {"PENDING", "FAILED", "EXPIRED"}

PaymentFails(p) ==
  /\ pay[p] = "PENDING"
  /\ \A w \in settling : w.payment # p
  /\ pay' = [pay EXCEPT ![p] = "FAILED"]
  /\ UNCHANGED <<rentalVars, overdue, checkout, slotVars, flightVars>>

RefundPayment(p) ==
  /\ pay[p] \in Settleable /\ ~Locked(p[1])
  /\ checkout[p[1]] \in {"CANCELLED", "PAID"}
  /\ pay' = [pay EXCEPT ![p] = "REFUND_PENDING"]
  /\ UNCHANGED <<rentalVars, overdue, checkout, slotVars, flightVars>>

(* onPaymentSucceeded reads the rental to renew outside its transaction    *)
(* and without a lock.                                                     *)
BeginSettle(p) ==
  /\ pay[p] \in Settleable /\ ~Locked(p[1])
  /\ checkout[p[1]] = "OPEN"
  /\ settling' = settling \cup
       {[payment |-> p,
         renews |-> {r \in RentalsOf(p[1]) :
                       prev[r] # NoRental /\ status[prev[r]] = "GRACE"}]}
  /\ UNCHANGED <<rentalVars, overdue, shopVars, slotVars, requests, ending>>

(* transitionToRenewed, which looks at neither status.                     *)
TakeOver_OnlyEnds(new) ==                                        \* mutant
  [r \in Rentals |-> IF \E n \in new : prev[n] = r THEN "RENEWED" ELSE status[r]]

TakeOver(new) ==
  [r \in Rentals |-> IF r \in new THEN "ACTIVE"
                     ELSE IF \E n \in new : prev[n] = r THEN "RENEWED"
                     ELSE status[r]]

CommitSettle(w) ==
  LET p == w.payment
      st == TakeOver(w.renews) IN
  /\ w \in settling
  /\ settling' = settling \ {w}
  /\ IF IndexesAllow(st, place, prev)
     THEN /\ pay' = [pay EXCEPT ![p] = "SUCCEEDED"]
          /\ checkout' = [checkout EXCEPT ![p[1]] = "PAID"]
          /\ status' = st
          /\ overdue' = overdue \ ({p[1]} \cup {prev[n] : n \in w.renews})
     ELSE UNCHANGED <<pay, checkout, status, overdue>>
  /\ UNCHANGED <<place, prev, declined, returned, slotVars, requests, ending>>

(* The process stops before the commit; the gateway repeats the webhook.   *)
LoseSettle(w) ==
  /\ w \in settling
  /\ settling' = settling \ {w}
  /\ UNCHANGED <<rentalVars, overdue, shopVars, slotVars, requests, ending>>

-----------------------------------------------------------------------------
(* The life of a rental (SltJobs)                                          *)

(* Its first bottle is installed, or RENTAL_MAX_STOCKING_DAYS have passed. *)
CanStart(r) == status[r] = "DRAFT" /\ Paid(r) /\ prev[r] = NoRental

AutoActivate_Stocked(r) ==                                       \* mutant
  /\ CanStart(r) /\ bottle[place[r]] # Nobody
  /\ status' = [status EXCEPT ![r] = "ACTIVE"]
  /\ UNCHANGED <<place, prev, declined, returned, overdue, shopVars, slotVars,
                 flightVars>>

AutoActivate(r) ==
  /\ CanStart(r)
  /\ status' = [status EXCEPT ![r] = "ACTIVE"]
  /\ IndexesAllow(status', place, prev)
  /\ UNCHANGED <<place, prev, declined, returned, overdue, shopVars, slotVars,
                 flightVars>>

(* scanExpiringRentals: the last days of the rental have begun.            *)
ScanExpiring(r) ==
  /\ status[r] = "ACTIVE" /\ r \notin ending
  /\ status' = [status EXCEPT ![r] = "EXPIRING"]
  /\ UNCHANGED <<place, prev, declined, returned, overdue, shopVars, slotVars,
                 flightVars>>

PeriodEnds(r) ==
  /\ status[r] \in {"ACTIVE", "EXPIRING"} /\ r \notin overdue
  /\ overdue' = overdue \cup {r}
  /\ UNCHANGED <<rentalVars, shopVars, slotVars, flightVars>>

PaidRenewals(r) == {n \in Rentals : prev[n] = r /\ Paid(n) /\ status[n] \in {"DRAFT", "ACTIVE"}}

IsDue_Announced(r) == status[r] = "EXPIRING" /\ r \in overdue /\ r \notin declined  \* mutant
IsDue(r) == status[r] \in {"ACTIVE", "EXPIRING"} /\ r \in overdue /\ r \notin declined

(* autoTransitionToGrace locks the rental and reads its renewals without a  *)
(* lock.  What it finds there stays as it was found.                        *)
HandOver(r) ==
  /\ IsDue(r) /\ r \notin ending
  /\ \E n \in PaidRenewals(r) : status' = TakeOver({n})
  /\ IndexesAllow(status', place, prev)
  /\ overdue' = overdue \ {r}
  /\ UNCHANGED <<place, prev, declined, returned, shopVars, slotVars,
                 flightVars>>

BeginGrace_IgnoresRenewal(r) ==                                  \* mutant
  /\ IsDue(r) /\ r \notin ending
  /\ ending' = ending \cup {r}
  /\ UNCHANGED <<rentalVars, overdue, shopVars, slotVars, requests, settling>>

(* It found none; one may be paid before it writes.                        *)
BeginGrace(r) ==
  /\ IsDue(r) /\ r \notin ending
  /\ PaidRenewals(r) = {}
  /\ ending' = ending \cup {r}
  /\ UNCHANGED <<rentalVars, overdue, shopVars, slotVars, requests, settling>>

CommitGrace(r) ==
  /\ r \in ending
  /\ ending' = ending \ {r}
  /\ status' = [status EXCEPT ![r] = "GRACE"]
  /\ overdue' = overdue \ {r}
  /\ UNCHANGED <<place, prev, declined, returned, shopVars, slotVars,
                 requests, settling>>

LoseGrace(r) ==
  /\ r \in ending
  /\ ending' = ending \ {r}
  /\ UNCHANGED <<rentalVars, overdue, shopVars, slotVars, requests, settling>>

GraceEnds(r) ==
  /\ status[r] = "GRACE" /\ r \notin overdue
  /\ overdue' = overdue \cup {r}
  /\ UNCHANGED <<rentalVars, shopVars, slotVars, flightVars>>

(* setGracePeriod gives the brand more time.                               *)
ExtendGrace(r) ==
  /\ status[r] = "GRACE" /\ r \in overdue
  /\ overdue' = overdue \ {r}
  /\ UNCHANGED <<rentalVars, shopVars, slotVars, flightVars>>

(* autoTransitionToLiquidated, or staff (liquidate).                       *)
AskLiquidation(r) ==
  /\ status[r] = "GRACE"
  /\ Request("liquidate", r)
  /\ UNCHANGED <<rentalVars, overdue, shopVars, slotVars, settling, ending>>

(* liquidateRentalTx does not look at the status.                          *)
Liquidate(r) ==
  LET st == [status EXCEPT ![r] = "LIQUIDATED"] IN
  /\ Answer("liquidate", r)
  /\ IF IndexesAllow(st, place, prev)
     THEN /\ status' = st
          /\ bottle' = IF bottle[place[r]] \in Brands
                       THEN [bottle EXCEPT ![place[r]] = Platform] ELSE bottle
          /\ overdue' = overdue \ {r}
     ELSE UNCHANGED <<status, bottle, overdue>>
  /\ UNCHANGED <<place, prev, declined, returned, shopVars, session,
                 settling, ending>>

(* close: what is left has been sold.                                      *)
AskClose(r) ==
  /\ status[r] = "LIQUIDATED"
  /\ bottle[place[r]] \in {Nobody, "EMPTY"}
  /\ Request("close", r)
  /\ UNCHANGED <<rentalVars, overdue, shopVars, slotVars, settling, ending>>

Close(r) ==
  /\ Answer("close", r)
  /\ status' = [status EXCEPT ![r] = "CLOSED"]
  /\ bottle' = IF BlockingAt(place[r]) \subseteq {r} /\ bottle[place[r]] = "EMPTY"
               THEN [bottle EXCEPT ![place[r]] = Nobody] ELSE bottle
  /\ UNCHANGED <<place, prev, declined, returned, overdue, shopVars, session,
                 settling, ending>>

-----------------------------------------------------------------------------
(* What the brand may do meanwhile                                         *)

MayDecline(r) == status[r] \in {"ACTIVE", "EXPIRING"} /\ r \notin overdue

Decline(r) ==
  /\ MayDecline(r) /\ r \notin declined
  /\ declined' = declined \cup {r}
  /\ UNCHANGED <<status, place, prev, returned, overdue, shopVars, slotVars,
                 flightVars>>

Withdraw(r) ==
  /\ MayDecline(r) /\ r \in declined
  /\ declined' = declined \ {r}
  /\ UNCHANGED <<status, place, prev, returned, overdue, shopVars, slotVars,
                 flightVars>>

(* createBottleReturn: the goods of a rental that was declined go back.    *)
AskReturn(r) ==
  /\ r \in declined
  /\ Request("return", r)
  /\ UNCHANGED <<rentalVars, overdue, shopVars, slotVars, settling, ending>>

Return_KeepsBottle(r) ==                                         \* mutant
  /\ Answer("return", r) /\ r \notin ending
  /\ r \notin returned
  /\ returned' = returned \cup {r}
  /\ status' = [status EXCEPT ![r] = "CLOSED"]
  /\ overdue' = overdue \ {r}
  /\ UNCHANGED <<place, prev, declined, shopVars, slotVars, settling, ending>>

Return(r) ==
  /\ Answer("return", r) /\ r \notin ending
  /\ IF r \notin returned  \* uq_bottle_return_rental
     THEN /\ returned' = returned \cup {r}
          /\ status' = [status EXCEPT ![r] = "CLOSED"]
          /\ bottle' = [bottle EXCEPT ![place[r]] = Nobody]
          /\ overdue' = overdue \ {r}
     ELSE UNCHANGED <<returned, status, bottle, overdue>>
  /\ UNCHANGED <<place, prev, declined, shopVars, session, settling, ending>>

SwapSlot_TakenSlot(r, s) ==                                      \* mutant
  /\ status[r] = "DRAFT" /\ Paid(r) /\ place[r] = r[2]
  /\ s # place[r]
  /\ bottle[place[r]] = Nobody /\ bottle[s] = Nobody
  /\ place' = [place EXCEPT ![r] = s]
  /\ UNCHANGED <<status, prev, declined, returned, overdue, shopVars, slotVars, flightVars>>

(* swapSlotTx: a paid rental that has not begun moves to another slot.     *)
SwapSlot(r, s) ==
  /\ status[r] = "DRAFT" /\ Paid(r) /\ place[r] = r[2]
  /\ s # place[r]
  /\ bottle[place[r]] = Nobody /\ bottle[s] = Nobody
  /\ BlockingAt(s) = {}
  /\ place' = [place EXCEPT ![r] = s]
  /\ UNCHANGED <<status, prev, declined, returned, overdue, shopVars, slotVars, flightVars>>

-----------------------------------------------------------------------------
(* The bottle of a slot (InvService)                                       *)

(* findStockableRental: the newest of the rentals in force or paid for.    *)
Stockable(r) == status[r] \in {"ACTIVE", "EXPIRING", "GRACE"} \/ (status[r] = "DRAFT" /\ Paid(r))

StockableAt(s) ==
  {r \in RentalsAt(s) : Stockable(r) /\ \A q \in RentalsAt(s) : prev[q] = r => ~Stockable(q)}

OpenRefill(s) ==
  /\ session[s] = Nobody
  /\ \E r \in StockableAt(s) : session' = [session EXCEPT ![s] = BrandOfRental(r)]
  /\ UNCHANGED <<rentalVars, overdue, shopVars, bottle, flightVars>>

(* activateOnFirstBottleInstall refuses a rental that is EXPIRING or in    *)
(* GRACE, and with it the whole transaction.                               *)
MayInstall(r) == status[r] \in {"DRAFT", "ACTIVE"}

CloseRefill(s) ==
  \E r \in StockableAt(s) :
    /\ session[s] = BrandOfRental(r)
    /\ MayInstall(r) /\ r \notin ending
    /\ session' = [session EXCEPT ![s] = Nobody]
    /\ bottle' = [bottle EXCEPT ![s] = BrandOfRental(r)]
    /\ status' = IF CanStart(r) THEN [status EXCEPT ![r] = "ACTIVE"] ELSE status
    /\ IndexesAllow(status', place, prev)
    /\ UNCHANGED <<place, prev, declined, returned, overdue, shopVars, flightVars>>

BottleEmpties(s) ==
  /\ bottle[s] \in Brands \cup {Platform}
  /\ bottle' = [bottle EXCEPT ![s] = "EMPTY"]
  /\ UNCHANGED <<rentalVars, overdue, shopVars, session, flightVars>>

(* markBottleDamaged *)
BottleDamaged(s) ==
  /\ bottle[s] # Nobody
  /\ bottle' = [bottle EXCEPT ![s] = Nobody]
  /\ UNCHANGED <<rentalVars, overdue, shopVars, session, flightVars>>

-----------------------------------------------------------------------------
Buying ==
  \/ \E c \in Checkouts : \E cart \in Carts[c] : CreateCheckout(c, cart)
  \/ \E r \in Rentals : AskRenewal(r) \/ \E c \in Checkouts : Renew(r, c)
  \/ \E c \in Checkouts : HoldExpires(c) \/ CancelCheckout(c) \/ CancelExpiredCheckout(c)
  \/ \E p \in Payments :
       PayCheckout(p) \/ PaymentFails(p) \/ RefundPayment(p) \/ BeginSettle(p)
  \/ \E w \in settling : CommitSettle(w) \/ LoseSettle(w)
  \/ \E q \in requests : LoseRequest(q)

Renting ==
  \E r \in Rentals :
    \/ AutoActivate(r) \/ ScanExpiring(r) \/ PeriodEnds(r) \/ HandOver(r)
    \/ BeginGrace(r) \/ CommitGrace(r) \/ LoseGrace(r)
    \/ GraceEnds(r) \/ ExtendGrace(r) \/ AskLiquidation(r) \/ Liquidate(r)
    \/ AskClose(r) \/ Close(r) \/ Decline(r) \/ Withdraw(r) \/ AskReturn(r) \/ Return(r)
    \/ \E s \in Slots : SwapSlot(r, s)

Stocking ==
  \E s \in Slots : OpenRefill(s) \/ CloseRefill(s) \/ BottleEmpties(s) \/ BottleDamaged(s)

Next == Buying \/ Renting \/ Stocking

Spec == Init /\ [][Next]_vars

(* What the scheduler repeats for ever, and the rows it takes in its turn.  *)
(* A webhook may hold the rows of a checkout again and again.               *)
Fairness ==
  /\ \A c \in Checkouts : SF_vars(CancelExpiredCheckout(c))
  /\ WF_vars(\E w \in settling : CommitSettle(w) \/ LoseSettle(w))
  /\ WF_vars(\E q \in requests : LoseRequest(q))
  /\ \A r \in Rentals :
       /\ WF_vars(AutoActivate(r))
       /\ WF_vars(HandOver(r) \/ BeginGrace(r)) /\ SF_vars(CommitGrace(r))
       /\ SF_vars(AskLiquidation(r)) /\ SF_vars(Liquidate(r))

FairSpec == Spec /\ Fairness

-----------------------------------------------------------------------------
(* A checkout is paid when exactly one of its payments has succeeded, and   *)
(* no payment that succeeded is for a checkout that was cancelled.          *)
PaidOnce ==
  \A c \in Checkouts :
    LET taken == {p \in Payments : p[1] = c /\ pay[p] = "SUCCEEDED"} IN
    IF checkout[c] = "PAID" THEN Cardinality(taken) = 1 ELSE taken = {}

(* A checkout that has been cancelled leaves no payment that can still be   *)
(* asked for (payCheckout, cancelCheckout, cancelExpiredCheckouts).         *)
NoPaymentOutlives ==
  \A p \in Payments : checkout[p[1]] = "CANCELLED" => pay[p] # "PENDING"

(* What has been in force was paid for, and only what was never paid for    *)
(* was cancelled.                                                           *)
InForceIsPaid ==
  \A r \in Rentals :
    /\ status[r] \in Occupying \cup {"RENEWED", "CLOSED"} => Paid(r)
    /\ status[r] = "CANCELLED" <=> status[r] # "NONE" /\ checkout[r[1]] = "CANCELLED"

(* What is held, in force or cancelled is so because of what was paid for  *)
(* its checkout: once, and not after it was cancelled.                     *)
HoldsArePaidFor == PaidOnce /\ NoPaymentOutlives /\ InForceIsPaid

(* Two brands block a slot only when a liquidation that had been asked for  *)
(* comes after the slot was let again, and the new rental has not begun     *)
(* (liquidateRentalTx; createCheckoutTx, swapSlotTx and the indexes).       *)
OneBrandPerSlot ==
  \A s \in Slots : \A r, q \in BlockingAt(s) :
    BrandOfRental(r) # BrandOfRental(q) => {status[r], status[q]} = {"DRAFT", "LIQUIDATED"}

(* A brand that has declined to renew is not charged for GRACE.             *)
DeclinedNoGrace == \A r \in declined : status[r] # "GRACE"

(* A rental that gave way did so to one that was paid for and began.        *)
RenewedTookEffect ==
  \A r \in Rentals :
    status[r] = "RENEWED" =>
      \E n \in Rentals : prev[n] = r /\ status[n] \notin {"NONE", "DRAFT", "CANCELLED"}

(* What the brand decided about its renewal is what happens to the slot.   *)
RenewalIsKept == DeclinedNoGrace /\ RenewedTookEffect

(* A brand's bottle is in a slot that was liquidated only when that brand   *)
(* has paid to go on, here or in the slot it was swapped from.              *)
LiquidatedIsThePlatforms ==
  \A r \in Rentals :
    status[r] = "LIQUIDATED" /\ bottle[place[r]] \in Brands =>
      \E n \in RentalsAt(place[r]) \ {r} :
        BrandOfRental(n) = bottle[place[r]] /\ Paid(n) /\ prev[n] # NoRental

(* One brand at a time has a right to a slot, or the platform has.         *)
SlotHasOneOwner == OneBrandPerSlot /\ LiquidatedIsThePlatforms

(* A renewal that is paid for while its rental is not in grace, and the job *)
(* has not just looked, keeps it out of grace for good, whoever comes last  *)
(* (autoTransitionToGrace, onPaymentSucceeded).                             *)
RenewedInTime(n) ==
  prev[n] # NoRental /\ Paid(n) /\ status[prev[n]] # "GRACE" /\ prev[n] \notin ending

RenewedStays == [][\A n \in Rentals : RenewedInTime(n) => RenewedInTime(n)']_vars

(* A rental that has ended comes back only to be liquidated, by staff or    *)
(* the job that had read it in its grace, and only in a slot that no other  *)
(* has begun to occupy; renewals and returns on their way bring none back.  *)
Ended == {"RENEWED", "CLOSED", "CANCELLED"}
EndsForGood ==
  [][\A r \in Rentals :
       status[r] \in Ended /\ status'[r] \notin Ended =>
         /\ status'[r] = "LIQUIDATED" /\ [op |-> "liquidate", rental |-> r] \in requests
         /\ \A q \in RentalsAt(place[r]) : status'[q] \in Occupying => q = r]_vars

(* What was renewed in time does not enter its grace, and what has ended    *)
(* does so for good unless a liquidation was under way, in whatever order   *)
(* jobs, webhooks and staff come to it.                                     *)
EndsAsAgreed == RenewedStays /\ EndsForGood

(* A hold that has passed gives its slots back.                             *)
HoldEnds == \A c \in Checkouts : c \in overdue ~> c \notin overdue

(* A rental whose period has passed ends, except one that was declined, or  *)
(* whose renewal was swapped to a slot that is liquidated there; one whose  *)
(* grace has passed is liquidated, renewed or given more time.              *)
PeriodIsFollowed ==
  \A r \in Rentals :
    r \in overdue ~>
      \/ r \notin overdue \/ r \in declined
      \/ \E n \in PaidRenewals(r) : ~IndexesAllow(TakeOver({n}), place, prev)

(* A slot that was paid for is in force in the end, stocked or not, unless  *)
(* what was there before is liquidated late and has not been closed.        *)
PaidStarts ==
  \A r \in Rentals :
    CanStart(r) ~>
      \/ status[r] = "ACTIVE"
      \/ \E q \in RentalsAt(place[r]) \ {r} : status[q] = "LIQUIDATED"

(* Every checkout ends: its hold is given back, or what it paid for starts. *)
CheckoutsEnd == HoldEnds /\ PaidStarts

T == INSTANCE Tenancy WITH
  tenant <- [s \in Slots |-> TenantOf(s)],
  goods <- [s \in Slots |-> IF bottle[s] \in Brands THEN bottle[s] ELSE Nobody]

(* The slots of the machine are let as Tenancy says.                        *)
ImplementsTenancy == T!Spec

(* A rental whose renewal has been paid is never in GRACE.                  *)
PaidRenewalNeverGrace ==
  \A n \in Rentals : prev[n] # NoRental /\ Paid(n) => status[prev[n]] # "GRACE"

(* Two brands never block one slot, not even for a moment.                  *)
NeverTwoBrands ==
  \A s \in Slots : \A r, q \in BlockingAt(s) : BrandOfRental(r) = BrandOfRental(q)

(* What the rules say of the state machine: nothing leads out of CLOSED,    *)
(* and what was liquidated is not renewed.                                  *)
FollowsDiagram ==
  [][\A r \in Rentals :
       /\ status[r] = "CLOSED" => status'[r] = "CLOSED"
       /\ status[r] = "LIQUIDATED" => status'[r] # "RENEWED"]_vars

(* A slot that the brand may stock takes the bottle of its open session.    *)
OpenRefillCloses ==
  \A s \in Slots : session[s] # Nobody => \A r \in StockableAt(s) : MayInstall(r)
=============================================================================
