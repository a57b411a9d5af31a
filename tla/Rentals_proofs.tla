--------------------------- MODULE Rentals_proofs ---------------------------
(***************************************************************************)
(* Rentals, whatever brands, webhooks, jobs and staff do to them in turn:  *)
(* holds are paid for, renewals are kept, and a slot has one owner, as     *)
(* Tenancy promises.                                                       *)
(***************************************************************************)
EXTENDS Rentals, FiniteSetTheorems, TLAPS

USE DEF rentalVars, shopVars, slotVars, flightVars

-----------------------------------------------------------------------------
(* The inductive invariant.                                                *)

(* What a rental never leaves once it is in force.                         *)
Begun == Occupying \cup {"RENEWED", "CLOSED"}
Lapsing == Begun \ {"ACTIVE"}
Over == {"LIQUIDATED", "RENEWED", "CLOSED"}
Lapsed == Over \cup {"GRACE"}

(* A checkout has rentals only once it is open, and until it is paid they  *)
(* are drafts where they were bought.                                      *)
HoldsAreDrafts ==
  \A r \in Rentals :
    /\ checkout[r[1]] = "NONE" => status[r] = "NONE" /\ prev[r] = NoRental
    /\ checkout[r[1]] = "OPEN" => status[r] \in {"NONE", "DRAFT"}
    /\ ~Paid(r) => place[r] = r[2]

(* A renewal is of a rental of the same brand whose last days had begun,   *)
(* is bought for its slot, and is in force only when the other is over.    *)
RenewsLapsing ==
  \A n \in Rentals : prev[n] # NoRental =>
    /\ status[n] # "NONE" /\ status[prev[n]] \in Lapsing
    /\ BrandOfRental(n) = BrandOfRental(prev[n])
    /\ n[2] = place[prev[n]]
    /\ status[n] \in Begun => status[prev[n]] \in Over

(* What was true of a rental when it was declined, or read, and can not    *)
(* have become false since.                                                *)
ReadRemainsTrue ==
  /\ \A r \in declined : status[r] \in Begun
  /\ \A q \in requests :
       /\ status[q.rental] \in Begun
       /\ q.op = "renew" => status[q.rental] \in Lapsing
       /\ q.op = "liquidate" => status[q.rental] \in Lapsed
       /\ q.op = "close" => status[q.rental] \in Over

(* What the job is about to bring into grace is still due, and not declined. *)
EndingIsDue == \A r \in ending : IsDue(r)

(* The rows a webhook has locked stay as they were.                        *)
LockedIsHeld ==
  \A w \in settling :
    /\ checkout[w.payment[1]] = "OPEN" /\ pay[w.payment] \in Settleable
    /\ \A n \in w.renews :
         /\ n[1] = w.payment[1] /\ status[n] = "DRAFT" /\ prev[n] # NoRental
         /\ status[prev[n]] \in Lapsed
    /\ \A v \in settling : v.payment[1] = w.payment[1] => v = w

IndexesHold == IndexesAllow(status, place, prev)

(* The brand whose bottle is in a slot has a rental there, in force or to   *)
(* be so when the one it renews ends.                                      *)
Stocked(m) == Stockable(m) /\ ~CanStart(m)
Owner(s, m) == m \in RentalsAt(s) /\ Stocked(m) /\ BrandOfRental(m) = bottle[s]

StockIsOwned == \A s \in Slots : bottle[s] \in Brands => \E m \in Rentals : Owner(s, m)

(* Whose renewal has moved to another slot is not the only owner: nothing  *)
(* was in the slot, and a rental that is to end takes no bottle.           *)
SwappedLeavesEmpty ==
  \A n \in Rentals :
    prev[n] # NoRental /\ place[n] # n[2] /\ bottle[n[2]] \in Brands =>
      \E m \in Rentals \ {prev[n]} : Owner(n[2], m)

RentalsInv ==
  /\ TypeOK
  /\ HoldsAreDrafts
  /\ RenewsLapsing
  /\ ReadRemainsTrue
  /\ EndingIsDue
  /\ LockedIsHeld
  /\ IndexesHold
  /\ StockIsOwned
  /\ SwappedLeavesEmpty
  /\ HoldsArePaidFor
  /\ RenewalIsKept

-----------------------------------------------------------------------------
(* What the constants give.                                                *)

LEMMA ConstantFacts ==
  /\ NoRental \notin Rentals
  /\ Nobody \notin Brands /\ Platform \notin Brands /\ "EMPTY" \notin Brands
  /\ \A r \in Rentals : BrandOfRental(r) \in Brands /\ r[1] \in Checkouts /\ r[2] \in Slots
                        /\ r = <<r[1], r[2]>> /\ r \notin Checkouts
  /\ \A p \in Payments : p[1] \in Checkouts
  BY RentalAssumptions DEF NoRental, Rentals, Brands, BrandOfRental

(* There is nothing at the start.                                          *)
LEMMA InitRentalsInv == Init => RentalsInv
  <1> SUFFICES ASSUME Init PROVE RentalsInv
    OBVIOUS
  <1> USE ConstantFacts DEF Init
  <1>1. TypeOK
    BY DEF TypeOK, RentalStatuses, PaymentStatuses, Rentals
  <1>2. HoldsAreDrafts /\ RenewsLapsing /\ ReadRemainsTrue /\ EndingIsDue /\ LockedIsHeld
    BY DEF HoldsAreDrafts, RenewsLapsing, ReadRemainsTrue, EndingIsDue, LockedIsHeld, Paid
  <1>3. IndexesHold /\ StockIsOwned /\ SwappedLeavesEmpty
    BY DEF IndexesHold, IndexesAllow, BLOCKING_STATUSES, Occupying, StockIsOwned,
       SwappedLeavesEmpty
  <1>4. PaidOnce
    <2>1. \A c \in Checkouts : {p \in Payments : p[1] = c /\ pay[p] = "SUCCEEDED"} = {}
      OBVIOUS
    <2> QED
      BY <2>1 DEF PaidOnce
  <1>5. NoPaymentOutlives /\ InForceIsPaid /\ RenewalIsKept
    BY DEF NoPaymentOutlives, InForceIsPaid, RenewalIsKept, DeclinedNoGrace,
       RenewedTookEffect, Occupying
  <1> QED
    BY <1>1, <1>2, <1>3, <1>4, <1>5 DEF RentalsInv, HoldsArePaidFor

-----------------------------------------------------------------------------
(* One step, by what it does to the rows.                                  *)

(* A request that is made stays true of its rental while that moves only   *)
(* forward.                                                                *)
GoesOn(r) ==
  /\ status[r] \in Begun => status'[r] \in Begun
  /\ status[r] \in Lapsing => status'[r] \in Lapsing
  /\ status[r] \in Lapsed => status'[r] \in Lapsed
  /\ status[r] \in Over => status'[r] \in Over

(* Reading, deadlines and sessions leave the rows of the invariant alone.  *)
LEMMA QuietKeepsInv ==
  ASSUME RentalsInv, TypeOK', ReadRemainsTrue', EndingIsDue', settling' \subseteq settling,
         UNCHANGED <<status, place, prev, declined, checkout, pay, bottle>>
  PROVE  RentalsInv'
  <1> USE DEF RentalsInv
  <1>1. HoldsAreDrafts' /\ RenewsLapsing' /\ LockedIsHeld' /\ IndexesHold'
    BY DEF HoldsAreDrafts, RenewsLapsing, LockedIsHeld, IndexesHold, IndexesAllow, MayFollow,
       Paid, BrandOfRental
  <1>2. StockIsOwned' /\ SwappedLeavesEmpty'
    BY DEF StockIsOwned, SwappedLeavesEmpty, Owner, RentalsAt, Stocked, CanStart, Stockable, Paid, BrandOfRental
  <1>3. HoldsArePaidFor' /\ RenewalIsKept'
    BY DEF HoldsArePaidFor, PaidOnce, NoPaymentOutlives, InForceIsPaid, RenewalIsKept,
       DeclinedNoGrace, RenewedTookEffect, Paid
  <1> QED
    BY <1>1, <1>2, <1>3

(* The bottles of a slot stay, or go, and those who own one still do.      *)
LEMMA OwnersRemain ==
  ASSUME RentalsInv, UNCHANGED <<place, prev>>,
         \A s \in Slots : bottle'[s] \in Brands =>
           /\ bottle'[s] = bottle[s]
           /\ \A m \in Rentals : Owner(s, m) => Owner(s, m)'
  PROVE  StockIsOwned' /\ SwappedLeavesEmpty'
  BY ConstantFacts DEF RentalsInv, StockIsOwned, SwappedLeavesEmpty

(* Two rentals that may block a slot still may while they only end.        *)
LEMMA IndexesRemain ==
  ASSUME RentalsInv, UNCHANGED <<place, prev>>,
         \A q \in Rentals :
           /\ GoesOn(q)
           /\ status'[q] \in BLOCKING_STATUSES => status[q] \in BLOCKING_STATUSES
           /\ status'[q] \in Occupying => status[q] \in Occupying
           /\ status[q] = "LIQUIDATED" /\ status'[q] \in BLOCKING_STATUSES =>
                status'[q] = "LIQUIDATED"
  PROVE  IndexesHold'
  <1> SUFFICES ASSUME NEW r \in Rentals, NEW q \in Rentals, r # q, place[r] = place[q],
                      status'[r] \in BLOCKING_STATUSES, status'[q] \in BLOCKING_STATUSES
               PROVE  /\ ~(status'[r] \in Occupying /\ status'[q] \in Occupying)
                      /\ MayFollow(status', prev, r, q)
    BY DEF IndexesHold, IndexesAllow
  <1>1. /\ ~(status[r] \in Occupying /\ status[q] \in Occupying)
        /\ MayFollow(status, prev, r, q)
    BY DEF RentalsInv, IndexesHold, IndexesAllow
  <1>2. ASSUME prev[r] \in Rentals, status[prev[r]] \notin {"ACTIVE", "EXPIRING"}
        PROVE  status'[prev[r]] \notin {"ACTIVE", "EXPIRING"}
    <2>1. status[prev[r]] \in Lapsed
      BY <1>2, ConstantFacts DEF RentalsInv, RenewsLapsing, Lapsed, Lapsing, Over, Begun, Occupying
    <2> QED
      BY <1>2, <2>1 DEF GoesOn, Lapsed, Over
  <1> QED
    BY <1>1, <1>2 DEF MayFollow

(* A rental in force moves on: to its last days, its grace, its end.       *)
LEMMA MovesOnKeepsInv ==
  ASSUME RentalsInv, NEW r \in Rentals, NEW to \in Lapsing,
         status[r] \in Begun, status[r] \in Lapsed => to \in Lapsed,
         status[r] \in Over => to \in Over,
         to # "RENEWED", to = "GRACE" => r \notin declined,
         status' = [status EXCEPT ![r] = to],
         IndexesHold',
         \A s \in Slots : bottle'[s] \in Brands =>
           /\ bottle'[s] = bottle[s]
           /\ place[r] = s /\ Stockable(r) => to \in {"EXPIRING", "GRACE"},
         UNCHANGED <<place, prev, declined, checkout, pay, settling>>,
         requests' \subseteq requests,
         TypeOK', EndingIsDue'
  PROVE  RentalsInv'
  <1> USE DEF RentalsInv
  <1>1. \A q \in Rentals : GoesOn(q) /\ (status'[q] # status[q] => q = r)
    BY DEF TypeOK, GoesOn, Lapsing, Lapsed, Begun, Over
  <1>2. status'[r] = to /\ to # "NONE"
    BY DEF TypeOK, Lapsing, Begun, Occupying
  <1>3. Paid(r)
    BY DEF HoldsArePaidFor, InForceIsPaid, Begun
  <1>4. HoldsAreDrafts'
    BY <1>1, <1>3, ConstantFacts DEF HoldsAreDrafts, Paid
  <1>5. RenewsLapsing'
    BY <1>1, <1>2, ConstantFacts DEF RenewsLapsing, GoesOn, BrandOfRental, TypeOK
  <1>6. ReadRemainsTrue'
    BY <1>1 DEF ReadRemainsTrue, GoesOn, TypeOK, Requests
  <1>7. LockedIsHeld'
    BY <1>1 DEF LockedIsHeld, GoesOn, Begun, Occupying, TypeOK, Settling
  <1>8. StockIsOwned' /\ SwappedLeavesEmpty'
    <2>1. \A m \in Rentals : Stockable(m) => Stockable(m)' \/ (m = r /\ to \notin {"EXPIRING", "GRACE"})
      BY <1>1, <1>2 DEF Stockable, Paid
    <2>2. ASSUME NEW s \in Slots, bottle'[s] \in Brands, NEW m \in Rentals, Owner(s, m)
          PROVE  Owner(s, m)'
      BY <1>1, <1>2, <2>1, <2>2 DEF Owner, RentalsAt, Stocked, CanStart, Paid, BrandOfRental,
         Lapsing, Begun, Occupying
    <2> QED
      BY <2>2, OwnersRemain
  <1>9. PaidOnce' /\ NoPaymentOutlives'
    BY DEF HoldsArePaidFor, PaidOnce, NoPaymentOutlives
  <1>10. InForceIsPaid'
    BY <1>1, <1>2, <1>3 DEF HoldsArePaidFor, InForceIsPaid, Paid, Lapsing, Begun, Occupying
  <1>11. RenewalIsKept'
    BY <1>1, <1>2 DEF RenewalIsKept, DeclinedNoGrace, RenewedTookEffect, Lapsing, Begun,
       Occupying
  <1> QED
    BY <1>4, <1>5, <1>6, <1>7, <1>8, <1>9, <1>10, <1>11 DEF HoldsArePaidFor

(* A rental that was paid begins.                                          *)
LEMMA StartKeepsInv ==
  ASSUME RentalsInv, NEW r \in Rentals, CanStart(r),
         status' = [status EXCEPT ![r] = "ACTIVE"],
         UNCHANGED <<place, prev, declined, returned, overdue, checkout, pay, flightVars>>,
         TypeOK'
  PROVE  /\ HoldsAreDrafts' /\ RenewsLapsing' /\ ReadRemainsTrue' /\ EndingIsDue' /\ LockedIsHeld'
         /\ HoldsArePaidFor' /\ RenewalIsKept'
         /\ \A s \in Slots, m \in Rentals :
              m \in RentalsAt(s) /\ Stocked(m) => (m \in RentalsAt(s))' /\ Stocked(m)'
  <1> USE DEF RentalsInv
  <1>1. /\ \A q \in Rentals : GoesOn(q) /\ (status'[q] # status[q] => q = r)
        /\ status'[r] = "ACTIVE" /\ status[r] = "DRAFT" /\ Paid(r) /\ prev[r] = NoRental
    BY DEF TypeOK, GoesOn, Lapsing, Lapsed, Begun, Over, Occupying, CanStart
  <1>2. HoldsAreDrafts'
    BY <1>1, ConstantFacts DEF HoldsAreDrafts, Paid
  <1>3. RenewsLapsing'
    BY <1>1, ConstantFacts DEF RenewsLapsing, GoesOn, BrandOfRental, TypeOK
  <1>4. ReadRemainsTrue'
    BY <1>1 DEF ReadRemainsTrue, GoesOn, TypeOK, Requests
  <1>5. LockedIsHeld'
    BY <1>1 DEF LockedIsHeld, GoesOn, TypeOK, Settling, Paid
  <1>6. EndingIsDue'
    BY <1>1 DEF EndingIsDue, IsDue, TypeOK
  <1>7. HoldsArePaidFor'
    BY <1>1 DEF HoldsArePaidFor, PaidOnce, NoPaymentOutlives, InForceIsPaid, Paid
  <1>8. RenewalIsKept'
    BY <1>1 DEF RenewalIsKept, DeclinedNoGrace, RenewedTookEffect
  <1>9. \A s \in Slots, m \in Rentals :
          m \in RentalsAt(s) /\ Stocked(m) => (m \in RentalsAt(s))' /\ Stocked(m)'
    BY <1>1 DEF RentalsAt, Stocked, CanStart, Stockable, Paid
  <1> QED
    BY <1>2, <1>3, <1>4, <1>5, <1>6, <1>7, <1>8, <1>9

(* Renewals that are paid take the place of what they renew.               *)
LEMMA TakeOverKeeps ==
  ASSUME RentalsInv, NEW new \in SUBSET Rentals,
         \A n \in new : prev[n] # NoRental /\ status[n] = "DRAFT",
         status' = TakeOver(new),
         \A n \in new : Paid(n)',
         \A q \in Rentals : Paid(q) => Paid(q)',
         UNCHANGED <<place, prev, declined, requests>>
  PROVE  /\ RenewsLapsing' /\ ReadRemainsTrue' /\ RenewalIsKept'
         /\ \A q \in Rentals :
              /\ GoesOn(q)
              /\ q \in new => status'[q] = "ACTIVE"
              /\ (\E n \in new : prev[n] = q) => status'[q] = "RENEWED" /\ status[q] \in Lapsing
              /\ q \in new \/ (\E n \in new : prev[n] = q) \/ status'[q] = status[q]
  <1> USE DEF RentalsInv
  <1>1. \A n \in new : prev[n] \in Rentals /\ status[prev[n]] \in Lapsing
    BY DEF RenewsLapsing, TypeOK
  <1>2. \A q \in Rentals :
          /\ q \in new => status'[q] = "ACTIVE" /\ status[q] = "DRAFT"
          /\ (\E n \in new : prev[n] = q) => status'[q] = "RENEWED" /\ status[q] \in Lapsing
          /\ q \in new \/ (\E n \in new : prev[n] = q) \/ status'[q] = status[q]
    BY <1>1 DEF TakeOver, Lapsing, Begun, Occupying
  <1>3. \A q \in Rentals : GoesOn(q)
    BY <1>2 DEF GoesOn, Lapsing, Lapsed, Begun, Over, Occupying
  <1>4. RenewsLapsing'
    <2> SUFFICES ASSUME NEW n \in Rentals, prev[n] # NoRental
                 PROVE  /\ status'[n] # "NONE" /\ status'[prev[n]] \in Lapsing
                        /\ BrandOfRental(n) = BrandOfRental(prev[n])
                        /\ n[2] = place[prev[n]]
                        /\ status'[n] \in Begun => status'[prev[n]] \in Over
      BY DEF RenewsLapsing, BrandOfRental
    <2>1. prev[n] \in Rentals
      BY DEF TypeOK
    <2>2. CASE n \in new
      BY <1>2, <1>3, <2>1, <2>2 DEF RenewsLapsing, GoesOn, Over
    <2>3. CASE \E m \in new : prev[m] = n
      BY <1>2, <1>3, <2>1, <2>3 DEF RenewsLapsing, GoesOn, Lapsing
    <2>4. CASE status'[n] = status[n]
      BY <1>3, <2>1, <2>4 DEF RenewsLapsing, GoesOn
    <2> QED
      BY <1>2, <2>2, <2>3, <2>4
  <1>5. ReadRemainsTrue'
    BY <1>3 DEF ReadRemainsTrue, GoesOn, TypeOK, Requests
  <1>6. RenewalIsKept'
    <2>1. DeclinedNoGrace'
      BY <1>2 DEF RenewalIsKept, DeclinedNoGrace, TypeOK
    <2>2. ASSUME NEW r \in Rentals, status'[r] = "RENEWED"
          PROVE  \E n \in Rentals : prev[n] = r /\ status'[n] \notin {"NONE", "DRAFT", "CANCELLED"}
      <3>1. CASE \E n \in new : prev[n] = r
        BY <1>2, <3>1
      <3>2. CASE status[r] = "RENEWED"
        <4>1. PICK n \in Rentals : prev[n] = r /\ status[n] \notin {"NONE", "DRAFT", "CANCELLED"}
          BY <3>2 DEF RenewalIsKept, RenewedTookEffect
        <4>2. status[n] \in Begun
          BY <4>1 DEF TypeOK, RentalStatuses, Begun, Occupying
        <4>3. status'[n] \in Begun
          BY <1>3, <4>2 DEF GoesOn
        <4> QED
          BY <4>1, <4>3 DEF Begun, Occupying
      <3> QED
        BY <1>2, <2>2, <3>1, <3>2
    <2> QED
      BY <2>1, <2>2 DEF RenewalIsKept, RenewedTookEffect
  <1> QED
    BY <1>2, <1>3, <1>4, <1>5, <1>6

(* The bottle of a rental that gave way is its renewal's; one that was     *)
(* swapped to another slot had left nothing of it.                         *)
LEMMA TakeOverKeepsOwners ==
  ASSUME RentalsInv, NEW new \in SUBSET Rentals,
         \A n \in new : prev[n] # NoRental /\ status[n] = "DRAFT",
         \A n \in new : place[n] = n[2] \/ status[prev[n]] \in {"ACTIVE", "EXPIRING"},
         status' = TakeOver(new),
         \A n \in new : Paid(n)',
         \A q \in Rentals : Paid(q) => Paid(q)',
         UNCHANGED <<place, prev, declined, requests, bottle>>
  PROVE  StockIsOwned' /\ SwappedLeavesEmpty'
  <1> USE DEF RentalsInv
  <1>1. \A n \in Rentals : prev[n] # NoRental => prev[n] \in Rentals /\ status[prev[n]] \in Lapsing
    BY DEF RenewsLapsing, TypeOK
  <1>2. \A q \in Rentals :
          /\ q \in new => status'[q] = "ACTIVE"
          /\ q \in new \/ (\E n \in new : prev[n] = q) \/ status'[q] = status[q]
    BY TakeOverKeeps
  <1>3. ASSUME NEW s \in Slots, NEW m \in Rentals, Owner(s, m), ~\E n \in new : prev[n] = m
        PROVE  Owner(s, m)'
    BY <1>2, <1>3 DEF Owner, RentalsAt, Stocked, CanStart, Stockable, BrandOfRental
  <1>4. ASSUME NEW n \in new, place[n] = n[2], NEW s \in Slots, Owner(s, prev[n])
        PROVE  Owner(s, n)'
    BY <1>1, <1>2, <1>4 DEF Owner, RentalsAt, Stocked, CanStart, Stockable, BrandOfRental, RenewsLapsing
  <1>5. ASSUME NEW s \in Slots, bottle[s] \in Brands, NEW m \in Rentals, Owner(s, m),
               NEW p, p # m, p \in Rentals => status[p] \in Lapsing /\ place[p] = s
        PROVE  \E x \in Rentals \ {p} : Owner(s, x)'
    <2>1. CASE ~\E n \in new : prev[n] = m
      BY <1>3, <1>5, <2>1
    <2>2. CASE \E n \in new : prev[n] = m
      <3>1. PICK n \in new : prev[n] = m
        BY <2>2
      <3>2. CASE place[n] = n[2]
        <4>1. Owner(s, n)'
          BY <1>4, <1>5, <3>1, <3>2
        <4>2. n # p
          BY <1>5, <3>1 DEF Lapsing, Begun, Occupying
        <4> QED
          BY <4>1, <4>2
      <3>3. CASE place[n] # n[2]
        <4>1. n[2] = s /\ n \in Rentals
          BY <1>1, <1>5, <3>1 DEF RenewsLapsing, Owner, RentalsAt
        <4>2. PICK x \in Rentals \ {m} : Owner(s, x)
          BY <1>5, <3>1, <3>3, <4>1 DEF SwappedLeavesEmpty
        <4>3. /\ place[x] = s /\ place[m] = s /\ status[m] \in {"ACTIVE", "EXPIRING"}
              /\ Stockable(x)
          BY <1>5, <3>1, <3>3, <4>2 DEF Owner, RentalsAt, Stocked
        <4>4. status[x] = "DRAFT"
          BY <4>2, <4>3 DEF IndexesHold, IndexesAllow, Occupying, BLOCKING_STATUSES, Stocked, Stockable
        <4>5. x # p /\ ~\E k \in new : prev[k] = x
          BY <1>1, <1>5, <4>4 DEF Lapsing, Begun, Occupying
        <4> QED
          BY <1>3, <4>2, <4>5
      <3> QED
        BY <3>2, <3>3
    <2> QED
      BY <2>1, <2>2
  <1>6. StockIsOwned'
    <2> SUFFICES ASSUME NEW s \in Slots, bottle[s] \in Brands
                 PROVE  \E m \in Rentals : Owner(s, m)'
      BY DEF StockIsOwned
    <2>1. PICK m \in Rentals : Owner(s, m)
      BY DEF StockIsOwned
    <2>2. NoRental \notin Rentals /\ NoRental # m
      BY ConstantFacts
    <2> QED
      BY <1>5, <2>1, <2>2
  <1>7. SwappedLeavesEmpty'
    <2> SUFFICES ASSUME NEW n \in Rentals, prev[n] # NoRental, place[n] # n[2],
                        bottle[n[2]] \in Brands
                 PROVE  \E m \in Rentals \ {prev[n]} : Owner(n[2], m)'
      BY DEF SwappedLeavesEmpty
    <2>1. PICK m \in Rentals \ {prev[n]} : Owner(n[2], m)
      BY DEF SwappedLeavesEmpty
    <2>2. status[prev[n]] \in Lapsing /\ place[prev[n]] = n[2] /\ n[2] \in Slots
      BY ConstantFacts DEF RenewsLapsing
    <2> QED
      BY <1>5, <2>1, <2>2
  <1> QED
    BY <1>6, <1>7

-----------------------------------------------------------------------------
(* Buying keeps the invariant.                                             *)

(* A checkout is paid once while no payment comes to succeed.              *)
LEMMA NoneSucceeds ==
  ASSUME PaidOnce,
         \A c \in Checkouts : checkout'[c] = "PAID" <=> checkout[c] = "PAID",
         \A p \in Payments : pay'[p] = "SUCCEEDED" <=> pay[p] = "SUCCEEDED"
  PROVE  PaidOnce'
  <1>1. \A c \in Checkouts :
          {p \in Payments : p[1] = c /\ pay'[p] = "SUCCEEDED"}
          = {p \in Payments : p[1] = c /\ pay[p] = "SUCCEEDED"}
    OBVIOUS
  <1> QED
    BY <1>1 DEF PaidOnce

LEMMA CreateCheckoutKeepsInv ==
  ASSUME RentalsInv, NEW c \in Checkouts, NEW cart \in Carts[c], CreateCheckout(c, cart)
  PROVE  RentalsInv'
  <1> USE ConstantFacts DEF RentalsInv, CreateCheckout
  <1>1. /\ \A r \in Rentals : r[1] = c =>
             /\ status[r] = "NONE" /\ prev[r] = NoRental /\ place[r] = r[2]
             /\ status'[r] \in {"NONE", "DRAFT"}
             /\ status'[r] = "DRAFT" => BlockingAt(place[r]) = {}
        /\ \A r \in Rentals : r[1] # c => status'[r] = status[r] /\ checkout'[r[1]] = checkout[r[1]]
        /\ checkout'[c] = "OPEN"
    BY DEF HoldsAreDrafts, Paid, TypeOK
  <1>2. \A r \in Rentals : GoesOn(r)
    BY <1>1 DEF GoesOn, Begun, Lapsing, Lapsed, Over, Occupying
  <1>3. TypeOK'
    BY <1>1 DEF TypeOK, RentalStatuses
  <1>4. HoldsAreDrafts'
    BY <1>1 DEF HoldsAreDrafts, Paid
  <1>5. RenewsLapsing'
    BY <1>1, <1>2 DEF RenewsLapsing, GoesOn, BrandOfRental, TypeOK
  <1>6. ReadRemainsTrue'
    BY <1>2 DEF ReadRemainsTrue, GoesOn, TypeOK, Requests
  <1>7. LockedIsHeld'
    BY <1>1, <1>2 DEF LockedIsHeld, GoesOn, TypeOK, Settling
  <1>8. IndexesHold'
    <2> SUFFICES ASSUME NEW r \in Rentals, NEW q \in Rentals, r # q, place[r] = place[q],
                        {status'[r], status'[q]} \subseteq BLOCKING_STATUSES
                 PROVE  ~({status'[r], status'[q]} \subseteq Occupying) /\ MayFollow(status', prev, r, q)
      BY DEF IndexesHold, IndexesAllow
    <2>1. r[1] # c
      BY <1>1 DEF BlockingAt, BLOCKING_STATUSES, Occupying
    <2>2. q[1] # c
      BY <1>1 DEF BlockingAt, BLOCKING_STATUSES, Occupying
    <2>3. ~({status[r], status[q]} \subseteq Occupying) /\ MayFollow(status, prev, r, q)
      BY <1>1, <2>1, <2>2 DEF IndexesHold, IndexesAllow
    <2>4. prev[r] \in Rentals => status'[prev[r]] = status[prev[r]]
      BY <1>1 DEF RenewsLapsing, Lapsing, Begun, Occupying
    <2> QED
      BY <1>1, <2>1, <2>2, <2>3, <2>4 DEF MayFollow
  <1>9. StockIsOwned' /\ SwappedLeavesEmpty'
    <2>1. \A s \in Slots, m \in Rentals : Owner(s, m) => Owner(s, m)'
      BY <1>1 DEF Owner, RentalsAt, Stocked, CanStart, Stockable, Paid, BrandOfRental
    <2> QED
      BY <2>1, OwnersRemain
  <1>10. HoldsArePaidFor'
    <2>1. PaidOnce' /\ NoPaymentOutlives'
      <3>1. \A k \in Checkouts : checkout'[k] = "PAID" <=> checkout[k] = "PAID"
        BY DEF TypeOK
      <3> QED
        BY <1>1, <3>1, NoneSucceeds DEF HoldsArePaidFor, NoPaymentOutlives, TypeOK
    <2>2. InForceIsPaid'
      BY <1>1 DEF HoldsArePaidFor, InForceIsPaid, Paid, Occupying
    <2> QED
      BY <2>1, <2>2 DEF HoldsArePaidFor
  <1>11. RenewalIsKept'
    BY <1>1 DEF RenewalIsKept, DeclinedNoGrace, RenewedTookEffect, TypeOK
  <1>12. EndingIsDue'
    BY <1>1 DEF EndingIsDue, IsDue, TypeOK
  <1> QED
    BY <1>3, <1>4, <1>5, <1>6, <1>7, <1>8, <1>9, <1>10, <1>11, <1>12

LEMMA RenewKeepsInv ==
  ASSUME RentalsInv, NEW r \in Rentals, NEW c \in Checkouts, Renew(r, c)
  PROVE  RentalsInv'
  <1> DEFINE n == <<c, place[r]>>
             req == [op |-> "renew", rental |-> r]
  <1> USE ConstantFacts DEF RentalsInv
  <1>1. /\ req \in requests /\ requests' \subseteq requests
        /\ checkout[c] = "NONE" /\ BrandOf[c] = BrandOfRental(r)
        /\ UNCHANGED <<place, declined, returned, overdue, pay, slotVars, settling, ending>>
    BY DEF Renew, Answer
  <1>2. status[r] \in Lapsing
    BY <1>1 DEF ReadRemainsTrue
  <1>4. CASE UNCHANGED <<checkout, status, prev>>
    <2>1. TypeOK' /\ ReadRemainsTrue' /\ EndingIsDue'
      BY <1>1, <1>4 DEF TypeOK, ReadRemainsTrue, EndingIsDue, IsDue
    <2> QED
      BY <1>1, <1>4, <2>1, QuietKeepsInv
  <1>5. CASE /\ checkout' = [checkout EXCEPT ![c] = "OPEN"]
             /\ status' = [status EXCEPT ![n] = "DRAFT"]
             /\ prev' = [prev EXCEPT ![n] = r]
             /\ IndexesAllow(status', place, prev')
    <2>1. /\ n \in Rentals /\ n[1] = c /\ n[2] = place[r] /\ n # r
          /\ status[n] = "NONE" /\ prev[n] = NoRental /\ place[n] = n[2]
      BY <1>1, <1>2 DEF HoldsAreDrafts, Paid, TypeOK, Rentals, Lapsing, Begun, Occupying
    <2>2. /\ \A q \in Rentals : q # n => status'[q] = status[q] /\ prev'[q] = prev[q]
          /\ \A q \in Rentals : q[1] # c => checkout'[q[1]] = checkout[q[1]] /\ q # n
          /\ \A q \in Rentals : q[1] = c => status[q] = "NONE"
          /\ status'[n] = "DRAFT" /\ prev'[n] = r /\ checkout'[c] = "OPEN"
      BY <1>1, <1>5, <2>1 DEF HoldsAreDrafts, TypeOK
    <2>3. \A q \in Rentals : GoesOn(q)
      BY <2>1, <2>2 DEF GoesOn, Begun, Lapsing, Lapsed, Over, Occupying
    <2>4. TypeOK'
      BY <1>1, <1>5, <2>1, <2>2 DEF TypeOK, RentalStatuses
    <2>5. HoldsAreDrafts'
      BY <1>1, <2>1, <2>2 DEF HoldsAreDrafts, Paid
    <2>6. RenewsLapsing'
      <3>1. \A q \in Rentals : prev[q] # n
        BY <2>1 DEF RenewsLapsing, Lapsing, Begun, Occupying
      <3>2. BrandOfRental(n) = BrandOfRental(r)
        BY <1>1, <2>1 DEF BrandOfRental
      <3>3. /\ status'[r] \in Lapsing /\ status'[n] \notin Begun /\ place'[r] = place[r]
        BY <1>1, <1>2, <2>1, <2>2 DEF Begun, Occupying
      <3>4. ASSUME NEW q \in Rentals, q # n, prev[q] # NoRental
            PROVE  /\ status'[q] # "NONE" /\ status'[prev[q]] \in Lapsing
                   /\ BrandOfRental(q) = BrandOfRental(prev[q])
                   /\ q[2] = place'[prev[q]]
                   /\ status'[q] \in Begun => status'[prev[q]] \in Over
        BY <1>1, <2>2, <3>1, <3>4 DEF RenewsLapsing, TypeOK
      <3> QED
        BY <2>1, <2>2, <3>2, <3>3, <3>4 DEF RenewsLapsing, BrandOfRental
    <2>7. ReadRemainsTrue'
      BY <1>1, <2>3 DEF ReadRemainsTrue, GoesOn, TypeOK, Requests
    <2>8. LockedIsHeld'
      BY <1>1, <1>5, <2>1, <2>2, <2>3 DEF LockedIsHeld, GoesOn, TypeOK, Settling
    <2>9. IndexesHold'
      BY <1>1, <1>5 DEF IndexesHold
    <2>10. \A s \in Slots, m \in Rentals : Owner(s, m) => Owner(s, m)'
      BY <1>1, <2>1, <2>2 DEF Owner, RentalsAt, Stocked, CanStart, Stockable, Paid, BrandOfRental
    <2>11. StockIsOwned'
      BY <1>1, <2>10 DEF StockIsOwned
    <2>12. SwappedLeavesEmpty'
      BY <1>1, <2>1, <2>2, <2>10 DEF SwappedLeavesEmpty
    <2>13. PaidOnce' /\ NoPaymentOutlives'
      <3>1. \A k \in Checkouts : checkout'[k] = "PAID" <=> checkout[k] = "PAID"
        BY <1>1, <1>5 DEF TypeOK
      <3> QED
        BY <1>1, <1>5, <3>1, NoneSucceeds DEF HoldsArePaidFor, NoPaymentOutlives, TypeOK
    <2>14. InForceIsPaid'
      BY <1>1, <2>1, <2>2 DEF HoldsArePaidFor, InForceIsPaid, Paid, Occupying
    <2>15. RenewalIsKept'
      <3>1. DeclinedNoGrace'
        <4>1. \A q \in Rentals : status'[q] = "GRACE" => status[q] = "GRACE"
          BY <2>2
        <4> QED
          BY <1>1, <4>1 DEF RenewalIsKept, DeclinedNoGrace, TypeOK
      <3>2. RenewedTookEffect'
        BY <2>1, <2>2 DEF RenewalIsKept, RenewedTookEffect
      <3> QED
        BY <3>1, <3>2 DEF RenewalIsKept
    <2>16. EndingIsDue'
      BY <1>1, <2>1, <2>2 DEF EndingIsDue, IsDue, TypeOK
    <2> QED
      BY <2>4, <2>5, <2>6, <2>7, <2>8, <2>9, <2>11, <2>12, <2>13, <2>14, <2>15, <2>16
         DEF HoldsArePaidFor
  <1> QED
    BY <1>1, <1>4, <1>5 DEF Renew

(* A payment is asked for, fails or is sent back, at a checkout whose rows *)
(* no webhook has locked.                                                  *)
LEMMA PaymentKeepsInv ==
  ASSUME RentalsInv, NEW p \in Payments, PayCheckout(p) \/ PaymentFails(p) \/ RefundPayment(p)
  PROVE  RentalsInv'
  <1> USE ConstantFacts DEF RentalsInv
  <1>1. /\ UNCHANGED <<rentalVars, overdue, checkout, slotVars, flightVars>>
        /\ pay[p] # "SUCCEEDED" /\ pay'[p] \in PaymentStatuses \ {"SUCCEEDED"}
        /\ \A q \in Payments : q # p => pay'[q] = pay[q]
        /\ pay' \in [Payments -> PaymentStatuses \cup {"NONE"}]
        /\ checkout[p[1]] = "CANCELLED" => pay'[p] # "PENDING"
        /\ \A w \in settling : w.payment # p
    BY DEF PayCheckout, PaymentFails, RefundPayment, TypeOK, PaymentStatuses, Settleable, Locked
  <1> USE <1>1
  <1>2. TypeOK'
    BY DEF TypeOK
  <1>3. HoldsAreDrafts' /\ RenewsLapsing' /\ ReadRemainsTrue' /\ EndingIsDue' /\ IndexesHold'
    BY DEF HoldsAreDrafts, RenewsLapsing, ReadRemainsTrue, EndingIsDue, IsDue, IndexesHold,
       IndexesAllow, MayFollow, Paid, BrandOfRental
  <1>4. LockedIsHeld'
    BY DEF LockedIsHeld, TypeOK, Settling
  <1>5. StockIsOwned' /\ SwappedLeavesEmpty'
    BY DEF StockIsOwned, SwappedLeavesEmpty, Owner, RentalsAt, Stocked, CanStart, Stockable, Paid, BrandOfRental
  <1>6. PaidOnce'
    BY NoneSucceeds DEF HoldsArePaidFor
  <1>7. NoPaymentOutlives' /\ InForceIsPaid' /\ RenewalIsKept'
    BY DEF HoldsArePaidFor, NoPaymentOutlives, InForceIsPaid, RenewalIsKept, DeclinedNoGrace,
       RenewedTookEffect, Paid
  <1> QED
    BY <1>2, <1>3, <1>4, <1>5, <1>6, <1>7 DEF HoldsArePaidFor

LEMMA CloseCheckoutKeepsInv ==
  ASSUME RentalsInv, NEW c \in Checkouts, CloseCheckout(c)
  PROVE  RentalsInv'
  <1> USE ConstantFacts DEF RentalsInv, CloseCheckout
  <1>1. /\ \A r \in Rentals : r[1] = c =>
             /\ status[r] \in {"NONE", "DRAFT"} /\ ~Stockable(r)
             /\ status'[r] = IF status[r] = "NONE" THEN "NONE" ELSE "CANCELLED"
        /\ \A r \in Rentals : r[1] # c => status'[r] = status[r] /\ checkout'[r[1]] = checkout[r[1]]
        /\ checkout'[c] = "CANCELLED"
        /\ \A p \in Payments : pay'[p] # pay[p] => p[1] = c /\ pay[p] = "PENDING" /\ pay'[p] = "EXPIRED"
        /\ \A w \in settling : w.payment[1] # c
    BY DEF HoldsAreDrafts, Stockable, Paid, TypeOK, RentalsOf, Locked
  <1>2. \A r \in Rentals : GoesOn(r)
    BY <1>1 DEF GoesOn, Begun, Lapsing, Lapsed, Over, Occupying
  <1>3. TypeOK'
    <2>1. status' \in [Rentals -> RentalStatuses \cup {"NONE"}]
      BY DEF TypeOK, RentalStatuses
    <2>2. pay' \in [Payments -> PaymentStatuses \cup {"NONE"}]
      BY DEF TypeOK, PaymentStatuses
    <2>3. checkout' \in [Checkouts -> {"NONE", "OPEN", "PAID", "CANCELLED"}]
      BY DEF TypeOK
    <2>4. overdue' \subseteq {k \in Checkouts : checkout'[k] = "OPEN"}
                             \cup {r \in Rentals : status'[r] \in {"ACTIVE", "EXPIRING", "GRACE"}}
      BY <1>1 DEF TypeOK
    <2> QED
      BY <2>1, <2>2, <2>3, <2>4 DEF TypeOK
  <1>4. HoldsAreDrafts'
    BY <1>1 DEF HoldsAreDrafts, Paid, TypeOK
  <1>5. RenewsLapsing'
    BY <1>1, <1>2 DEF RenewsLapsing, GoesOn, BrandOfRental, TypeOK, Begun, Occupying
  <1>6. ReadRemainsTrue'
    BY <1>2 DEF ReadRemainsTrue, GoesOn, TypeOK, Requests
  <1>7. LockedIsHeld'
    BY <1>1, <1>2 DEF LockedIsHeld, GoesOn, TypeOK, Settling
  <1>8. IndexesHold'
    BY <1>1, <1>2, IndexesRemain DEF BLOCKING_STATUSES, Occupying
  <1>9. StockIsOwned' /\ SwappedLeavesEmpty'
    <2>1. \A s \in Slots, m \in Rentals : Owner(s, m) => Owner(s, m)'
      BY <1>1 DEF Owner, RentalsAt, Stocked, CanStart, Stockable, Paid, BrandOfRental
    <2> QED
      BY <2>1, OwnersRemain
  <1>10. PaidOnce'
    <2>1. \A k \in Checkouts : checkout'[k] = "PAID" <=> checkout[k] = "PAID"
      BY DEF TypeOK
    <2> QED
      BY <1>1, <2>1, NoneSucceeds DEF HoldsArePaidFor
  <1>11. NoPaymentOutlives' /\ InForceIsPaid' /\ RenewalIsKept'
    <2>1. NoPaymentOutlives'
      BY <1>1 DEF HoldsArePaidFor, NoPaymentOutlives, TypeOK
    <2>2. InForceIsPaid'
      BY <1>1 DEF HoldsArePaidFor, InForceIsPaid, Paid, Occupying
    <2>3. RenewalIsKept'
      BY <1>1 DEF RenewalIsKept, DeclinedNoGrace, RenewedTookEffect, TypeOK
    <2> QED
      BY <2>1, <2>2, <2>3
  <1>12. EndingIsDue'
    BY <1>1 DEF EndingIsDue, IsDue, TypeOK
  <1> QED
    BY <1>3, <1>4, <1>5, <1>6, <1>7, <1>8, <1>9, <1>10, <1>11, <1>12 DEF HoldsArePaidFor

-----------------------------------------------------------------------------
(* The webhook and the jobs keep the invariant.                            *)

LEMMA BeginSettleKeepsInv ==
  ASSUME RentalsInv, NEW p \in Payments, BeginSettle(p)
  PROVE  RentalsInv'
  <1> DEFINE renews == {r \in RentalsOf(p[1]) : prev[r] # NoRental /\ status[prev[r]] = "GRACE"}
             new == [payment |-> p, renews |-> renews]
  <1> USE ConstantFacts DEF RentalsInv
  <1>1. /\ settling' = settling \cup {new} /\ ~Locked(p[1])
        /\ checkout[p[1]] = "OPEN" /\ pay[p] \in Settleable
        /\ UNCHANGED <<rentalVars, overdue, shopVars, slotVars, requests, ending>>
    BY DEF BeginSettle
  <1>2. /\ renews \subseteq Rentals
        /\ \A n \in renews :
             n[1] = p[1] /\ status[n] = "DRAFT" /\ prev[n] # NoRental /\ status[prev[n]] \in Lapsed
    BY <1>1 DEF RentalsOf, HoldsAreDrafts, Lapsed
  <1>3. TypeOK'
    <2>1. new \in Settling
      BY <1>2 DEF Settling
    <2> HIDE DEF new, renews
    <2> QED
      BY <1>1, <2>1 DEF TypeOK
  <1>4. LockedIsHeld'
    <2>1. \A v \in settling : v.payment[1] # p[1]
      BY <1>1 DEF Locked
    <2>2. new.payment = p /\ new.renews = renews
      OBVIOUS
    <2> HIDE DEF new
    <2> QED
      BY <1>1, <1>2, <2>1, <2>2 DEF LockedIsHeld
  <1>5. HoldsAreDrafts' /\ RenewsLapsing' /\ ReadRemainsTrue' /\ EndingIsDue' /\ IndexesHold'
    BY <1>1 DEF HoldsAreDrafts, RenewsLapsing, ReadRemainsTrue, EndingIsDue, IsDue, IndexesHold,
       IndexesAllow, MayFollow, Paid, BrandOfRental
  <1>6. StockIsOwned' /\ SwappedLeavesEmpty'
    BY <1>1 DEF StockIsOwned, SwappedLeavesEmpty, Owner, RentalsAt, Stocked, CanStart, Stockable, Paid, BrandOfRental
  <1>7. HoldsArePaidFor' /\ RenewalIsKept'
    BY <1>1 DEF HoldsArePaidFor, PaidOnce, NoPaymentOutlives, InForceIsPaid, RenewalIsKept,
       DeclinedNoGrace, RenewedTookEffect, Paid
  <1> QED
    BY <1>3, <1>4, <1>5, <1>6, <1>7

LEMMA CommitSettleKeepsInv ==
  ASSUME RentalsInv, NEW w \in settling, CommitSettle(w)
  PROVE  RentalsInv'
  <1> DEFINE p == w.payment
             c == p[1]
  <1> USE ConstantFacts DEF RentalsInv
  <1>1. /\ p \in Payments /\ c \in Checkouts /\ w.renews \in SUBSET Rentals
        /\ checkout[c] = "OPEN" /\ pay[p] \in Settleable
        /\ \A n \in w.renews :
             n[1] = c /\ status[n] = "DRAFT" /\ prev[n] # NoRental /\ status[prev[n]] \in Lapsed
        /\ \A v \in settling : v.payment[1] = c => v = w
    BY DEF LockedIsHeld, TypeOK, Settling
  <1>2. /\ settling' = settling \ {w}
        /\ UNCHANGED <<place, prev, declined, returned, slotVars, requests, ending>>
    BY DEF CommitSettle
  <1>3. CASE UNCHANGED <<pay, checkout, status, overdue>>
    <2>1. TypeOK' /\ ReadRemainsTrue' /\ EndingIsDue'
      BY <1>2, <1>3 DEF TypeOK, ReadRemainsTrue, EndingIsDue, IsDue
    <2> QED
      BY <1>2, <1>3, <2>1, QuietKeepsInv
  <1>4. CASE /\ IndexesAllow(status', place, prev)
             /\ pay' = [pay EXCEPT ![p] = "SUCCEEDED"]
             /\ checkout' = [checkout EXCEPT ![c] = "PAID"]
             /\ status' = TakeOver(w.renews)
             /\ overdue' = overdue \ ({c} \cup {prev[n] : n \in w.renews})
    <2> USE <1>1, <1>2, <1>4
    <2>1. /\ checkout'[c] = "PAID" /\ pay'[p] = "SUCCEEDED"
          /\ \A k \in Checkouts : k # c => checkout'[k] = checkout[k]
          /\ \A q \in Payments : q # p => pay'[q] = pay[q]
          /\ \A q \in Rentals : Paid(q) => Paid(q)'
          /\ \A q \in w.renews : Paid(q)' /\ place[q] = q[2]
          /\ \A q \in Rentals : q[1] = c => status[q] \in {"NONE", "DRAFT"} /\ ~Stockable(q)
      BY DEF TypeOK, Paid, HoldsAreDrafts, Stockable
    <2>2. /\ RenewsLapsing' /\ ReadRemainsTrue' /\ RenewalIsKept'
          /\ \A q \in Rentals :
               /\ GoesOn(q)
               /\ q \in w.renews => status'[q] = "ACTIVE"
               /\ (\E n \in w.renews : prev[n] = q) => status'[q] = "RENEWED" /\ status[q] \in Lapsing
               /\ q \in w.renews \/ (\E n \in w.renews : prev[n] = q) \/ status'[q] = status[q]
      BY <2>1, TakeOverKeeps
    <2>3. StockIsOwned' /\ SwappedLeavesEmpty'
      BY <2>1, TakeOverKeepsOwners
    <2>4. TypeOK'
      <3>1. status' \in [Rentals -> RentalStatuses \cup {"NONE"}]
        BY DEF TypeOK, TakeOver, RentalStatuses
      <3>2. overdue' \subseteq {k \in Checkouts : checkout'[k] = "OPEN"}
                               \cup {r \in Rentals : status'[r] \in {"ACTIVE", "EXPIRING", "GRACE"}}
        BY <2>1, <2>2 DEF TypeOK
      <3>3. pay' \in [Payments -> PaymentStatuses \cup {"NONE"}]
        BY DEF TypeOK, PaymentStatuses
      <3>4. checkout' \in [Checkouts -> {"NONE", "OPEN", "PAID", "CANCELLED"}]
        BY DEF TypeOK
      <3> QED
        BY <3>1, <3>2, <3>3, <3>4 DEF TypeOK
    <2>5. HoldsAreDrafts'
      BY <2>1, <2>2 DEF HoldsAreDrafts, Paid, Lapsing, Begun, Occupying
    <2>6. LockedIsHeld'
      <3> SUFFICES ASSUME NEW v \in settling, v # w, v.payment \in Payments, v.renews \subseteq Rentals
                   PROVE  /\ checkout'[v.payment[1]] = "OPEN" /\ pay'[v.payment] \in Settleable
                          /\ \A n \in v.renews :
                               /\ n[1] = v.payment[1] /\ status'[n] = "DRAFT" /\ prev[n] # NoRental
                               /\ status'[prev[n]] \in Lapsed
                          /\ \A u \in settling' : u.payment[1] = v.payment[1] => u = v
        BY DEF LockedIsHeld, TypeOK, Settling
      <3>1. v.payment[1] # c /\ v.payment[1] \in Checkouts /\ v.payment # p
        OBVIOUS
      <3>2. ASSUME NEW n \in v.renews
            PROVE  /\ n[1] = v.payment[1] /\ status'[n] = "DRAFT" /\ prev[n] # NoRental
                   /\ status'[prev[n]] \in Lapsed
        <4>1. /\ n \in Rentals /\ n[1] = v.payment[1] /\ status[n] = "DRAFT" /\ prev[n] # NoRental
              /\ status[prev[n]] \in Lapsed /\ prev[n] \in Rentals
          BY DEF LockedIsHeld, TypeOK
        <4>3. status'[prev[n]] \in Lapsed
          BY <2>2, <4>1 DEF GoesOn
        <4>2. n \notin w.renews /\ ~\E k \in w.renews : prev[k] = n
          BY <2>2, <3>1, <4>1 DEF Lapsing, Begun, Occupying
        <4> QED
          BY <2>2, <4>1, <4>2, <4>3
      <3> QED
        BY <2>1, <3>1, <3>2 DEF LockedIsHeld
    <2>7. PaidOnce'
      <3> DEFINE taken(k) == {q \in Payments : q[1] = k /\ pay[q] = "SUCCEEDED"}
                 taken2(k) == {q \in Payments : q[1] = k /\ pay'[q] = "SUCCEEDED"}
      <3>1. taken(c) = {}
        BY DEF HoldsArePaidFor, PaidOnce
      <3>2. taken2(c) = {p}
        BY <2>1, <3>1
      <3>3. Cardinality(taken2(c)) = 1
        BY <3>2, FS_Singleton
      <3>4. ASSUME NEW k \in Checkouts, k # c
            PROVE  taken2(k) = taken(k) /\ checkout'[k] = checkout[k]
        BY <2>1, <3>4
      <3>5. \A k \in Checkouts :
              IF checkout[k] = "PAID" THEN Cardinality(taken(k)) = 1 ELSE taken(k) = {}
        BY DEF HoldsArePaidFor, PaidOnce
      <3> HIDE DEF taken, taken2
      <3>6. \A k \in Checkouts :
              IF checkout'[k] = "PAID" THEN Cardinality(taken2(k)) = 1 ELSE taken2(k) = {}
        BY <2>1, <3>3, <3>4, <3>5
      <3> USE DEF taken2
      <3> QED
        BY <3>6 DEF PaidOnce
    <2>8. NoPaymentOutlives'
      BY <2>1 DEF HoldsArePaidFor, NoPaymentOutlives
    <2>9. InForceIsPaid'
      <3>1. \A q \in Rentals : status[q] \in Lapsing => Paid(q)
        BY DEF HoldsArePaidFor, InForceIsPaid, Lapsing, Begun
      <3>2. ASSUME NEW q \in Rentals
            PROVE  /\ status'[q] \in Occupying \cup {"RENEWED", "CLOSED"} => Paid(q)'
                   /\ status'[q] = "CANCELLED" <=> status'[q] # "NONE" /\ checkout'[q[1]] = "CANCELLED"
        <4>1. CASE q \in w.renews \/ \E n \in w.renews : prev[n] = q
          BY <2>1, <2>2, <3>1, <4>1 DEF Paid
        <4>2. CASE status'[q] = status[q] /\ q[1] = c
          BY <2>1, <4>2 DEF Paid, Occupying
        <4>3. CASE status'[q] = status[q] /\ q[1] # c
          BY <2>1, <4>3 DEF HoldsArePaidFor, InForceIsPaid, Paid
        <4> QED
          BY <2>2, <4>1, <4>2, <4>3
      <3> QED
        BY <3>2 DEF InForceIsPaid
    <2>10. EndingIsDue'
      <3> SUFFICES ASSUME NEW q \in ending PROVE IsDue(q)'
        BY DEF EndingIsDue
      <3>1. q \in Rentals /\ q \in overdue /\ status[q] \in {"ACTIVE", "EXPIRING"} /\ q \notin declined
        BY DEF EndingIsDue, IsDue, TypeOK
      <3>2. q # c /\ q \notin w.renews /\ ~\E n \in w.renews : prev[n] = q
        BY <3>1 DEF Lapsed, Over
      <3> QED
        BY <2>2, <3>1, <3>2 DEF IsDue
    <2> QED
      BY <2>2, <2>3, <2>4, <2>5, <2>6, <2>7, <2>8, <2>9, <2>10 DEF HoldsArePaidFor, IndexesHold
  <1> QED
    BY <1>3, <1>4 DEF CommitSettle

LEMMA HandOverKeepsInv ==
  ASSUME RentalsInv, NEW r \in Rentals, HandOver(r)
  PROVE  RentalsInv'
  <1> USE ConstantFacts DEF RentalsInv
  <1>1. PICK n \in PaidRenewals(r) : status' = TakeOver({n})
    BY DEF HandOver
  <1>2. /\ status[r] \in {"ACTIVE", "EXPIRING"} /\ overdue' = overdue \ {r}
        /\ UNCHANGED <<place, prev, declined, returned, shopVars, slotVars, flightVars>>
    BY DEF HandOver, IsDue
  <1>3. n \in Rentals /\ prev[n] = r /\ Paid(n) /\ prev[n] # NoRental
    BY <1>1 DEF PaidRenewals
  <1>4. status[n] = "DRAFT" /\ r \notin ending
    BY <1>1, <1>2, <1>3 DEF HandOver, PaidRenewals, RenewsLapsing, Over, Begun, Occupying
  <1> USE <1>2, <1>3, <1>4
  <1>5. \A q \in Rentals : Paid(q) => Paid(q)'
    BY DEF Paid
  <1>6. /\ RenewsLapsing' /\ ReadRemainsTrue' /\ RenewalIsKept'
        /\ status'[n] = "ACTIVE" /\ status'[r] = "RENEWED"
        /\ \A q \in Rentals : q # n /\ q # r => status'[q] = status[q]
    <2>1. RenewsLapsing' /\ ReadRemainsTrue' /\ RenewalIsKept'
      BY <1>1, <1>5, TakeOverKeeps
    <2> QED
      BY <1>1, <2>1 DEF TakeOver
  <1>7. StockIsOwned' /\ SwappedLeavesEmpty'
    BY <1>1, <1>5, TakeOverKeepsOwners
  <1>8. TypeOK'
    <2>1. status' \in [Rentals -> RentalStatuses \cup {"NONE"}]
      BY <1>1 DEF TypeOK, TakeOver, RentalStatuses
    <2> QED
      BY <1>6, <2>1 DEF TypeOK
  <1>9. HoldsAreDrafts'
    <2>1. \A q \in Rentals : Paid(q) => checkout[q[1]] \notin {"NONE", "OPEN"}
      BY DEF Paid
    <2>2. Paid(r)
      BY DEF HoldsArePaidFor, InForceIsPaid, Occupying
    <2> QED
      BY <1>6, <2>1, <2>2 DEF HoldsAreDrafts, Paid
  <1>10. LockedIsHeld'
    <2>1. \A w \in settling : \A k \in w.renews :
            k \in Rentals /\ k # n /\ k # r /\ prev[k] # n /\ prev[k] # r
      BY DEF LockedIsHeld, TypeOK, Settling, Paid, Lapsed, Over
    <2>2. \A w \in settling : \A k \in w.renews : prev[k] \in Rentals
      BY DEF LockedIsHeld, TypeOK, Settling
    <2>3. UNCHANGED <<settling, checkout, pay, prev>>
      OBVIOUS
    <2> QED
      BY <1>6, <2>1, <2>2, <2>3 DEF LockedIsHeld
  <1>11. IndexesHold' /\ EndingIsDue'
    <2>1. IndexesHold'
      BY DEF HandOver, IndexesHold
    <2>2. \A q \in ending : q \in Rentals /\ q # n /\ q # r
      <3>1. ending \subseteq Rentals
        BY DEF TypeOK
      <3>2. \A q \in ending : status[q] \in {"ACTIVE", "EXPIRING"}
        BY DEF EndingIsDue, IsDue
      <3> QED
        BY <3>1, <3>2
    <2> QED
      BY <1>6, <2>1, <2>2 DEF EndingIsDue, IsDue
  <1>12. PaidOnce' /\ NoPaymentOutlives'
    BY DEF HoldsArePaidFor, PaidOnce, NoPaymentOutlives
  <1>13. InForceIsPaid'
    BY <1>6 DEF HoldsArePaidFor, InForceIsPaid, Paid, Occupying
  <1> QED
    BY <1>6, <1>7, <1>8, <1>9, <1>10, <1>11, <1>12, <1>13 DEF HoldsArePaidFor

(* The other steps of a rental in force.                                   *)
LEMMA LifeKeepsInv ==
  ASSUME RentalsInv, NEW r \in Rentals,
         ScanExpiring(r) \/ CommitGrace(r) \/ Liquidate(r) \/ Close(r) \/ Return(r)
  PROVE  RentalsInv'
  <1> USE ConstantFacts DEF RentalsInv
  <1>1. CASE ScanExpiring(r)
    <2>1. TypeOK'
      BY <1>1 DEF ScanExpiring, TypeOK, RentalStatuses
    <2>2. IndexesHold'
      BY <1>1, IndexesRemain DEF ScanExpiring, GoesOn, Begun, Lapsing, Lapsed, Over,
         BLOCKING_STATUSES, Occupying, TypeOK
    <2>3. "EXPIRING" \in Lapsing /\ status[r] \in Begun /\ status[r] \notin Lapsed /\ status[r] \notin Over
      BY <1>1 DEF ScanExpiring, Lapsing, Lapsed, Begun, Over, Occupying
    <2>4. EndingIsDue'
      BY <1>1 DEF ScanExpiring, EndingIsDue, IsDue, TypeOK
    <2> QED
      BY <1>1, <2>1, <2>2, <2>3, <2>4, MovesOnKeepsInv DEF ScanExpiring
  <1>2. CASE CommitGrace(r)
    <2>1. status[r] \in {"ACTIVE", "EXPIRING"} /\ r \notin declined
      BY <1>2 DEF CommitGrace, EndingIsDue, IsDue
    <2>2. TypeOK'
      BY <1>2, <2>1 DEF CommitGrace, TypeOK, RentalStatuses
    <2>3. IndexesHold'
      BY <1>2, <2>1, IndexesRemain DEF CommitGrace, GoesOn, Begun, Lapsing, Lapsed, Over,
         BLOCKING_STATUSES, Occupying, TypeOK
    <2>4. "GRACE" \in Lapsing /\ "GRACE" \in Lapsed /\ status[r] \in Begun /\ status[r] \notin Over
      BY <2>1 DEF Lapsing, Lapsed, Begun, Over, Occupying
    <2>5. EndingIsDue'
      BY <1>2 DEF CommitGrace, EndingIsDue, IsDue, TypeOK
    <2> QED
      BY <1>2, <2>1, <2>2, <2>3, <2>4, <2>5, MovesOnKeepsInv DEF CommitGrace
  <1>3. CASE Liquidate(r)
    <2> DEFINE req == [op |-> "liquidate", rental |-> r]
    <2>1. /\ req \in requests /\ requests' \subseteq requests
          /\ status[r] \in Begun /\ status[r] \in Lapsed /\ r \notin ending
          /\ UNCHANGED <<place, prev, declined, returned, shopVars, session, settling, ending>>
      BY <1>3 DEF Liquidate, Answer, ReadRemainsTrue, EndingIsDue, IsDue, Lapsed, Over
    <2>2. CASE UNCHANGED <<status, bottle, overdue>>
      <3>1. TypeOK' /\ ReadRemainsTrue' /\ EndingIsDue'
        BY <2>1, <2>2 DEF TypeOK, ReadRemainsTrue, EndingIsDue, IsDue
      <3> QED
        BY <2>1, <2>2, <3>1, QuietKeepsInv
    <2>3. CASE /\ IndexesAllow(status', place, prev)
               /\ status' = [status EXCEPT ![r] = "LIQUIDATED"]
               /\ bottle' = IF bottle[place[r]] \in Brands
                            THEN [bottle EXCEPT ![place[r]] = Platform] ELSE bottle
               /\ overdue' = overdue \ {r}
      <3>1. TypeOK'
        BY <2>1, <2>3 DEF TypeOK, RentalStatuses
      <3>2. IndexesHold'
        BY <2>1, <2>3 DEF IndexesHold
      <3>3. "LIQUIDATED" \in Lapsing /\ "LIQUIDATED" \in Over /\ "LIQUIDATED" \in Lapsed
        BY DEF Lapsing, Lapsed, Begun, Over, Occupying
      <3>4. \A s \in Slots : bottle'[s] \in Brands => bottle'[s] = bottle[s] /\ place[r] # s
        BY <2>3 DEF TypeOK
      <3>5. EndingIsDue'
        BY <2>1, <2>3 DEF EndingIsDue, IsDue, TypeOK
      <3> QED
        BY <2>1, <2>3, <3>1, <3>2, <3>3, <3>4, <3>5, MovesOnKeepsInv
    <2> QED
      BY <1>3, <2>2, <2>3 DEF Liquidate
  <1>4. CASE Close(r)
    <2>1. /\ requests' \subseteq requests /\ status[r] \in Over /\ status[r] \in Begun
          /\ UNCHANGED <<place, prev, declined, returned, overdue, shopVars, session, settling, ending>>
          /\ status' = [status EXCEPT ![r] = "CLOSED"]
      BY <1>4 DEF Close, Answer, ReadRemainsTrue
    <2>2. \A s \in Slots : bottle'[s] \in Brands => bottle'[s] = bottle[s]
      BY <1>4 DEF Close, TypeOK
    <2>3. TypeOK'
      <3>1. bottle' \in [Slots -> Brands \cup {Platform, Nobody, "EMPTY"}]
        BY <1>4 DEF Close, TypeOK
      <3> QED
        BY <2>1, <3>1 DEF TypeOK, RentalStatuses, Over
    <2>4. IndexesHold'
      BY <2>1, IndexesRemain DEF GoesOn, Begun, Lapsing, Lapsed, Over, BLOCKING_STATUSES,
         Occupying, TypeOK
    <2>5. "CLOSED" \in Lapsing /\ "CLOSED" \in Over /\ "CLOSED" \in Lapsed /\ ~Stockable(r)
      BY <2>1 DEF Lapsing, Lapsed, Begun, Over, Occupying, Stockable
    <2>6. EndingIsDue'
      BY <2>1 DEF EndingIsDue, IsDue, TypeOK, Over
    <2> QED
      BY <2>1, <2>2, <2>3, <2>4, <2>5, <2>6, MovesOnKeepsInv
  <1>5. CASE Return(r)
    <2>1. /\ requests' \subseteq requests /\ status[r] \in Begun /\ r \notin ending
          /\ UNCHANGED <<place, prev, declined, shopVars, session, settling, ending>>
      BY <1>5 DEF Return, Answer, ReadRemainsTrue
    <2>2. CASE UNCHANGED <<returned, status, bottle, overdue>>
      <3>1. TypeOK' /\ ReadRemainsTrue' /\ EndingIsDue'
        BY <2>1, <2>2 DEF TypeOK, ReadRemainsTrue, EndingIsDue, IsDue
      <3> QED
        BY <2>1, <2>2, <3>1, QuietKeepsInv
    <2>3. CASE /\ returned' = returned \cup {r}
               /\ status' = [status EXCEPT ![r] = "CLOSED"]
               /\ bottle' = [bottle EXCEPT ![place[r]] = Nobody]
               /\ overdue' = overdue \ {r}
      <3>1. TypeOK'
        BY <2>1, <2>3 DEF TypeOK, RentalStatuses
      <3>2. IndexesHold'
        BY <2>1, <2>3, IndexesRemain DEF GoesOn, Begun, Lapsing, Lapsed, Over,
           BLOCKING_STATUSES, Occupying, TypeOK
      <3>3. "CLOSED" \in Lapsing /\ "CLOSED" \in Over /\ "CLOSED" \in Lapsed
        BY DEF Lapsing, Lapsed, Begun, Over, Occupying
      <3>4. \A s \in Slots : bottle'[s] \in Brands => bottle'[s] = bottle[s] /\ place[r] # s
        BY <2>3 DEF TypeOK
      <3>5. EndingIsDue'
        BY <2>1, <2>3 DEF EndingIsDue, IsDue, TypeOK
      <3> QED
        BY <2>1, <2>3, <3>1, <3>2, <3>3, <3>4, <3>5, MovesOnKeepsInv
    <2> QED
      BY <1>5, <2>2, <2>3 DEF Return
  <1> QED
    BY <1>1, <1>2, <1>3, <1>4, <1>5

LEMMA AutoActivateKeepsInv ==
  ASSUME RentalsInv, NEW r \in Rentals, AutoActivate(r)
  PROVE  RentalsInv'
  <1> USE DEF RentalsInv
  <1>1. /\ CanStart(r) /\ status' = [status EXCEPT ![r] = "ACTIVE"]
        /\ UNCHANGED <<place, prev, declined, returned, overdue, shopVars, slotVars, flightVars>>
    BY DEF AutoActivate
  <1>2. TypeOK'
    BY <1>1 DEF TypeOK, RentalStatuses, CanStart
  <1>3. \A s \in Slots, m \in Rentals :
          m \in RentalsAt(s) /\ Stocked(m) => (m \in RentalsAt(s))' /\ Stocked(m)'
    BY <1>1, <1>2, StartKeepsInv
  <1>4. StockIsOwned' /\ SwappedLeavesEmpty'
    BY <1>1, <1>3, OwnersRemain DEF Owner, BrandOfRental
  <1>5. IndexesHold'
    BY <1>1 DEF AutoActivate, IndexesHold
  <1> QED
    BY <1>1, <1>2, <1>4, <1>5, StartKeepsInv

(* What the brand decides of a rental is of one that is in force.          *)
LEMMA DecideKeepsInv ==
  ASSUME RentalsInv, NEW r \in Rentals, Decline(r) \/ Withdraw(r)
  PROVE  RentalsInv'
  <1> USE DEF RentalsInv
  <1>1. /\ status[r] \in {"ACTIVE", "EXPIRING"} /\ declined' \subseteq declined \cup {r}
        /\ UNCHANGED <<status, place, prev, returned, overdue, shopVars, slotVars, flightVars>>
        /\ r \notin overdue
    BY DEF Decline, Withdraw, MayDecline
  <1>2. TypeOK' /\ ReadRemainsTrue' /\ EndingIsDue' /\ DeclinedNoGrace'
    BY <1>1 DEF TypeOK, ReadRemainsTrue, EndingIsDue, IsDue, DeclinedNoGrace, RenewalIsKept,
       Begun, Occupying
  <1>3. HoldsAreDrafts' /\ RenewsLapsing' /\ LockedIsHeld' /\ IndexesHold'
    BY <1>1 DEF HoldsAreDrafts, RenewsLapsing, LockedIsHeld, IndexesHold, IndexesAllow,
       MayFollow, Paid, BrandOfRental
  <1>4. StockIsOwned' /\ SwappedLeavesEmpty'
    BY <1>1 DEF StockIsOwned, SwappedLeavesEmpty, Owner, RentalsAt, Stocked, CanStart, Stockable, Paid, BrandOfRental
  <1>5. HoldsArePaidFor' /\ RenewedTookEffect'
    BY <1>1 DEF HoldsArePaidFor, PaidOnce, NoPaymentOutlives, InForceIsPaid, RenewalIsKept,
       RenewedTookEffect, Paid
  <1> QED
    BY <1>2, <1>3, <1>4, <1>5 DEF RenewalIsKept

LEMMA SwapSlotKeepsInv ==
  ASSUME RentalsInv, NEW r \in Rentals, NEW s \in Slots, SwapSlot(r, s)
  PROVE  RentalsInv'
  <1> USE ConstantFacts DEF RentalsInv
  <1>1. /\ status[r] = "DRAFT" /\ Paid(r) /\ place[r] = r[2] /\ s # place[r]
        /\ bottle[place[r]] = Nobody /\ bottle[s] = Nobody /\ BlockingAt(s) = {}
        /\ UNCHANGED <<status, prev, declined, returned, overdue, shopVars, slotVars, flightVars>>
        /\ place' = [place EXCEPT ![r] = s]
    BY DEF SwapSlot
  <1>2. place'[r] = s /\ \A q \in Rentals : q # r => place'[q] = place[q]
    BY <1>1 DEF TypeOK
  <1>3. TypeOK'
    BY <1>1 DEF TypeOK
  <1>4. HoldsAreDrafts'
    BY <1>1, <1>2 DEF HoldsAreDrafts, Paid
  <1>5. RenewsLapsing'
    <2>1. \A q \in Rentals : prev[q] # r
      BY <1>1 DEF RenewsLapsing, Lapsing, Begun, Occupying
    <2> QED
      BY <1>1, <1>2, <2>1 DEF RenewsLapsing, BrandOfRental, TypeOK
  <1>6. ReadRemainsTrue' /\ LockedIsHeld' /\ EndingIsDue'
    BY <1>1 DEF ReadRemainsTrue, LockedIsHeld, EndingIsDue, IsDue
  <1>7. IndexesHold'
    BY <1>1, <1>2 DEF IndexesHold, IndexesAllow, MayFollow, BlockingAt
  <1>8. ASSUME NEW t \in Slots, bottle[t] \in Brands, NEW m \in Rentals, Owner(t, m)
        PROVE  Owner(t, m)'
    <2>1. m # r
      BY <1>1, <1>8 DEF Owner, RentalsAt
    <2> QED
      BY <1>1, <1>2, <1>8, <2>1 DEF Owner, RentalsAt, Stocked, CanStart, Stockable, Paid, BrandOfRental
  <1>9. StockIsOwned'
    BY <1>1, <1>8 DEF StockIsOwned
  <1>10. SwappedLeavesEmpty'
    BY <1>1, <1>2, <1>8 DEF SwappedLeavesEmpty
  <1>11. HoldsArePaidFor' /\ RenewalIsKept'
    BY <1>1 DEF HoldsArePaidFor, PaidOnce, NoPaymentOutlives, InForceIsPaid, RenewalIsKept,
       DeclinedNoGrace, RenewedTookEffect, Paid
  <1> QED
    BY <1>3, <1>4, <1>5, <1>6, <1>7, <1>9, <1>10, <1>11

(* A bottle is installed for a rental that is not to end.                  *)
LEMMA CloseRefillKeepsInv ==
  ASSUME RentalsInv, NEW s \in Slots, CloseRefill(s)
  PROVE  RentalsInv'
  <1> USE ConstantFacts DEF RentalsInv
  <1>1. PICK r \in StockableAt(s) :
          /\ MayInstall(r)
          /\ session' = [session EXCEPT ![s] = Nobody]
          /\ bottle' = [bottle EXCEPT ![s] = BrandOfRental(r)]
          /\ status' = IF CanStart(r) THEN [status EXCEPT ![r] = "ACTIVE"] ELSE status
          /\ IndexesAllow(status', place, prev)
          /\ UNCHANGED <<place, prev, declined, returned, overdue, shopVars, flightVars>>
    BY DEF CloseRefill
  <1>2. r \in Rentals /\ r \in RentalsAt(s) /\ Stockable(r) /\ status[r] \in {"DRAFT", "ACTIVE"}
    BY <1>1 DEF StockableAt, RentalsAt, MayInstall
  <1>3. TypeOK'
    BY <1>1, <1>2 DEF TypeOK, RentalStatuses, CanStart
  <1>4. /\ HoldsAreDrafts' /\ RenewsLapsing' /\ ReadRemainsTrue' /\ EndingIsDue' /\ LockedIsHeld'
        /\ HoldsArePaidFor' /\ RenewalIsKept'
        /\ \A t \in Slots, m \in Rentals :
             m \in RentalsAt(t) /\ Stocked(m) => (m \in RentalsAt(t))' /\ Stocked(m)'
        /\ r \in RentalsAt(s)' /\ Stocked(r)'
    <2>1. CASE CanStart(r)
      <3>1. status' = [status EXCEPT ![r] = "ACTIVE"] /\ r \in RentalsAt(s)' /\ Stocked(r)'
        BY <1>1, <1>2, <2>1 DEF RentalsAt, Stocked, CanStart, Stockable, TypeOK
      <3> QED
        BY <1>1, <1>2, <1>3, <2>1, <3>1, StartKeepsInv
    <2>2. CASE status' = status /\ ~CanStart(r)
      <3> USE <1>1, <1>2, <2>2
      <3>1. /\ HoldsAreDrafts' /\ RenewsLapsing' /\ ReadRemainsTrue' /\ EndingIsDue'
            /\ LockedIsHeld'
        BY DEF HoldsAreDrafts, RenewsLapsing, ReadRemainsTrue, EndingIsDue, IsDue, LockedIsHeld,
           Paid, BrandOfRental
      <3>2. HoldsArePaidFor' /\ RenewalIsKept'
        BY DEF HoldsArePaidFor, PaidOnce, NoPaymentOutlives, InForceIsPaid, RenewalIsKept,
           DeclinedNoGrace, RenewedTookEffect, Paid
      <3>3. /\ \A t \in Slots, m \in Rentals :
                 m \in RentalsAt(t) /\ Stocked(m) => (m \in RentalsAt(t))' /\ Stocked(m)'
            /\ r \in RentalsAt(s)' /\ Stocked(r)'
        BY DEF RentalsAt, Stocked, CanStart, Stockable, Paid
      <3> QED
        BY <3>1, <3>2, <3>3
    <2> QED
      BY <1>1, <2>1, <2>2
  <1>5. bottle'[s] = BrandOfRental(r) /\ \A t \in Slots : t # s => bottle'[t] = bottle[t]
    BY <1>1 DEF TypeOK
  <1>6. Owner(s, r)'
    BY <1>2, <1>4, <1>5 DEF Owner, BrandOfRental
  <1>7. ASSUME NEW t \in Slots, t # s, NEW m \in Rentals, Owner(t, m)
        PROVE  Owner(t, m)'
    BY <1>4, <1>5, <1>7 DEF Owner, BrandOfRental
  <1>8. StockIsOwned'
    BY <1>2, <1>5, <1>6, <1>7 DEF StockIsOwned
  <1>9. SwappedLeavesEmpty'
    <2> SUFFICES ASSUME NEW n \in Rentals, prev[n] # NoRental, place[n] # n[2],
                        bottle'[n[2]] \in Brands
                 PROVE  \E m \in Rentals \ {prev[n]} : Owner(n[2], m)'
      BY <1>1 DEF SwappedLeavesEmpty
    <2>1. r # prev[n]
      BY <1>2 DEF RenewsLapsing, Lapsing, Begun, Occupying
    <2> QED
      BY <1>2, <1>5, <1>6, <1>7, <2>1 DEF SwappedLeavesEmpty
  <1>10. IndexesHold'
    BY <1>1 DEF IndexesHold
  <1> QED
    BY <1>3, <1>4, <1>8, <1>9, <1>10

LEMMA BottleKeepsInv ==
  ASSUME RentalsInv, NEW s \in Slots, BottleEmpties(s) \/ BottleDamaged(s)
  PROVE  RentalsInv'
  <1> USE ConstantFacts DEF RentalsInv
  <1>1. /\ UNCHANGED <<rentalVars, overdue, shopVars, session, flightVars>>
        /\ bottle' \in [Slots -> Brands \cup {Platform, Nobody, "EMPTY"}]
        /\ \A t \in Slots : bottle'[t] \in Brands => bottle'[t] = bottle[t]
    BY DEF BottleEmpties, BottleDamaged, TypeOK
  <1>2. TypeOK'
    BY <1>1 DEF TypeOK
  <1>3. /\ HoldsAreDrafts' /\ RenewsLapsing' /\ ReadRemainsTrue' /\ EndingIsDue' /\ LockedIsHeld'
        /\ IndexesHold'
    BY <1>1 DEF HoldsAreDrafts, RenewsLapsing, ReadRemainsTrue, EndingIsDue, IsDue, LockedIsHeld,
       IndexesHold, IndexesAllow, MayFollow, Paid, BrandOfRental
  <1>4. StockIsOwned' /\ SwappedLeavesEmpty'
    BY <1>1, OwnersRemain DEF Owner, RentalsAt, Stocked, CanStart, Stockable, Paid, BrandOfRental
  <1>5. HoldsArePaidFor' /\ RenewalIsKept'
    BY <1>1 DEF HoldsArePaidFor, PaidOnce, NoPaymentOutlives, InForceIsPaid, RenewalIsKept,
       DeclinedNoGrace, RenewedTookEffect, Paid
  <1> QED
    BY <1>2, <1>3, <1>4, <1>5

-----------------------------------------------------------------------------
(* Every step keeps the invariant.                                         *)

(* Who asks has read a rental in force, of its last days to renew it,      *)
(* liquidated to close it.                                                 *)
LEMMA AskKeepsInv ==
  ASSUME RentalsInv, NEW r \in Rentals,
         AskRenewal(r) \/ AskLiquidation(r) \/ AskClose(r) \/ AskReturn(r)
  PROVE  RentalsInv'
  <1>1. PICK op \in {"renew", "liquidate", "close", "return"} :
          /\ requests' = requests \cup {[op |-> op, rental |-> r]}
          /\ status[r] \in Begun
          /\ op = "renew" => status[r] \in Lapsing
          /\ op = "liquidate" => status[r] \in Lapsed
          /\ op = "close" => status[r] \in Over
    BY DEF AskRenewal, AskLiquidation, AskClose, AskReturn, Request, CanRenew, RentalsInv,
       ReadRemainsTrue, Begun, Lapsing, Lapsed, Over, Occupying
  <1>2. UNCHANGED <<rentalVars, overdue, shopVars, slotVars, settling, ending>>
    BY DEF AskRenewal, AskLiquidation, AskClose, AskReturn
  <1>3. TypeOK'
    <2>1. [op |-> op, rental |-> r] \in Requests
      BY DEF Requests
    <2> QED
      BY <1>1, <1>2, <2>1 DEF RentalsInv, TypeOK
  <1>4. ReadRemainsTrue' /\ EndingIsDue'
    BY <1>1, <1>2 DEF RentalsInv, ReadRemainsTrue, EndingIsDue, IsDue
  <1> QED
    BY <1>2, <1>3, <1>4, QuietKeepsInv

LEMMA NextKeepsRentalsInv == RentalsInv /\ [Next]_vars => RentalsInv'
  <1> SUFFICES ASSUME RentalsInv, [Next]_vars PROVE RentalsInv'
    OBVIOUS
  <1>1. ASSUME UNCHANGED <<rentalVars, shopVars, bottle>>, TypeOK',
               requests' \subseteq requests, settling' \subseteq settling,
               \A r \in ending' : IsDue(r) /\ r \in overdue'
        PROVE  RentalsInv'
    BY <1>1, QuietKeepsInv DEF RentalsInv, ReadRemainsTrue, EndingIsDue, IsDue
  <1>0. TypeOK /\ \A r \in ending : IsDue(r) /\ r \in overdue /\ status[r] # "GRACE"
    BY DEF RentalsInv, EndingIsDue, IsDue
  <1>2. CASE Buying
    <2>1. ASSUME NEW c \in Checkouts, NEW cart \in Carts[c], CreateCheckout(c, cart)
          PROVE  RentalsInv'
      BY <2>1, CreateCheckoutKeepsInv
    <2>2. ASSUME NEW r \in Rentals, NEW c \in Checkouts, Renew(r, c) PROVE RentalsInv'
      BY <2>2, RenewKeepsInv
    <2>3. ASSUME NEW r \in Rentals, AskRenewal(r) PROVE RentalsInv'
      BY <2>3, AskKeepsInv
    <2>4. ASSUME NEW c \in Checkouts, HoldExpires(c) PROVE RentalsInv'
      BY <1>0, <1>1, <2>4 DEF HoldExpires, TypeOK
    <2>5. ASSUME NEW c \in Checkouts, CancelCheckout(c) \/ CancelExpiredCheckout(c)
          PROVE  RentalsInv'
      BY <2>5, CloseCheckoutKeepsInv DEF CancelCheckout, CancelExpiredCheckout
    <2>6. ASSUME NEW p \in Payments, PayCheckout(p) \/ PaymentFails(p) \/ RefundPayment(p)
          PROVE  RentalsInv'
      BY <2>6, PaymentKeepsInv
    <2>7. ASSUME NEW p \in Payments, BeginSettle(p) PROVE RentalsInv'
      BY <2>7, BeginSettleKeepsInv
    <2>8. ASSUME NEW w \in settling, CommitSettle(w) PROVE RentalsInv'
      BY <2>8, CommitSettleKeepsInv
    <2>9. ASSUME NEW w \in settling, LoseSettle(w) PROVE RentalsInv'
      BY <1>0, <1>1, <2>9 DEF LoseSettle, TypeOK
    <2>10. ASSUME NEW q \in requests, LoseRequest(q) PROVE RentalsInv'
      BY <1>0, <1>1, <2>10 DEF LoseRequest, TypeOK
    <2> QED
      BY <1>2, <2>1, <2>2, <2>3, <2>4, <2>5, <2>6, <2>7, <2>8, <2>9, <2>10 DEF Buying
  <1>3. CASE Renting
    <2> SUFFICES ASSUME NEW r \in Rentals,
                   \/ AutoActivate(r) \/ ScanExpiring(r) \/ PeriodEnds(r) \/ HandOver(r)
                   \/ BeginGrace(r) \/ CommitGrace(r) \/ LoseGrace(r) \/ GraceEnds(r)
                   \/ ExtendGrace(r) \/ AskLiquidation(r) \/ Liquidate(r)
                   \/ AskClose(r) \/ Close(r) \/ Decline(r) \/ Withdraw(r) \/ AskReturn(r)
                   \/ Return(r) \/ \E s \in Slots : SwapSlot(r, s)
                 PROVE  RentalsInv'
      BY <1>3 DEF Renting
    <2>1. CASE AutoActivate(r)
      BY <2>1, AutoActivateKeepsInv
    <2>2. CASE ScanExpiring(r) \/ CommitGrace(r) \/ Liquidate(r) \/ Close(r) \/ Return(r)
      BY <2>2, LifeKeepsInv
    <2>3. CASE HandOver(r)
      BY <2>3, HandOverKeepsInv
    <2>4. CASE PeriodEnds(r) \/ GraceEnds(r) \/ ExtendGrace(r)
      BY <1>0, <1>1, <2>4 DEF PeriodEnds, GraceEnds, ExtendGrace, TypeOK
    <2>8. CASE BeginGrace(r) \/ LoseGrace(r)
      <3>1. IsDue(r) => r \in overdue
        BY DEF IsDue
      <3> QED
        BY <1>0, <1>1, <2>8, <3>1 DEF BeginGrace, LoseGrace, TypeOK
    <2>5. CASE AskLiquidation(r) \/ AskClose(r) \/ AskReturn(r)
      BY <2>5, AskKeepsInv
    <2>6. CASE Decline(r) \/ Withdraw(r)
      BY <2>6, DecideKeepsInv
    <2>7. CASE \E s \in Slots : SwapSlot(r, s)
      BY <2>7, SwapSlotKeepsInv
    <2> QED
      BY <2>1, <2>2, <2>3, <2>4, <2>5, <2>6, <2>7, <2>8
  <1>4. CASE Stocking
    <2>1. ASSUME NEW s \in Slots, OpenRefill(s) PROVE RentalsInv'
      <3>1. session' \in [Slots -> Brands \cup {Nobody}]
        BY <2>1, ConstantFacts DEF OpenRefill, StockableAt, RentalsAt, RentalsInv, TypeOK
      <3> QED
        BY <1>0, <1>1, <2>1, <3>1 DEF OpenRefill, TypeOK
    <2>2. ASSUME NEW s \in Slots, CloseRefill(s) PROVE RentalsInv'
      BY <2>2, CloseRefillKeepsInv
    <2>3. ASSUME NEW s \in Slots, BottleEmpties(s) \/ BottleDamaged(s) PROVE RentalsInv'
      BY <2>3, BottleKeepsInv
    <2> QED
      BY <1>4, <2>1, <2>2, <2>3 DEF Stocking
  <1>5. CASE UNCHANGED vars
    BY <1>0, <1>1, <1>5 DEF vars, TypeOK
  <1> QED
    BY <1>2, <1>3, <1>4, <1>5 DEF Next

(* The inductive invariant holds.                                          *)
THEOREM RentalsInvariant == Spec => []RentalsInv
  BY InitRentalsInv, NextKeepsRentalsInv, PTL DEF Spec

-----------------------------------------------------------------------------
(* What follows of a slot.                                                 *)

(* Two rentals that block a slot are one and its renewal, or two of them,  *)
(* or one has been liquidated and the other has not begun.                 *)
LEMMA BlockingIsOneBrand == RentalsInv => OneBrandPerSlot
  <1> SUFFICES ASSUME RentalsInv, NEW s \in Slots, NEW r \in BlockingAt(s), NEW q \in BlockingAt(s),
                      BrandOfRental(r) # BrandOfRental(q)
               PROVE  {status[r], status[q]} = {"DRAFT", "LIQUIDATED"}
    BY DEF OneBrandPerSlot
  <1> USE DEF RentalsInv
  <1>1. /\ r \in Rentals /\ q \in Rentals /\ place[r] = place[q] /\ r # q
        /\ status[r] \in BLOCKING_STATUSES /\ status[q] \in BLOCKING_STATUSES
    BY DEF BlockingAt
  <1>2. /\ ~(status[r] \in Occupying /\ status[q] \in Occupying)
        /\ MayFollow(status, prev, r, q)
    BY <1>1 DEF IndexesHold, IndexesAllow
  <1>3. prev[r] # q /\ prev[q] # r
    BY <1>1, ConstantFacts DEF RenewsLapsing
  <1>4. ~(prev[r] = prev[q] /\ prev[r] \in Rentals)
    BY <1>1, ConstantFacts DEF RenewsLapsing
  <1> QED
    BY <1>1, <1>2, <1>3, <1>4 DEF MayFollow, BLOCKING_STATUSES, Occupying

LEMMA LiquidatedStockIsPlatforms == RentalsInv => LiquidatedIsThePlatforms
  <1> SUFFICES ASSUME RentalsInv, NEW r \in Rentals, status[r] = "LIQUIDATED",
                      bottle[place[r]] \in Brands
               PROVE  \E n \in RentalsAt(place[r]) \ {r} :
                        BrandOfRental(n) = bottle[place[r]] /\ Paid(n) /\ prev[n] # NoRental
    BY DEF LiquidatedIsThePlatforms
  <1> USE DEF RentalsInv
  <1>1. place[r] \in Slots
    BY DEF TypeOK
  <1>2. PICK m \in Rentals : Owner(place[r], m)
    BY <1>1 DEF StockIsOwned
  <1>3. /\ m # r /\ place[m] = place[r] /\ m \in RentalsAt(place[r])
        /\ status[m] \in BLOCKING_STATUSES
    BY <1>2 DEF Owner, RentalsAt, Stocked, Stockable, BLOCKING_STATUSES, Occupying
  <1>4. status[m] = "DRAFT"
    BY <1>3 DEF IndexesHold, IndexesAllow, BLOCKING_STATUSES, Occupying
  <1>5. Paid(m) /\ prev[m] # NoRental /\ BrandOfRental(m) = bottle[place[r]]
    BY <1>2, <1>4 DEF Owner, Stocked, Stockable, CanStart
  <1> QED
    BY <1>3, <1>5

(* One brand at a time has a right to a slot, or the platform has, whatever *)
(* is held, renewed, swapped, paid late or liquidated late.                 *)
THEOREM RentalsSlotHasOneOwner == Spec => []SlotHasOneOwner
  <1>1. RentalsInv => SlotHasOneOwner
    BY BlockingIsOneBrand, LiquidatedStockIsPlatforms DEF SlotHasOneOwner
  <1> QED
    BY <1>1, RentalsInvariant, PTL

(* Every row has a state of the database's.                                *)
THEOREM RentalsTypeCorrect == Spec => []TypeOK
  <1>1. RentalsInv => TypeOK
    BY DEF RentalsInv
  <1> QED
    BY <1>1, RentalsInvariant, PTL

(* A checkout is paid once, never after it was cancelled, and what is in    *)
(* force was paid for.                                                      *)
THEOREM RentalsHoldsArePaidFor == Spec => []HoldsArePaidFor
  <1>1. RentalsInv => HoldsArePaidFor
    BY DEF RentalsInv
  <1> QED
    BY <1>1, RentalsInvariant, PTL

(* A brand that declined is not in GRACE, and a rental gave way only to a   *)
(* renewal that began.                                                      *)
THEOREM RentalsRenewalIsKept == Spec => []RenewalIsKept
  <1>1. RentalsInv => RenewalIsKept
    BY DEF RentalsInv
  <1> QED
    BY <1>1, RentalsInvariant, PTL

-----------------------------------------------------------------------------
(* How a rental ends.                                                      *)

(* The job finds a renewal that was paid before it looks.                  *)
LEMMA RenewalIsFound ==
  ASSUME RentalsInv, NEW r \in Rentals, BeginGrace(r), NEW n \in Rentals, prev[n] = r
  PROVE  ~Paid(n)
  <1> SUFFICES ASSUME Paid(n) PROVE FALSE
    OBVIOUS
  <1> USE DEF RentalsInv
  <1>1. status[r] \in {"ACTIVE", "EXPIRING"} /\ n \notin PaidRenewals(r)
    BY DEF BeginGrace, IsDue
  <1>2. status[n] \notin Begun
    BY <1>1, ConstantFacts DEF RenewsLapsing, Over
  <1>3. status[n] \notin {"NONE", "CANCELLED"}
    BY ConstantFacts DEF HoldsArePaidFor, InForceIsPaid, RenewsLapsing, Paid
  <1> QED
    BY <1>1, <1>2, <1>3 DEF PaidRenewals, TypeOK, RentalStatuses, Begun, Occupying

(* What was paid for is not bought again, nor tied to another rental.      *)
LEMMA PaidStays ==
  ASSUME RentalsInv, Next, NEW n \in Rentals, Paid(n)
  PROVE  Paid(n)' /\ prev'[n] = prev[n]
  <1> USE ConstantFacts DEF RentalsInv, Paid
  <1>1. ASSUME NEW c \in Checkouts, NEW cart \in Carts[c], CreateCheckout(c, cart)
        PROVE  Paid(n)' /\ prev'[n] = prev[n]
    BY <1>1 DEF CreateCheckout, TypeOK
  <1>2. ASSUME NEW r \in Rentals, NEW c \in Checkouts, Renew(r, c)
        PROVE  Paid(n)' /\ prev'[n] = prev[n]
    <2>1. /\ checkout[c] = "NONE"
          /\ checkout' \in {checkout, [checkout EXCEPT ![c] = "OPEN"]}
          /\ prev' \in {prev, [prev EXCEPT ![<<c, place[r]>>] = r]}
      BY <1>2 DEF Renew
    <2>2. n[1] # c /\ n # <<c, place[r]>>
      BY <2>1
    <2> QED
      BY <2>1, <2>2 DEF TypeOK
  <1>3. ASSUME NEW c \in Checkouts, CancelCheckout(c) \/ CancelExpiredCheckout(c)
        PROVE  Paid(n)' /\ prev'[n] = prev[n]
    BY <1>3 DEF CancelCheckout, CancelExpiredCheckout, CloseCheckout, TypeOK
  <1>4. ASSUME NEW w \in settling, CommitSettle(w)
        PROVE  Paid(n)' /\ prev'[n] = prev[n]
    BY <1>4 DEF CommitSettle, TypeOK
  <1>5. ASSUME UNCHANGED <<checkout, prev>>
        PROVE  Paid(n)' /\ prev'[n] = prev[n]
    BY <1>5
  <1>6. CASE Buying
    BY <1>1, <1>2, <1>3, <1>4, <1>5, <1>6 DEF Buying, AskRenewal, HoldExpires, PayCheckout,
       PaymentFails, RefundPayment, BeginSettle, LoseSettle, LoseRequest
  <1>7. CASE Renting
    BY <1>5, <1>7 DEF Renting, AutoActivate, ScanExpiring, PeriodEnds, HandOver, BeginGrace,
       CommitGrace, LoseGrace, GraceEnds, ExtendGrace, AskLiquidation, Liquidate, AskClose, Close,
       Decline, Withdraw, AskReturn, Return, SwapSlot
  <1>8. CASE Stocking
    BY <1>5, <1>8 DEF Stocking, OpenRefill, CloseRefill, BottleEmpties, BottleDamaged
  <1> QED
    BY <1>6, <1>7, <1>8 DEF Next

(* The job looks for renewals before it brings a rental into grace.        *)
LEMMA EndingIsFound ==
  ASSUME RentalsInv, Next, NEW r \in ending', r \notin ending
  PROVE  r \in Rentals /\ BeginGrace(r)
  <1>1. ending' # ending
    OBVIOUS
  <1>2. PICK q \in Rentals : BeginGrace(q) \/ CommitGrace(q) \/ LoseGrace(q)
    BY <1>1 DEF Next, Buying, Renting, Stocking, CreateCheckout, AskRenewal, Renew, HoldExpires,
       CancelCheckout, CancelExpiredCheckout, CloseCheckout, PayCheckout, PaymentFails,
       RefundPayment, BeginSettle, CommitSettle, LoseSettle, LoseRequest, AutoActivate,
       ScanExpiring, PeriodEnds, HandOver, GraceEnds, ExtendGrace, AskLiquidation, Liquidate,
       AskClose, Close, Decline, Withdraw, AskReturn, Return, SwapSlot, OpenRefill, CloseRefill,
       BottleEmpties, BottleDamaged
  <1> QED
    BY <1>2 DEF BeginGrace, CommitGrace, LoseGrace

(* What has ended comes back only as liquidated, where no other is in       *)
(* force.                                                                   *)
LEMMA EndedStays ==
  ASSUME RentalsInv, Next, NEW r \in Rentals, status[r] \in Ended, status'[r] \notin Ended
  PROVE  /\ status'[r] = "LIQUIDATED" /\ [op |-> "liquidate", rental |-> r] \in requests
         /\ \A q \in RentalsAt(place[r]) : status'[q] \in Occupying => q = r
  <1> USE ConstantFacts DEF RentalsInv
  <1>1. ~\E c \in Checkouts : \E cart \in Carts[c] : CreateCheckout(c, cart)
    BY DEF CreateCheckout, HoldsAreDrafts, Ended, TypeOK
  <1>2. ~\E q \in Rentals, c \in Checkouts : Renew(q, c)
    <2> SUFFICES ASSUME NEW q \in Rentals, NEW c \in Checkouts, Renew(q, c) PROVE FALSE
      OBVIOUS
    <2>1. checkout[c] = "NONE" /\ status' \in {status, [status EXCEPT ![<<c, place[q]>>] = "DRAFT"]}
      BY DEF Renew
    <2>2. r[1] # c
      BY <2>1 DEF HoldsAreDrafts, Ended
    <2> QED
      BY <2>1, <2>2 DEF TypeOK
  <1>3. ~\E c \in Checkouts : CancelCheckout(c) \/ CancelExpiredCheckout(c)
    BY DEF CancelCheckout, CancelExpiredCheckout, CloseCheckout, Ended, TypeOK
  <1>4. ~\E w \in settling : CommitSettle(w)
    <2> SUFFICES ASSUME NEW w \in settling, CommitSettle(w) PROVE FALSE
      OBVIOUS
    <2>1. r \notin w.renews
      BY DEF LockedIsHeld, Ended
    <2> QED
      BY <2>1 DEF CommitSettle, TakeOver, Ended
  <1>5. ~\E q \in Rentals : HandOver(q)
    <2> SUFFICES ASSUME NEW q \in Rentals, HandOver(q) PROVE FALSE
      OBVIOUS
    <2>1. PICK n \in PaidRenewals(q) : status' = TakeOver({n})
      BY DEF HandOver
    <2>2. status[n] \in {"DRAFT", "ACTIVE"}
      BY <2>1 DEF PaidRenewals
    <2> QED
      BY <2>1, <2>2 DEF TakeOver, Ended
  <1>6. ~\E q \in Rentals :
          AutoActivate(q) \/ ScanExpiring(q) \/ CommitGrace(q) \/ Close(q) \/ Return(q)
    <2> SUFFICES ASSUME NEW q \in Rentals PROVE
          ~(AutoActivate(q) \/ ScanExpiring(q) \/ CommitGrace(q) \/ Close(q) \/ Return(q))
      OBVIOUS
    <2>1. ~AutoActivate(q) /\ ~ScanExpiring(q) /\ ~CommitGrace(q)
      BY DEF AutoActivate, CanStart, ScanExpiring, CommitGrace, EndingIsDue, IsDue, Ended, TypeOK
    <2>2. ~Close(q) /\ ~Return(q)
      BY DEF Close, Return, Ended, TypeOK
    <2> QED
      BY <2>1, <2>2
  <1>7. ~\E s \in Slots : CloseRefill(s)
    BY DEF CloseRefill, CanStart, Ended, TypeOK
  <1>8. status' # status
    OBVIOUS
  <1>9. PICK q \in Rentals : Liquidate(q)
    BY <1>1, <1>2, <1>3, <1>4, <1>5, <1>6, <1>7, <1>8 DEF Next, Buying, Renting, Stocking,
       AskRenewal, HoldExpires, PayCheckout, PaymentFails, RefundPayment, BeginSettle,
       LoseSettle, LoseRequest, PeriodEnds, BeginGrace, LoseGrace, GraceEnds, ExtendGrace,
       AskLiquidation, AskClose, Decline, Withdraw, AskReturn, SwapSlot, OpenRefill, BottleEmpties,
       BottleDamaged
  <1>10. q = r /\ status' = [status EXCEPT ![r] = "LIQUIDATED"] /\ IndexesAllow(status', place, prev)
    <2>1. /\ status' = [status EXCEPT ![q] = "LIQUIDATED"]
          /\ IndexesAllow(status', place, prev)
      BY <1>8, <1>9 DEF Liquidate
    <2>2. \A k \in Rentals : k # q => status'[k] = status[k]
      BY <2>1 DEF TypeOK
    <2> QED
      BY <2>1, <2>2
  <1>11. \A k \in RentalsAt(place[r]) : status'[k] \in Occupying => k = r
    BY <1>10 DEF RentalsAt, IndexesAllow, Occupying, BLOCKING_STATUSES, TypeOK
  <1> QED
    BY <1>9, <1>10, <1>11 DEF Liquidate, Answer, TypeOK

(* Only the job that ends a rental brings it into grace.                   *)
LEMMA GraceIsEntered ==
  ASSUME RentalsInv, Next, NEW r \in Rentals, status[r] # "GRACE", status'[r] = "GRACE"
  PROVE  CommitGrace(r)
  <1>0. status \in [Rentals -> RentalStatuses \cup {"NONE"}]
    BY DEF RentalsInv, TypeOK
  <1>1. ~\E w \in settling : CommitSettle(w)
    BY DEF CommitSettle, TakeOver
  <1>2. ~\E q \in Rentals : HandOver(q)
    BY DEF HandOver, TakeOver
  <1>3. ~\E q \in Rentals, c \in Checkouts : Renew(q, c)
    <2> SUFFICES ASSUME NEW q \in Rentals, NEW c \in Checkouts, Renew(q, c) PROVE FALSE
      OBVIOUS
    <2>1. status' \in {status, [status EXCEPT ![<<c, place[q]>>] = "DRAFT"]}
      BY DEF Renew
    <2> QED
      BY <1>0, <2>1
  <1>4. ~\E c \in Checkouts :
          \/ CancelCheckout(c) \/ CancelExpiredCheckout(c)
          \/ \E cart \in Carts[c] : CreateCheckout(c, cart)
    BY <1>0 DEF CancelCheckout, CancelExpiredCheckout, CloseCheckout, CreateCheckout
  <1>5. ~\E q \in Rentals :
          AutoActivate(q) \/ ScanExpiring(q) \/ Liquidate(q) \/ Close(q) \/ Return(q)
    <2> SUFFICES ASSUME NEW q \in Rentals PROVE
          ~(AutoActivate(q) \/ ScanExpiring(q) \/ Liquidate(q) \/ Close(q) \/ Return(q))
      OBVIOUS
    <2>1. ~AutoActivate(q) /\ ~ScanExpiring(q) /\ ~Liquidate(q)
      BY <1>0 DEF AutoActivate, ScanExpiring, Liquidate
    <2>2. ~Close(q) /\ ~Return(q)
      BY <1>0 DEF Close, Return
    <2> QED
      BY <2>1, <2>2
  <1>6. ~\E s \in Slots : CloseRefill(s)
    BY <1>0 DEF CloseRefill
  <1>7. PICK q \in Rentals : CommitGrace(q)
    BY <1>1, <1>2, <1>3, <1>4, <1>5, <1>6 DEF Next, Buying, Renting, Stocking,
       AskRenewal, HoldExpires, PayCheckout, PaymentFails, RefundPayment, BeginSettle,
       LoseSettle, LoseRequest, PeriodEnds, BeginGrace, LoseGrace, GraceEnds, ExtendGrace,
       AskLiquidation, AskClose, Decline, Withdraw, AskReturn, SwapSlot, OpenRefill, BottleEmpties,
       BottleDamaged
  <1> QED
    BY <1>0, <1>7 DEF CommitGrace

(* What is renewed in time stays out of grace.                              *)
LEMMA RenewedStaysRenewed ==
  ASSUME RentalsInv, Next, NEW n \in Rentals, RenewedInTime(n)
  PROVE  RenewedInTime(n)'
  <1>1. /\ prev[n] \in Rentals /\ prev[n] # NoRental /\ Paid(n)
        /\ status[prev[n]] # "GRACE" /\ prev[n] \notin ending
    BY DEF RenewedInTime, RentalsInv, TypeOK
  <1>2. Paid(n)' /\ prev'[n] = prev[n]
    BY <1>1, PaidStays
  <1>3. status'[prev[n]] # "GRACE"
    BY <1>1, GraceIsEntered DEF CommitGrace
  <1>4. prev[n] \notin ending'
    BY <1>1, EndingIsFound, RenewalIsFound
  <1> QED
    BY <1>1, <1>2, <1>3, <1>4 DEF RenewedInTime

(* A rental that is renewed in time does not enter its grace, and what has  *)
(* ended stays so unless a liquidation that was under way comes late.       *)
THEOREM RentalsEndsAsAgreed == Spec => EndsAsAgreed
  <1>1. RentalsInv /\ [Next]_vars => [\A n \in Rentals : RenewedInTime(n) => RenewedInTime(n)']_vars
    BY RenewedStaysRenewed
  <1>2. RentalsInv /\ [Next]_vars =>
          [\A r \in Rentals :
             status[r] \in Ended /\ status'[r] \notin Ended =>
               /\ status'[r] = "LIQUIDATED" /\ [op |-> "liquidate", rental |-> r] \in requests
               /\ \A q \in RentalsAt(place[r]) : status'[q] \in Occupying => q = r]_vars
    BY EndedStays
  <1> QED
    BY <1>1, <1>2, RentalsInvariant, PTL
       DEF Spec, EndsAsAgreed, RenewedStays, EndsForGood

-----------------------------------------------------------------------------
(* Tenancy is kept.                                                        *)

LEMMA TenantIsTheirs ==
  RentalsInv => \A s \in Slots :
    /\ TenantOf(s) \in Brands \cup {Platform, Nobody}
    /\ LiveAt(s) = {} => TenantOf(s) \in {Platform, Nobody}
    /\ \A r \in LiveAt(s) : TenantOf(s) = BrandOfRental(r) /\ BrandOfRental(r) \in Brands
    /\ bottle[s] \in Brands => TenantOf(s) = bottle[s]
  <1> SUFFICES ASSUME RentalsInv, NEW s \in Slots
               PROVE  /\ TenantOf(s) \in Brands \cup {Platform, Nobody}
                      /\ LiveAt(s) = {} => TenantOf(s) \in {Platform, Nobody}
                      /\ \A r \in LiveAt(s) :
                           TenantOf(s) = BrandOfRental(r) /\ BrandOfRental(r) \in Brands
                      /\ bottle[s] \in Brands => TenantOf(s) = bottle[s]
    OBVIOUS
  <1>1. LiveAt(s) # {} => \E r \in LiveAt(s) : TenantOf(s) = BrandOfRental(r)
    BY DEF TenantOf
  <1>2. \A r \in LiveAt(s) :
          r \in BlockingAt(s) /\ status[r] # "LIQUIDATED" /\ BrandOfRental(r) \in Brands
    BY ConstantFacts DEF LiveAt, BlockingAt
  <1>3. \A r, q \in LiveAt(s) : BrandOfRental(r) = BrandOfRental(q)
    BY <1>2, BlockingIsOneBrand DEF OneBrandPerSlot
  <1>4. \A r \in LiveAt(s) : TenantOf(s) = BrandOfRental(r)
    BY <1>1, <1>3
  <1>5. LiveAt(s) = {} => TenantOf(s) \in {Platform, Nobody}
    BY DEF TenantOf
  <1>6. ASSUME bottle[s] \in Brands PROVE TenantOf(s) = bottle[s]
    <2>1. PICK m \in Rentals : Owner(s, m)
      BY <1>6 DEF RentalsInv, StockIsOwned
    <2>2. m \in LiveAt(s)
      BY <2>1 DEF Owner, RentalsAt, Stocked, Stockable, LiveAt, BlockingAt, BLOCKING_STATUSES,
         Occupying
    <2> QED
      BY <1>4, <2>1, <2>2 DEF Owner
  <1> QED
    BY <1>1, <1>2, <1>4, <1>5, <1>6

(* What gives a slot is let go of, or was no one's, or stays while more is  *)
(* added: it never passes from one brand to another at once.                *)
LEMMA LivePasses ==
  ASSUME RentalsInv, [Next]_vars, NEW s \in Slots
  PROVE  \/ LiveAt(s) = {}
         \/ LiveAt(s)' \subseteq LiveAt(s)
         \/ LiveAt(s) \subseteq LiveAt(s)'
  <1> USE ConstantFacts DEF RentalsInv, LiveAt, BlockingAt
  <1>0. status \in [Rentals -> RentalStatuses \cup {"NONE"}]
    BY DEF TypeOK
  <1>1. CASE UNCHANGED <<status, place>>
    BY <1>1
  <1>2. ASSUME NEW new \in SUBSET Rentals, \A n \in new : status[n] \in {"DRAFT", "ACTIVE"},
               status' = TakeOver(new), UNCHANGED place
        PROVE  LiveAt(s)' \subseteq LiveAt(s)
    BY <1>2 DEF TakeOver, BLOCKING_STATUSES, Occupying
  <1>3. ASSUME NEW c \in Checkouts, NEW cart \in Carts[c], CreateCheckout(c, cart)
        PROVE  LiveAt(s) \subseteq LiveAt(s)'
    BY <1>3 DEF CreateCheckout, BLOCKING_STATUSES
  <1>4. ASSUME NEW r \in Rentals, NEW c \in Checkouts, Renew(r, c)
        PROVE  LiveAt(s) \subseteq LiveAt(s)'
    <2>1. /\ status' \in {status, [status EXCEPT ![<<c, place[r]>>] = "DRAFT"]}
          /\ UNCHANGED place
      BY <1>4 DEF Renew
    <2> QED
      BY <1>0, <2>1 DEF BLOCKING_STATUSES
  <1>5. ASSUME NEW c \in Checkouts, CancelCheckout(c) \/ CancelExpiredCheckout(c)
        PROVE  LiveAt(s)' \subseteq LiveAt(s)
    BY <1>5 DEF CancelCheckout, CancelExpiredCheckout, CloseCheckout, BLOCKING_STATUSES, Occupying
  <1>6. ASSUME NEW w \in settling, CommitSettle(w)
        PROVE  LiveAt(s)' \subseteq LiveAt(s)
    <2>1. w.renews \in SUBSET Rentals /\ \A n \in w.renews : status[n] = "DRAFT"
      BY DEF LockedIsHeld, TypeOK, Settling
    <2>2. status' \in {status, TakeOver(w.renews)} /\ UNCHANGED place
      BY <1>6 DEF CommitSettle
    <2> QED
      BY <1>2, <2>1, <2>2
  <1>7. ASSUME NEW r \in Rentals, HandOver(r)
        PROVE  LiveAt(s)' \subseteq LiveAt(s)
    <2>1. PICK n \in PaidRenewals(r) : status' = TakeOver({n}) /\ UNCHANGED place
      BY <1>7 DEF HandOver
    <2>2. n \in Rentals /\ status[n] \in {"DRAFT", "ACTIVE"}
      BY <2>1 DEF PaidRenewals
    <2> QED
      BY <1>2, <2>1, <2>2
  <1>8. ASSUME NEW r \in Rentals, AutoActivate(r) \/ ScanExpiring(r) \/ CommitGrace(r)
        PROVE  LiveAt(s)' \subseteq LiveAt(s)
    BY <1>8 DEF AutoActivate, CanStart, ScanExpiring, CommitGrace, EndingIsDue, IsDue,
       BLOCKING_STATUSES, Occupying, TypeOK
  <1>9. ASSUME NEW r \in Rentals, Liquidate(r)
        PROVE  LiveAt(s)' \subseteq LiveAt(s)
    <2>1. status' \in {status, [status EXCEPT ![r] = "LIQUIDATED"]} /\ UNCHANGED place
      BY <1>9 DEF Liquidate
    <2> QED
      BY <2>1 DEF BLOCKING_STATUSES, Occupying, TypeOK
  <1>10. ASSUME NEW r \in Rentals, Close(r) \/ Return(r)
         PROVE  LiveAt(s)' \subseteq LiveAt(s)
    <2>1. status' \in {status, [status EXCEPT ![r] = "CLOSED"]} /\ UNCHANGED place
      BY <1>10 DEF Close, Return
    <2> QED
      BY <2>1 DEF BLOCKING_STATUSES, Occupying, TypeOK
  <1>11. ASSUME NEW r \in Rentals, NEW t \in Slots, SwapSlot(r, t)
         PROVE  LiveAt(s) = {} \/ LiveAt(s)' \subseteq LiveAt(s)
    BY <1>11 DEF SwapSlot, TypeOK
  <1>12. ASSUME NEW t \in Slots, CloseRefill(t)
         PROVE  LiveAt(s)' \subseteq LiveAt(s)
    <2>1. UNCHANGED place /\ (status' = status \/ \E r \in Rentals :
                              CanStart(r) /\ status' = [status EXCEPT ![r] = "ACTIVE"])
      BY <1>12 DEF CloseRefill, StockableAt, RentalsAt
    <2> QED
      BY <2>1 DEF CanStart, BLOCKING_STATUSES, Occupying, TypeOK
  <1>13. CASE ~UNCHANGED <<status, place>>
    <2>1. Next
      BY <1>13 DEF vars
    <2>2. CASE Buying
      BY <1>3, <1>4, <1>5, <1>6, <1>13, <2>2 DEF Buying, AskRenewal, HoldExpires, PayCheckout,
         PaymentFails, RefundPayment, BeginSettle, LoseSettle, LoseRequest
    <2>3. CASE Renting
      BY <1>7, <1>8, <1>9, <1>10, <1>11, <1>13, <2>3 DEF Renting, PeriodEnds, BeginGrace,
         LoseGrace, GraceEnds, ExtendGrace, AskLiquidation, AskClose, Decline, Withdraw, AskReturn
    <2>4. CASE Stocking
      BY <1>12, <1>13, <2>4 DEF Stocking, OpenRefill, BottleEmpties, BottleDamaged
    <2> QED
      BY <2>1, <2>2, <2>3, <2>4 DEF Next
  <1> QED
    BY <1>1, <1>13

(* Goods come into a slot only by a refill, of a brand that has the slot.   *)
LEMMA BottleComesByRefill ==
  ASSUME RentalsInv, [Next]_vars, NEW s \in Slots, bottle'[s] \in Brands, bottle'[s] # bottle[s]
  PROVE  \E r \in LiveAt(s) : bottle'[s] = BrandOfRental(r)
  <1> USE ConstantFacts DEF RentalsInv
  <1>1. ~\E r \in Rentals : Liquidate(r) \/ Close(r) \/ Return(r)
    <2> SUFFICES ASSUME NEW r \in Rentals PROVE ~Liquidate(r) /\ ~Close(r) /\ ~Return(r)
      OBVIOUS
    <2>1. ~Liquidate(r)
      BY DEF Liquidate, TypeOK
    <2>2. ~Close(r)
      BY DEF Close, TypeOK
    <2>3. ~Return(r)
      BY DEF Return, TypeOK
    <2> QED
      BY <2>1, <2>2, <2>3
  <1>2. ~\E t \in Slots : BottleEmpties(t) \/ BottleDamaged(t)
    BY DEF BottleEmpties, BottleDamaged, TypeOK
  <1>3. PICK t \in Slots : CloseRefill(t)
    BY <1>1, <1>2 DEF vars, Next, Buying, Renting, Stocking, CreateCheckout, AskRenewal, Renew,
       HoldExpires, CancelCheckout, CancelExpiredCheckout, CloseCheckout, PayCheckout,
       PaymentFails, RefundPayment, BeginSettle, CommitSettle, LoseSettle, LoseRequest,
       AutoActivate, ScanExpiring, PeriodEnds, HandOver, BeginGrace, CommitGrace, LoseGrace, GraceEnds, ExtendGrace,
       AskLiquidation, AskClose, Decline, Withdraw, AskReturn, SwapSlot, OpenRefill
  <1>4. PICK r \in StockableAt(t) : bottle' = [bottle EXCEPT ![t] = BrandOfRental(r)]
    BY <1>3 DEF CloseRefill
  <1>5. s = t /\ bottle'[s] = BrandOfRental(r)
    BY <1>4 DEF TypeOK
  <1> QED
    BY <1>4, <1>5 DEF StockableAt, RentalsAt, Stockable, LiveAt, BlockingAt, BLOCKING_STATUSES,
       Occupying

(* The slots of the machine are let as Tenancy says, for any brands, slots, *)
(* checkouts and payments.                                                  *)
THEOREM RentalsImplementsTenancy == Spec => ImplementsTenancy
  <1>1. Init => T!Init
    BY ConstantFacts DEF Init, T!Init, TenantOf, LiveAt, BlockingAt, BLOCKING_STATUSES, Occupying
  <1>2. RentalsInv /\ RentalsInv' /\ [Next]_vars =>
          [T!Next]_<<[s \in Slots |-> TenantOf(s)],
                     [s \in Slots |-> IF bottle[s] \in Brands THEN bottle[s] ELSE Nobody]>>
    <2> SUFFICES ASSUME RentalsInv, RentalsInv', [Next]_vars PROVE T!Next
      OBVIOUS
    <2> DEFINE had(s) == TenantOf(s)
               has(s) == TenantOf(s)'
               were(s) == IF bottle[s] \in Brands THEN bottle[s] ELSE Nobody
               are(s) == IF bottle'[s] \in Brands THEN bottle'[s] ELSE Nobody
    <2>1. \A s \in Slots :
            /\ had(s) \in Brands \cup {Platform, Nobody}
            /\ LiveAt(s) = {} => had(s) \in {Platform, Nobody}
            /\ \A r \in LiveAt(s) : had(s) = BrandOfRental(r) /\ BrandOfRental(r) \in Brands
      BY TenantIsTheirs
    <2>2. RentalsInv' => \A s \in Slots :
            /\ has(s) \in Brands \cup {Platform, Nobody}
            /\ LiveAt(s)' = {} => has(s) \in {Platform, Nobody}
            /\ \A r \in LiveAt(s)' : has(s) = BrandOfRental(r) /\ BrandOfRental(r) \in Brands
            /\ bottle'[s] \in Brands => has(s) = bottle'[s]
      <3>1. RentalsInv' => (\A s \in Slots :
              /\ TenantOf(s) \in Brands \cup {Platform, Nobody}
              /\ LiveAt(s) = {} => TenantOf(s) \in {Platform, Nobody}
              /\ \A r \in LiveAt(s) : TenantOf(s) = BrandOfRental(r) /\ BrandOfRental(r) \in Brands
              /\ bottle[s] \in Brands => TenantOf(s) = bottle[s])'
        BY TenantIsTheirs, PTL
      <3> QED
        BY <3>1 DEF BrandOfRental
    <2>3. ASSUME NEW s \in Slots
          PROVE  T!Passes(had(s), has(s), were(s), are(s))
      <3>1. had(s) \in {Nobody, Platform} \/ has(s) \in {Nobody, Platform, had(s)}
        <4>1. LiveAt(s) # {} /\ LiveAt(s)' # {} => \E r \in LiveAt(s) : r \in LiveAt(s)'
          BY LivePasses
        <4> QED
          BY <2>1, <2>2, <4>1
      <3>2. are(s) \in {Nobody, has(s)}
        BY <2>2
      <3>3. are(s) \in {Nobody, were(s), had(s)}
        BY <2>1, BottleComesByRefill
      <3> HIDE DEF had, has, were, are
      <3> QED
        BY <3>1, <3>2, <3>3 DEF T!Passes
    <2>4. /\ [s \in Slots |-> has(s)] \in [Slots -> Brands \cup {Platform, Nobody}]
          /\ [s \in Slots |-> are(s)] \in [Slots -> Brands \cup {Nobody}]
      BY <2>2
    <2> QED
      BY <2>3, <2>4 DEF T!Next
  <1> QED
    BY <1>1, <1>2, RentalsInvariant, PTL DEF Spec, ImplementsTenancy, T!Spec
=============================================================================
