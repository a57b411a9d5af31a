---------------------------- MODULE Stock_proofs ----------------------------
(***************************************************************************)
(* Bottles, slots and refill requests, whatever staff, brands, customers   *)
(* and the end of rentals do to them in turn: what a slot sells is in it,  *)
(* and goods change hands once.                                            *)
(***************************************************************************)
EXTENDS Stock, FiniteSetTheorems, WellFoundedInduction, TLAPS

-----------------------------------------------------------------------------
(* The inductive invariant.                                                *)

RowsOK ==
  /\ status \in [Bottles -> BottleStatuses]
  /\ ml \in [Bottles -> Nat]
  /\ platforms \subseteq Bottles
  /\ listed \in [Bottles -> Slots \cup {None}]
  /\ DOMAIN paidFor = Bottles
  /\ active \in [Slots -> Bottles \cup {None}]
  /\ sprays \in [Slots -> Nat]
  /\ rental \in [Slots -> RentalStatuses]
  /\ handed \subseteq Slots /\ returned \subseteq Slots

(* A bottle is the platform's from the day it is taken over; it then is in *)
(* the slot of a rental that was liquidated, if it is in any, and nothing  *)
(* that was neither taken over nor given back is.                          *)
PlatformsAreSold ==
  /\ \A b \in Bottles : status[b] = "LIQUIDATED" => b \in platforms
  /\ \A b \in platforms : status[b] \in {"LIQUIDATED", "DAMAGED", "RETURNED_TO_BRAND"}
  /\ \A s \in Slots : active[s] # None =>
       /\ rental[s] # "CLOSED"
       /\ rental[s] = "LIQUIDATED" =>
            status[active[s]] \in {"EMPTY", "LIQUIDATED", "RETURNED_TO_BRAND"}
       /\ status[active[s]] = "LIQUIDATED" => rental[s] = "LIQUIDATED"

(* What a return lists stays out of the stock, and its rental is over.     *)
ListedIsOut ==
  \A b \in Bottles : listed[b] # None =>
    status[b] \in LostGoods /\ listed[b] \in Slots /\ rental[listed[b]] = "CLOSED"

(* What is given back is listed.                                           *)
ReturnedIsListed == \A b \in Bottles : status[b] = "RETURNED_TO_BRAND" => listed[b] \in Slots

StockInv ==
  /\ RowsOK
  /\ SlotHoldsGoods
  /\ PlatformsAreSold
  /\ ListedIsOut
  /\ ReturnedIsListed
  /\ CompensatedIsLost

(* There are no bottles at the start.                                      *)
LEMMA InitStockInv == Init => StockInv
  <1> SUFFICES ASSUME Init PROVE StockInv
    OBVIOUS
  <1> USE DEF Init
  <1>1. RowsOK
    BY DEF RowsOK, BottleStatuses, RentalStatuses
  <1>2. LeftBehind = {}
    BY DEF LeftBehind
  <1>3. InstalledIsInSlot
    BY <1>2, FS_EmptySet DEF InstalledIsInSlot
  <1>4. SlotHoldsGoods
    BY <1>3 DEF SlotHoldsGoods, SlotHoldsItsBottle, SlotShowsBottle, ActiveIsApproved
  <1>5. PlatformsAreSold /\ ListedIsOut /\ ReturnedIsListed /\ CompensatedIsLost
    BY DEF PlatformsAreSold, ListedIsOut, ReturnedIsListed, CompensatedIsLost
  <1> QED
    BY <1>1, <1>4, <1>5 DEF StockInv

-----------------------------------------------------------------------------
(* What an operation may do to goods that have changed hands.              *)
HandsKept ==
  /\ \A b \in platforms :
       b \in platforms' /\ status'[b] \in {"LIQUIDATED", "DAMAGED", "RETURNED_TO_BRAND"}
  /\ \A b \in Bottles :
       status[b] \in LostGoods => status'[b] \in LostGoods /\ (b \in platforms' => b \in platforms)
  /\ \A b \in Bottles :
       status[b] = "RETURNED_TO_BRAND" /\ listed[b] \in handed =>
         status'[b] = status[b] /\ paidFor'[b] = paidFor[b]

StockStep == StockInv' /\ HandsKept

(* Returns and the bottles they leave behind: no more of these than of     *)
(* those, as long as only a return leaves one.                             *)
LEMMA BehindIsFinite == RowsOK => IsFiniteSet(LeftBehind) /\ IsFiniteSet(returned)
  <1> SUFFICES ASSUME RowsOK PROVE IsFiniteSet(LeftBehind) /\ IsFiniteSet(returned)
    OBVIOUS
  <1>1. LeftBehind \in SUBSET Bottles /\ returned \in SUBSET Slots
    BY DEF LeftBehind, RowsOK
  <1> QED
    BY <1>1, FS_Subset, StockAssumptions

LEMMA NoneLeftBehind ==
  ASSUME RowsOK, InstalledIsInSlot, UNCHANGED returned, LeftBehind' \subseteq LeftBehind
  PROVE  InstalledIsInSlot'
  <1>1. IsFiniteSet(LeftBehind) /\ IsFiniteSet(returned)
    BY BehindIsFinite
  <1>2. Cardinality(LeftBehind') <= Cardinality(LeftBehind) /\ IsFiniteSet(LeftBehind')
    BY <1>1, FS_Subset
  <1>3. /\ Cardinality(LeftBehind) \in Nat /\ Cardinality(LeftBehind') \in Nat
        /\ Cardinality(returned) \in Nat
    BY <1>1, <1>2, FS_CardinalityType
  <1> QED
    BY <1>2, <1>3 DEF InstalledIsInSlot

LEMMA OneLeftBehind ==
  ASSUME RowsOK, InstalledIsInSlot, NEW s \in Slots \ returned, returned' = returned \cup {s},
         NEW b, LeftBehind' \subseteq LeftBehind \cup {b}
  PROVE  InstalledIsInSlot'
  <1>1. IsFiniteSet(LeftBehind) /\ IsFiniteSet(returned)
    BY BehindIsFinite
  <1>2. Cardinality(returned') = Cardinality(returned) + 1
    BY <1>1, FS_AddElement
  <1>3. /\ IsFiniteSet(LeftBehind \cup {b})
        /\ Cardinality(LeftBehind \cup {b}) \in {Cardinality(LeftBehind), Cardinality(LeftBehind) + 1}
    BY <1>1, FS_AddElement
  <1>4. Cardinality(LeftBehind') <= Cardinality(LeftBehind \cup {b}) /\ IsFiniteSet(LeftBehind')
    BY <1>3, FS_Subset
  <1>5. /\ Cardinality(LeftBehind) \in Nat /\ Cardinality(LeftBehind') \in Nat
        /\ Cardinality(returned) \in Nat
    BY <1>1, <1>4, FS_CardinalityType
  <1> QED
    BY <1>2, <1>3, <1>4, <1>5 DEF InstalledIsInSlot

(* Operations that leave the bottles, the slots' bottles and the papers of *)
(* both alone.                                                             *)
LEMMA DeskSteps ==
  ASSUME StockInv, UNCHANGED <<status, ml, platforms, listed, paidFor, returned, active, sprays>>,
         UNCHANGED batch \/ batch' = "APPROVED" \/ \A s \in Slots : active[s] = None,
         handed' \subseteq Slots,
         \/ UNCHANGED rental
         \/ /\ rental' \in [Slots -> RentalStatuses]
            /\ \A s \in Slots : rental'[s] \in {"LIQUIDATED", "CLOSED"} => rental'[s] = rental[s]
            /\ \A s \in Slots : rental[s] \in {"LIQUIDATED", "CLOSED"} => rental'[s] = rental[s]
  PROVE  StockStep
  <1> USE DEF StockInv
  <1>1. RowsOK'
    BY DEF RowsOK
  <1>2. SlotHoldsGoods'
    BY DEF SlotHoldsGoods, SlotHoldsItsBottle, InstalledIsInSlot, LeftBehind, SlotsOf,
       SlotShowsBottle, ActiveIsApproved
  <1>3. PlatformsAreSold'
    BY DEF PlatformsAreSold, RowsOK
  <1>4. ListedIsOut' /\ ReturnedIsListed'
    BY DEF ListedIsOut, ReturnedIsListed, RowsOK
  <1>5. CompensatedIsLost'
    BY DEF CompensatedIsLost, SlotsOf
  <1>6. HandsKept
    BY DEF HandsKept, PlatformsAreSold
  <1> QED
    BY <1>1, <1>2, <1>3, <1>4, <1>5, <1>6 DEF StockStep

(* Papers of a batch; a machine that waits, sprays nothing or is tended; a *)
(* rental that goes on, is declined, or whose return is handed over.       *)
LEMMA QuietSteps ==
  ASSUME StockInv,
         \/ SubmitAuthenticity \/ ReviewAuthenticity
         \/ \E s \in Slots : \/ Order(s) \/ Diagnose(s) \/ NoSpray(s) \/ SetSlotEnabled(s)
                             \/ RentalGoesOn(s) \/ Decline(s) \/ HandOver(s)
  PROVE  StockStep
  <1> USE DEF goods, papers, desk, lease
  <1>1. CASE SubmitAuthenticity \/ ReviewAuthenticity
    BY <1>1, DeskSteps DEF SubmitAuthenticity, ReviewAuthenticity, StockInv, RowsOK,
       SlotHoldsGoods, ActiveIsApproved
  <1>2. ASSUME NEW s \in Slots, \/ Order(s) \/ Diagnose(s) \/ NoSpray(s) \/ SetSlotEnabled(s)
                                \/ Decline(s) \/ HandOver(s)
        PROVE  StockStep
    BY <1>2, DeskSteps DEF Order, Diagnose, NoSpray, SetSlotEnabled, Decline, HandOver,
       StockInv, RowsOK
  <1>3. ASSUME NEW s \in Slots, RentalGoesOn(s) PROVE StockStep
    <2>1. PICK from, to \in RentalStatuses :
            /\ rental[s] = from /\ from \notin {"LIQUIDATED", "CLOSED"}
            /\ rental' = [rental EXCEPT ![s] = to] /\ to \notin {"LIQUIDATED", "CLOSED"}
      <3>1. PICK step \in {<<"DRAFT", "ACTIVE">>, <<"ACTIVE", "EXPIRING">>, <<"EXPIRING", "GRACE">>} :
              rental[s] = step[1] /\ rental' = [rental EXCEPT ![s] = step[2]]
        BY <1>3 DEF RentalGoesOn
      <3>2. /\ step[1] \in RentalStatuses \ {"LIQUIDATED", "CLOSED"}
            /\ step[2] \in RentalStatuses \ {"LIQUIDATED", "CLOSED"}
        BY DEF RentalStatuses
      <3> QED
        BY <3>1, <3>2
    <2>2. UNCHANGED <<goods, papers, active, sprays>>
      BY <1>3 DEF RentalGoesOn
    <2> QED
      BY <2>1, <2>2, DeskSteps DEF StockInv, RowsOK
  <1> QED
    BY <1>1, <1>2, <1>3

(* Requests and the sessions that answer them.                             *)
LEMMA RequestSteps ==
  ASSUME StockInv, NEW s \in Slots, RequestRefill(s) \/ AnswerRequest(s) \/ OpenRefill(s)
  PROVE  StockStep
  BY DeskSteps
  DEF goods, papers, lease, StockInv, RowsOK, RequestRefill, AnswerRequest, OpenRefill

-----------------------------------------------------------------------------
(* The operations that move bottles.                                       *)

(* What is left in a bottle is a number of sprays.                         *)
LEMMA Doses == ASSUME NEW x \in Nat PROVE x \div Dose \in Nat
  <1>1. Dose \in Nat \ {0}
    BY StockAssumptions
  <1> QED
    BY <1>1

(* A bottle in no slot may be anything but installed; so may none be that  *)
(* is in one.                                                              *)
LEMMA RegisterSteps ==
  ASSUME StockInv, NEW b \in Bottles, NEW v \in Volumes, RegisterBottle(b, v)
  PROVE  StockStep
  <1> USE DEF RegisterBottle, StockInv, RowsOK, papers, lease, desk
  <1>1. v \in Nat
    BY StockAssumptions
  <1>2. /\ \A s \in Slots : active[s] # b
        /\ listed[b] = None /\ paidFor[b] = Unpaid /\ b \notin platforms
    BY StockAssumptions DEF SlotHoldsGoods, SlotHoldsItsBottle, ListedIsOut, LostGoods,
       CompensatedIsLost, PlatformsAreSold
  <1>3. RowsOK'
    BY <1>1 DEF BottleStatuses
  <1>4. SlotHoldsItsBottle' /\ SlotShowsBottle' /\ ActiveIsApproved'
    BY <1>2 DEF SlotHoldsGoods, SlotHoldsItsBottle, SlotShowsBottle, ActiveIsApproved
  <1>5. LeftBehind' \subseteq LeftBehind
    BY DEF LeftBehind, SlotsOf
  <1>6. InstalledIsInSlot'
    BY <1>5, NoneLeftBehind DEF SlotHoldsGoods
  <1>7. PlatformsAreSold' /\ ListedIsOut' /\ ReturnedIsListed' /\ CompensatedIsLost'
    BY <1>2 DEF PlatformsAreSold, ListedIsOut, ReturnedIsListed, CompensatedIsLost, SlotsOf
  <1>8. HandsKept
    BY <1>2 DEF HandsKept, PlatformsAreSold, LostGoods
  <1> QED
    BY <1>3, <1>4, <1>6, <1>7, <1>8 DEF StockStep, SlotHoldsGoods

(* closeRefillSession: one bottle out, one in, the request completed.      *)
LEMMA CloseRefillSteps ==
  ASSUME StockInv, NEW s \in Slots, NEW b \in Bottles, CloseRefill(s, b)
  PROVE  StockStep
  <1> USE DEF CloseRefill, StockInv, RowsOK, papers, lease, desk
  <1>1. /\ \A t \in Slots : active[t] # b
        /\ b \notin platforms /\ listed[b] = None /\ paidFor[b] = Unpaid /\ batch = "APPROVED"
        /\ status[b] = "IN_STOCK"
    BY StockAssumptions DEF Installable, SlotHoldsGoods, SlotHoldsItsBottle, ListedIsOut,
       LostGoods, CompensatedIsLost
  <1>2. /\ status' \in [Bottles -> BottleStatuses]
        /\ status'[b] = "INSTALLED"
        /\ \A c \in Bottles \ {b} :
             \/ status'[c] = status[c]
             \/ /\ c = active[s] /\ status[c] \in {"INSTALLED", "LOW", "EMPTY"}
                /\ status'[c] \in {"IN_STOCK", "EMPTY"}
    BY <1>1 DEF Removed, BottleStatuses
  <1>3. /\ active[s] # None => status'[active[s]] \notin {"INSTALLED", "LOW"}
        /\ active[s] # b
    BY <1>1 DEF Removed, SlotHoldsGoods, SlotHoldsItsBottle
  <1>4. ml[b] \div Dose \in Nat
    BY Doses
  <1>5. RowsOK'
    BY <1>2, <1>4 DEF RentalStatuses
  <1>6. /\ active'[s] = b
        /\ \A t \in Slots : t # s =>
             /\ active'[t] = active[t] /\ rental'[t] = rental[t]
             /\ active[t] # None => /\ active[t] \in Bottles \ {b, active[s]}
                                    /\ status'[active[t]] = status[active[t]]
    BY <1>1, <1>2 DEF SlotHoldsGoods, SlotHoldsItsBottle
  <1>7. SlotHoldsItsBottle'
    BY <1>1, <1>2, <1>6, StockAssumptions DEF SlotHoldsGoods, SlotHoldsItsBottle
  <1>8. SlotShowsBottle' /\ ActiveIsApproved'
    BY <1>1 DEF SlotHoldsGoods, SlotShowsBottle, ActiveIsApproved
  <1>9. LeftBehind' \subseteq LeftBehind
    <2> SUFFICES ASSUME NEW c \in LeftBehind' PROVE c \in LeftBehind
      OBVIOUS
    <2>1. c \in Bottles /\ status'[c] \in {"INSTALLED", "LOW"} /\ \A t \in Slots : active'[t] # c
      BY DEF LeftBehind, SlotsOf
    <2>2. c # b
      BY <1>6, <2>1
    <2>3. c # active[s]
      BY <1>3, <2>1, StockAssumptions
    <2>4. status[c] = status'[c] /\ \A t \in Slots : active[t] # c
      BY <1>2, <1>6, <2>1, <2>2, <2>3
    <2> QED
      BY <2>1, <2>4 DEF LeftBehind, SlotsOf
  <1>10. InstalledIsInSlot'
    BY <1>9, NoneLeftBehind DEF SlotHoldsGoods
  <1>11. PlatformsAreSold'
    <2>1. \A c \in Bottles : status'[c] = "LIQUIDATED" => c \in platforms'
      BY <1>2 DEF PlatformsAreSold
    <2>2. \A c \in platforms' : status'[c] \in {"LIQUIDATED", "DAMAGED", "RETURNED_TO_BRAND"}
      BY <1>1, <1>2 DEF PlatformsAreSold
    <2>3. ASSUME NEW t \in Slots, active'[t] # None
          PROVE  /\ rental'[t] # "CLOSED"
                 /\ rental'[t] = "LIQUIDATED" =>
                      status'[active'[t]] \in {"EMPTY", "LIQUIDATED", "RETURNED_TO_BRAND"}
                 /\ status'[active'[t]] = "LIQUIDATED" => rental'[t] = "LIQUIDATED"
      BY <1>2, <1>6, <2>3 DEF PlatformsAreSold
    <2> QED
      BY <2>1, <2>2, <2>3 DEF PlatformsAreSold
  <1>12. ListedIsOut'
    BY <1>1, <1>2 DEF ListedIsOut, LostGoods
  <1>13. ReturnedIsListed'
    BY <1>2 DEF ReturnedIsListed
  <1>14. CompensatedIsLost'
    BY <1>1, <1>2, <1>6 DEF CompensatedIsLost, SlotsOf
  <1>15. HandsKept
    BY <1>1, <1>2 DEF HandsKept, PlatformsAreSold, LostGoods
  <1> QED
    BY <1>5, <1>7, <1>8, <1>10, <1>11, <1>12, <1>13, <1>14, <1>15 DEF StockStep, SlotHoldsGoods

(* consumeDose, when the command succeeds.                                 *)
LEMMA SpraySteps ==
  ASSUME StockInv, NEW s \in Slots, Spray(s)
  PROVE  StockStep
  <1> USE DEF Spray, StockInv, RowsOK, papers, lease, desk
  <1>1. CASE active[s] = None
    BY <1>1, DeskSteps
  <1>2. CASE active[s] # None
    <2> DEFINE b == active[s]
    <2>1. /\ b \in Bottles
          /\ status[b] \in {"INSTALLED", "LOW", "EMPTY", "LIQUIDATED", "RETURNED_TO_BRAND"}
          /\ \A t \in Slots : t # s => active[t] # b
      BY <1>2 DEF SlotHoldsGoods, SlotHoldsItsBottle
    <2>2. Left(b) \in Nat /\ Left(b) \div Dose \in Nat
      <3>1. Left(b) \in Nat
        BY <2>1, StockAssumptions DEF Left
      <3> QED
        BY <3>1, Doses
    <2>3. /\ ml' = [ml EXCEPT ![b] = Left(b)]
          /\ status' = [status EXCEPT ![b] = LevelOf(b)]
          /\ sprays' = [sprays EXCEPT ![s] = Left(b) \div Dose]
          /\ UNCHANGED <<batch, platforms, listed, paidFor, handed, returned, active, rental,
                         declined, session, request>>
      BY <1>2 DEF ConsumeDose
    <2>4. \/ LevelOf(b) = status[b]
          \/ status[b] \in {"INSTALLED", "LOW"} /\ LevelOf(b) \in {"LOW", "EMPTY"}
      BY <2>1 DEF LevelOf
    <2>5. RowsOK'
      BY <2>1, <2>2, <2>3, <2>4 DEF BottleStatuses
    <2>6. SlotHoldsItsBottle'
      BY <2>1, <2>3, <2>4 DEF SlotHoldsGoods, SlotHoldsItsBottle
    <2>7. SlotShowsBottle'
      BY <2>1, <2>2, <2>3 DEF SlotHoldsGoods, SlotShowsBottle
    <2>8. InstalledIsInSlot'
      <3>1. LeftBehind' \subseteq LeftBehind
        BY <2>1, <2>3, <2>4 DEF LeftBehind, SlotsOf
      <3> QED
        BY <2>3, <3>1, NoneLeftBehind DEF SlotHoldsGoods
    <2>9. SlotHoldsGoods'
      BY <2>3, <2>6, <2>7, <2>8 DEF SlotHoldsGoods, ActiveIsApproved
    <2>10. PlatformsAreSold'
      BY <2>1, <2>3, <2>4 DEF PlatformsAreSold
    <2>11. ListedIsOut' /\ ReturnedIsListed' /\ CompensatedIsLost'
      BY <2>1, <2>3, <2>4 DEF ListedIsOut, LostGoods, ReturnedIsListed, CompensatedIsLost, SlotsOf
    <2>12. HandsKept
      BY <2>1, <2>3, <2>4 DEF HandsKept, PlatformsAreSold, LostGoods
    <2> QED
      BY <2>5, <2>9, <2>10, <2>11, <2>12 DEF StockStep
  <1> QED
    BY <1>1, <1>2

(* markBottleDamaged, with what it pays.                                   *)
LEMMA DamageSteps ==
  ASSUME StockInv, NEW b \in Bottles, MarkDamaged(b)
  PROVE  StockStep
  <1> USE DEF MarkDamaged, StockInv, RowsOK, lease, desk
  <1>1. /\ DOMAIN paidFor' = Bottles
        /\ \A c \in Bottles : c # b => paidFor'[c] = paidFor[c]
        /\ b \in platforms => UNCHANGED paidFor
    BY DEF Compensate
  <1>2. RowsOK'
    BY <1>1 DEF BottleStatuses
  <1>3. SlotHoldsItsBottle' /\ SlotShowsBottle' /\ ActiveIsApproved'
    BY StockAssumptions DEF SlotHoldsGoods, SlotHoldsItsBottle, SlotShowsBottle, ActiveIsApproved
  <1>4. LeftBehind' \subseteq LeftBehind
    BY StockAssumptions DEF LeftBehind, SlotsOf
  <1>5. InstalledIsInSlot'
    BY <1>4, NoneLeftBehind DEF SlotHoldsGoods
  <1>6. PlatformsAreSold' /\ ListedIsOut' /\ ReturnedIsListed'
    BY DEF PlatformsAreSold, ListedIsOut, LostGoods, ReturnedIsListed
  <1>7. CompensatedIsLost'
    <2> SUFFICES ASSUME NEW c \in Bottles, paidFor'[c] # Unpaid
                 PROVE  /\ status'[c] \in {"DAMAGED", "RETURNED_TO_BRAND"} /\ c \notin platforms'
                        /\ \A s \in Slots : active'[s] # c
      BY DEF CompensatedIsLost, SlotsOf
    <2>1. CASE c = b
      <3>1. b \notin platforms
        BY <1>1, <2>1 DEF CompensatedIsLost
      <3> QED
        BY <2>1, <3>1, StockAssumptions
    <2>2. CASE c # b
      <3>1. /\ status[c] \in {"DAMAGED", "RETURNED_TO_BRAND"} /\ c \notin platforms
            /\ \A s \in Slots : active[s] # c
        BY <1>1, <2>2 DEF CompensatedIsLost, SlotsOf
      <3> QED
        BY <2>2, <3>1, StockAssumptions
    <2> QED
      BY <2>1, <2>2
  <1>8. HandsKept
    BY <1>1 DEF HandsKept, PlatformsAreSold, LostGoods, MayBeDamaged
  <1> QED
    BY <1>2, <1>3, <1>5, <1>6, <1>7, <1>8 DEF StockStep, SlotHoldsGoods

(* The end of a rental: the platform takes over what is in the slot, or    *)
(* the sold out bottle is taken out.                                       *)
LEMMA LiquidationSteps ==
  ASSUME StockInv, NEW s \in Slots, LiquidateRental(s)
  PROVE  StockStep
  <1> USE DEF StockInv, RowsOK, papers, desk, LiquidateRental
  <1>1. \A b \in TakenOver(s) :
          b \in Bottles /\ active[s] = b /\ status[b] \in {"INSTALLED", "LOW"}
    BY StockAssumptions DEF TakenOver, SlotHoldsGoods, SlotHoldsItsBottle
  <1>2. RowsOK'
    BY <1>1 DEF BottleStatuses, RentalStatuses
  <1>3. SlotHoldsItsBottle'
    BY <1>1, StockAssumptions DEF SlotHoldsGoods, SlotHoldsItsBottle
  <1>4. LeftBehind' \subseteq LeftBehind
    BY DEF LeftBehind, SlotsOf
  <1>5. InstalledIsInSlot'
    BY <1>4, NoneLeftBehind DEF SlotHoldsGoods
  <1>6. SlotHoldsGoods'
    BY <1>3, <1>5 DEF SlotHoldsGoods, SlotShowsBottle, ActiveIsApproved
  <1>7. PlatformsAreSold'
    <2>1. \A b \in Bottles : status'[b] = "LIQUIDATED" => b \in platforms'
      BY DEF PlatformsAreSold
    <2>2. \A b \in platforms' : status'[b] \in {"LIQUIDATED", "DAMAGED", "RETURNED_TO_BRAND"}
      BY <1>1 DEF PlatformsAreSold
    <2>3. ASSUME NEW t \in Slots, active'[t] # None
          PROVE  /\ rental'[t] # "CLOSED"
                 /\ rental'[t] = "LIQUIDATED" =>
                      status'[active'[t]] \in {"EMPTY", "LIQUIDATED", "RETURNED_TO_BRAND"}
                 /\ status'[active'[t]] = "LIQUIDATED" => rental'[t] = "LIQUIDATED"
      <3>1. CASE t = s
        <4>1. /\ active[s] \in Bottles
              /\ status[active[s]] \in {"INSTALLED", "LOW", "EMPTY", "LIQUIDATED", "RETURNED_TO_BRAND"}
          BY <2>3, <3>1 DEF SlotHoldsGoods, SlotHoldsItsBottle
        <4>2. status[active[s]] \in {"INSTALLED", "LOW"} => active[s] \in TakenOver(s)
          BY <4>1 DEF TakenOver, PlatformsAreSold
        <4> QED
          BY <3>1, <4>1, <4>2
      <3>2. CASE t # s
        <4>1. active[t] \in Bottles /\ active[t] \notin TakenOver(s)
          BY <1>1, <2>3, <3>2 DEF SlotHoldsGoods, SlotHoldsItsBottle
        <4> QED
          BY <2>3, <3>2, <4>1 DEF PlatformsAreSold
      <3> QED
        BY <3>1, <3>2
    <2> QED
      BY <2>1, <2>2, <2>3 DEF PlatformsAreSold
  <1>8. ListedIsOut' /\ ReturnedIsListed'
    BY <1>1 DEF ListedIsOut, LostGoods, ReturnedIsListed
  <1>9. CompensatedIsLost'
    BY <1>1 DEF CompensatedIsLost, SlotsOf
  <1>10. HandsKept
    BY <1>1 DEF HandsKept, PlatformsAreSold, LostGoods
  <1> QED
    BY <1>2, <1>6, <1>7, <1>8, <1>9, <1>10 DEF StockStep

LEMMA CloseSteps ==
  ASSUME StockInv, NEW s \in Slots, CloseRental(s)
  PROVE  StockStep
  <1> USE DEF StockInv, RowsOK, goods, papers, desk, CloseRental, Closable
  <1>1. RowsOK'
    BY DEF RentalStatuses
  <1>2. SlotHoldsItsBottle' /\ SlotShowsBottle' /\ ActiveIsApproved'
    BY StockAssumptions DEF SlotHoldsGoods, SlotHoldsItsBottle, SlotShowsBottle, ActiveIsApproved
  <1>3. LeftBehind' \subseteq LeftBehind
    BY DEF LeftBehind, SlotsOf, PlatformsAreSold
  <1>4. InstalledIsInSlot'
    BY <1>3, NoneLeftBehind DEF SlotHoldsGoods
  <1>5. PlatformsAreSold'
    BY DEF PlatformsAreSold
  <1>6. ListedIsOut' /\ ReturnedIsListed'
    BY DEF ListedIsOut, ReturnedIsListed
  <1>7. CompensatedIsLost'
    BY StockAssumptions DEF CompensatedIsLost, SlotsOf
  <1>8. HandsKept
    BY DEF HandsKept, PlatformsAreSold
  <1> QED
    BY <1>1, <1>2, <1>4, <1>5, <1>6, <1>7, <1>8 DEF StockStep, SlotHoldsGoods

(* createBottleReturn takes the bottle of the slot out, and gives back what *)
(* staff list, whatever and wherever it is.                                 *)
LEMMA ReturnSteps ==
  ASSUME StockInv, NEW s \in Slots, NEW bs \in SUBSET Bottles, CreateReturn(s, bs)
  PROVE  StockStep
  <1> USE DEF CreateReturn, StockInv, RowsOK, lease, desk
  <1>1. RowsOK'
    BY DEF BottleStatuses, RentalStatuses
  <1>2. SlotHoldsItsBottle'
    BY StockAssumptions DEF SlotHoldsGoods, SlotHoldsItsBottle
  <1>3. SlotShowsBottle' /\ ActiveIsApproved'
    BY DEF SlotHoldsGoods, SlotShowsBottle, ActiveIsApproved
  <1>4. LeftBehind' \subseteq LeftBehind \cup {active[s]}
    BY DEF LeftBehind, SlotsOf
  <1>5. InstalledIsInSlot'
    BY <1>4, OneLeftBehind DEF SlotHoldsGoods
  <1>6. PlatformsAreSold'
    BY DEF PlatformsAreSold
  <1>7. ListedIsOut' /\ ReturnedIsListed'
    BY DEF ListedIsOut, LostGoods, ReturnedIsListed
  <1>8. CompensatedIsLost'
    BY StockAssumptions DEF CompensatedIsLost, SlotsOf
  <1>9. HandsKept
    BY DEF HandsKept, PlatformsAreSold, LostGoods
  <1> QED
    BY <1>1, <1>2, <1>3, <1>5, <1>6, <1>7, <1>8, <1>9 DEF StockStep, SlotHoldsGoods

(* StockInv is inductive, and no step undoes a change of hands.            *)
LEMMA StockSteps ==
  ASSUME StockInv, [Next]_vars
  PROVE  StockStep
  <1>1. CASE UNCHANGED vars
    BY <1>1, DeskSteps DEF vars, goods, papers, lease, StockInv, RowsOK
  <1>2. CASE Keeping
    BY <1>2, QuietSteps, DamageSteps, RegisterSteps DEF Keeping
  <1>3. CASE Refilling
    BY <1>3, RequestSteps, CloseRefillSteps DEF Refilling
  <1>4. CASE Selling
    BY <1>4, QuietSteps, SpraySteps DEF Selling
  <1>5. CASE Ending
    BY <1>5, QuietSteps, LiquidationSteps, CloseSteps, ReturnSteps DEF Ending
  <1> QED
    BY <1>1, <1>2, <1>3, <1>4, <1>5 DEF Next

-----------------------------------------------------------------------------
(* For any number of bottles, slots and rentals, StockInv holds.           *)
THEOREM StockSafety == Spec => []StockInv
  <1>1. Init => StockInv
    BY InitStockInv
  <1>2. StockInv /\ [Next]_vars => StockInv'
    BY StockSteps DEF StockStep
  <1> QED
    BY <1>1, <1>2, PTL DEF Spec

(* A slot holds a bottle of its own, as many doses as it shows, approved;  *)
(* what counts as installed is in a slot or was left behind by a return.   *)
THEOREM StockSlotHoldsGoods == Spec => []SlotHoldsGoods
  <1>1. StockInv => SlotHoldsGoods
    BY DEF StockInv
  <1> QED
    BY <1>1, StockSafety, PTL

(* A bottle that was paid for was the brand's, and is sold to nobody.      *)
THEOREM StockCompensatedIsLost == Spec => []CompensatedIsLost
  <1>1. StockInv => CompensatedIsLost
    BY DEF StockInv
  <1> QED
    BY <1>1, StockSafety, PTL

(* What the platform took over it keeps, what was given back or damaged is *)
(* not sold again, and what was handed over is not paid for, whatever      *)
(* returns list.                                                           *)
THEOREM StockGoodsChangeHandsOnce == Spec => GoodsChangeHandsOnce
  <1>1. StockInv /\ [Next]_vars =>
          /\ [\A b \in platforms :
                b \in platforms' /\ status'[b] \in {"LIQUIDATED", "DAMAGED", "RETURNED_TO_BRAND"}]_vars
          /\ [\A b \in Bottles :
                status[b] \in LostGoods =>
                  status'[b] \in LostGoods /\ (b \in platforms' => b \in platforms)]_vars
          /\ [\A b \in Bottles :
                status[b] = "RETURNED_TO_BRAND" /\ listed[b] \in handed =>
                  status'[b] = status[b] /\ paidFor'[b] = paidFor[b]]_vars
    BY StockSteps DEF StockStep, HandsKept
  <1> QED
    BY <1>1, StockSafety, PTL
    DEF Spec, GoodsChangeHandsOnce, PlatformKeeps, LostForGood, HandedOverIsGone

-----------------------------------------------------------------------------
(* Sums over finite sets of bottles.  The library's inductions are stated   *)
(* for an operator; here a smallest set of which a claim is false is taken. *)

Total(pf, S) == MapThenSumSet(LAMBDA b : pf[b].amount, S)

(* What MapThenSumSet adds up, subset by subset.                           *)
AddsUp(iter, pf, S) ==
  iter = [T \in SUBSET S |->
            IF T = {} THEN 0
            ELSE LET x == CHOOSE y \in T : TRUE IN pf[x].amount + iter[T \ {x}]]

LEMMA SmallestSet ==
  ASSUME NEW S, IsFiniteSet(S), NEW F, F \subseteq SUBSET S, F # {}
  PROVE  \E T \in F : \A U \in F : U \subseteq T => U = T
  <1>1. IsWellFoundedOn(StrictSubsetOrdering(S), SUBSET S)
    BY FS_StrictSubsetOrderingWellFounded, FS_FiniteSubsetsOfFinite
  <1>2. PICK T \in F : \A U \in F : ~(<<U, T>> \in StrictSubsetOrdering(S))
    BY <1>1, WFMin
  <1> QED
    BY <1>2 DEF StrictSubsetOrdering

LEMMA TotalIsChosen ==
  ASSUME NEW pf, NEW S
  PROVE  Total(pf, S) = (CHOOSE iter : AddsUp(iter, pf, S))[S]
  BY DEF Total, MapThenSumSet, MapThenFoldSet, AddsUp

LEMMA AddsUpOnce ==
  ASSUME NEW pf, NEW S, IsFiniteSet(S), NEW i, NEW j, AddsUp(i, pf, S), AddsUp(j, pf, S)
  PROVE  i = j
  <1>1. \A T \in SUBSET S :
          i[T] = IF T = {} THEN 0 ELSE LET x == CHOOSE y \in T : TRUE IN pf[x].amount + i[T \ {x}]
    BY DEF AddsUp
  <1>2. \A T \in SUBSET S :
          j[T] = IF T = {} THEN 0 ELSE LET x == CHOOSE y \in T : TRUE IN pf[x].amount + j[T \ {x}]
    BY DEF AddsUp
  <1>3. \A T \in SUBSET S : i[T] = j[T]
    <2> DEFINE F == {T \in SUBSET S : i[T] # j[T]}
    <2> SUFFICES ASSUME F # {} PROVE FALSE
      OBVIOUS
    <2>1. PICK T \in F : \A U \in F : U \subseteq T => U = T
      <3>1. F \subseteq SUBSET S
        OBVIOUS
      <3> HIDE DEF F
      <3> QED
        BY <3>1, SmallestSet
    <2> DEFINE x == CHOOSE y \in T : TRUE
    <2>2. T # {}
      BY <1>1, <1>2, <2>1
    <2>3. x \in T
      BY <2>2
    <2>4. i[T \ {x}] = j[T \ {x}]
      BY <2>1, <2>3
    <2>5. i[T] = pf[x].amount + i[T \ {x}]
      BY <1>1, <2>2
    <2>6. j[T] = pf[x].amount + j[T \ {x}]
      BY <1>2, <2>2
    <2> QED
      BY <2>1, <2>4, <2>5, <2>6
  <1>4. DOMAIN i = SUBSET S /\ DOMAIN j = SUBSET S
    BY DEF AddsUp
  <1>5. i = [T \in SUBSET S |-> i[T]] /\ j = [T \in SUBSET S |-> j[T]]
    BY DEF AddsUp
  <1> QED
    BY <1>3, <1>5

(* The sum of a set is what its first member adds to the sum of the rest.  *)
LEMMA TotalStep ==
  ASSUME NEW pf, NEW S, IsFiniteSet(S)
  PROVE  Total(pf, S) =
           IF S = {} THEN 0
           ELSE LET x == CHOOSE y \in S : TRUE IN pf[x].amount + Total(pf, S \ {x})
  <1> DEFINE first(T) == CHOOSE y \in T : TRUE
             step(T) == IF T = {} THEN 0 ELSE pf[first(T)].amount + Total(pf, T \ {first(T)})
  <1> SUFFICES \A T \in SUBSET S : Total(pf, T) = step(T)
    OBVIOUS
  <1> DEFINE F == {T \in SUBSET S : Total(pf, T) # step(T)}
  <1> SUFFICES ASSUME F # {} PROVE FALSE
    OBVIOUS
  <1>1. PICK T \in F : \A U \in F : U \subseteq T => U = T
    <2>1. F \subseteq SUBSET S
      OBVIOUS
    <2> HIDE DEF F
    <2> QED
      BY <2>1, SmallestSet
  <1>2. IsFiniteSet(T)
    BY FS_Subset
  <1> DEFINE g == [U \in SUBSET T |-> IF U = T THEN step(T) ELSE Total(pf, U)]
  <1>3. \A U \in SUBSET T : U # {} => first(U) \in U
    OBVIOUS
  <1>4. AddsUp(g, pf, T)
    <2> HIDE DEF first
    <2>1. ASSUME NEW U \in SUBSET T
          PROVE  g[U] = IF U = {} THEN 0 ELSE pf[first(U)].amount + g[U \ {first(U)}]
      <3>1. CASE U = {}
        BY <1>1, <3>1
      <3>2. CASE U # {}
        <4>1. U \ {first(U)} \in SUBSET T /\ U \ {first(U)} # T
          BY <1>3, <3>2
        <4>2. g[U \ {first(U)}] = Total(pf, U \ {first(U)})
          BY <4>1
        <4>3. g[U] = step(U)
          BY <1>1
        <4> QED
          BY <3>2, <4>2, <4>3
      <3> QED
        BY <3>1, <3>2
    <2>2. g = [U \in SUBSET T |-> g[U]]
      OBVIOUS
    <2> HIDE DEF g
    <2>3. g = [U \in SUBSET T |-> IF U = {} THEN 0 ELSE pf[first(U)].amount + g[U \ {first(U)}]]
      BY <2>1, <2>2
    <2> USE DEF first
    <2> QED
      BY <2>3 DEF AddsUp
  <1>5. Total(pf, T) = g[T]
    <2> HIDE DEF g
    <2> DEFINE c == CHOOSE iter : AddsUp(iter, pf, T)
    <2>1. AddsUp(c, pf, T)
      BY <1>4
    <2> HIDE DEF c
    <2>2. c = g
      BY <1>2, <1>4, <2>1, AddsUpOnce
    <2> USE DEF c
    <2> QED
      BY <2>2, TotalIsChosen
  <1> QED
    BY <1>1, <1>5

LEMMA TotalIsNat ==
  ASSUME NEW pf, NEW S, IsFiniteSet(S), \A b \in S : pf[b].amount \in Nat
  PROVE  Total(pf, S) \in Nat
  <1> DEFINE F == {T \in SUBSET S : Total(pf, T) \notin Nat}
  <1> SUFFICES ASSUME F # {} PROVE FALSE
    OBVIOUS
  <1>1. PICK T \in F : \A U \in F : U \subseteq T => U = T
    <2>1. F \subseteq SUBSET S
      OBVIOUS
    <2> HIDE DEF F
    <2> QED
      BY <2>1, SmallestSet
  <1> DEFINE x == CHOOSE y \in T : TRUE
  <1>2. Total(pf, T) = IF T = {} THEN 0 ELSE pf[x].amount + Total(pf, T \ {x})
    BY TotalStep, FS_Subset
  <1>3. T # {} => x \in T
    OBVIOUS
  <1> HIDE DEF x
  <1>4. T # {} => Total(pf, T \ {x}) \in Nat /\ pf[x].amount \in Nat
    BY <1>1, <1>3
  <1> QED
    BY <1>1, <1>2, <1>4

(* Any member may be counted first.                                        *)
LEMMA TotalWithout ==
  ASSUME NEW pf, NEW S, IsFiniteSet(S), \A b \in S : pf[b].amount \in Nat, NEW b \in S
  PROVE  Total(pf, S) = pf[b].amount + Total(pf, S \ {b})
  <1> DEFINE Sums(T, c) == Total(pf, T) = pf[c].amount + Total(pf, T \ {c})
             F == {T \in SUBSET S : \E c \in T : ~Sums(T, c)}
  <1> SUFFICES ASSUME F # {} PROVE FALSE
    OBVIOUS
  <1>1. PICK T \in F : \A U \in F : U \subseteq T => U = T
    <2>1. F \subseteq SUBSET S
      OBVIOUS
    <2> HIDE DEF F
    <2> QED
      BY <2>1, SmallestSet
  <1>2. PICK c \in T : ~Sums(T, c)
    BY <1>1
  <1> DEFINE x == CHOOSE y \in T : TRUE
  <1>3. Sums(T, x)
    BY <1>2, TotalStep, FS_Subset
  <1>4. x \in T /\ x # c
    BY <1>2, <1>3
  <1> HIDE DEF x
  <1>5. /\ Total(pf, T \ {x}) = pf[c].amount + Total(pf, (T \ {x}) \ {c})
        /\ Total(pf, T \ {c}) = pf[x].amount + Total(pf, (T \ {c}) \ {x})
    <2>1. T \ {x} \in SUBSET S /\ T \ {c} \in SUBSET S
      BY <1>1
    <2>2. T \ {x} # T /\ T \ {c} # T
      BY <1>2, <1>4
    <2>3. T \ {x} \notin F /\ T \ {c} \notin F
      <3> HIDE DEF F
      <3> QED
        BY <1>1, <2>2
    <2>4. c \in T \ {x} /\ x \in T \ {c}
      BY <1>2, <1>4
    <2>5. Sums(T \ {x}, c) /\ Sums(T \ {c}, x)
      <3> HIDE DEF Sums
      <3> QED
        BY <2>1, <2>3, <2>4
    <2> QED
      BY <2>5
  <1>6. (T \ {x}) \ {c} = (T \ {c}) \ {x}
    OBVIOUS
  <1>7. /\ pf[x].amount \in Nat /\ pf[c].amount \in Nat
        /\ Total(pf, (T \ {c}) \ {x}) \in Nat
    <2>1. x \in S /\ c \in S
      BY <1>1, <1>2, <1>4
    <2>2. IsFiniteSet((T \ {c}) \ {x}) /\ \A d \in (T \ {c}) \ {x} : pf[d].amount \in Nat
      BY <1>1, FS_Subset
    <2> QED
      BY <2>1, <2>2, TotalIsNat
  <1>8. Total(pf, T) = pf[x].amount + (pf[c].amount + Total(pf, (T \ {c}) \ {x}))
    BY <1>3, <1>5, <1>6
  <1>9. pf[c].amount + Total(pf, T \ {c}) = pf[c].amount + (pf[x].amount + Total(pf, (T \ {c}) \ {x}))
    BY <1>5
  <1>10. Total(pf, T) # pf[c].amount + Total(pf, T \ {c})
    BY <1>2
  <1> HIDE DEF F, Sums
  <1> QED
    BY <1>7, <1>8, <1>9, <1>10

(* What is not in the set does not count.                                  *)
LEMMA TotalSame ==
  ASSUME NEW pf, NEW qf, NEW S, IsFiniteSet(S), \A b \in S : pf[b].amount = qf[b].amount
  PROVE  Total(pf, S) = Total(qf, S)
  <1> DEFINE F == {T \in SUBSET S : Total(pf, T) # Total(qf, T)}
  <1> SUFFICES ASSUME F # {} PROVE FALSE
    OBVIOUS
  <1>1. PICK T \in F : \A U \in F : U \subseteq T => U = T
    <2>1. F \subseteq SUBSET S
      OBVIOUS
    <2> HIDE DEF F
    <2> QED
      BY <2>1, SmallestSet
  <1> DEFINE x == CHOOSE y \in T : TRUE
  <1>2. /\ Total(pf, T) = IF T = {} THEN 0 ELSE pf[x].amount + Total(pf, T \ {x})
        /\ Total(qf, T) = IF T = {} THEN 0 ELSE qf[x].amount + Total(qf, T \ {x})
    BY TotalStep, FS_Subset
  <1>3. T # {} => x \in T
    OBVIOUS
  <1> HIDE DEF x
  <1>4. T # {} => Total(pf, T \ {x}) = Total(qf, T \ {x}) /\ pf[x].amount = qf[x].amount
    BY <1>1, <1>3
  <1> QED
    BY <1>1, <1>2, <1>4

-----------------------------------------------------------------------------
(* The coverage of a rental.                                               *)

CoveredBy(pf, s) == {b \in Bottles : pf[b].rental = s}

(* The compensations of a rental are amounts, and stay within its cap.     *)
CoverageInv ==
  /\ DOMAIN paidFor = Bottles
  /\ \A b \in Bottles : paidFor[b].rental \in Slots => paidFor[b].amount \in Nat
  /\ CoverageWithinCap

LEMMA UsedIsTotal ==
  \A s \in Slots : Used(s) = Total(paidFor, CoveredBy(paidFor, s))
  BY DEF Used, Total, CoveredBy

LEMMA InitCoverageInv == Init => CoverageInv
  <1> SUFFICES ASSUME Init PROVE CoverageInv
    OBVIOUS
  <1>1. \A s \in Slots : CoveredBy(paidFor, s) = {}
    BY StockAssumptions DEF Init, Unpaid, CoveredBy
  <1>2. \A s \in Slots : Used(s) = 0
    BY <1>1, UsedIsTotal, TotalStep, FS_EmptySet
  <1> QED
    BY <1>2, StockAssumptions DEF Init, Unpaid, CoverageInv, CoverageWithinCap

(* A bottle is compensated once, and with no more than is left of the cap. *)
LEMMA CompensateKeepsCoverage ==
  ASSUME CoverageInv, NEW b \in Bottles, Compensate(b)
  PROVE  CoverageInv'
  <1> USE StockAssumptions DEF CoverageInv, CoverageWithinCap
  <1>1. (\A s \in Slots : Used(s) = Total(paidFor, CoveredBy(paidFor, s)))'
    BY UsedIsTotal, PTL
  <1>2. \A s \in Slots : Used(s)' = Total(paidFor', CoveredBy(paidFor', s))
    BY <1>1 DEF CoveredBy
  <1>3. CASE UNCHANGED paidFor
    <2>1. \A s \in Slots : Used(s)' = Used(s)
      BY <1>2, <1>3, UsedIsTotal
    <2> QED
      BY <1>3, <2>1
  <1>4. ASSUME NEW r \in Covering(b), paidFor[b] = Unpaid,
               paidFor' = [paidFor EXCEPT ![b] = [rental |-> r, amount |-> Owed(r)]]
        PROVE  CoverageInv'
    <2>1. \A s \in Slots :
            /\ IsFiniteSet(CoveredBy(paidFor, s)) /\ b \notin CoveredBy(paidFor, s)
            /\ CoveredBy(paidFor', s) = IF s = r THEN CoveredBy(paidFor, s) \cup {b}
                                        ELSE CoveredBy(paidFor, s)
      <3>1. \A s \in Slots : CoveredBy(paidFor, s) \in SUBSET Bottles
        BY DEF CoveredBy
      <3>2. \A s \in Slots : IsFiniteSet(CoveredBy(paidFor, s))
        BY <3>1, FS_Subset
      <3> QED
        BY <1>4, <3>2 DEF CoveredBy, Unpaid
    <2>2. /\ paidFor'[b] = [rental |-> r, amount |-> Owed(r)]
          /\ \A c \in Bottles : c # b => paidFor'[c] = paidFor[c]
      BY <1>4
    <2>3. ASSUME NEW s \in Slots PROVE Total(paidFor, CoveredBy(paidFor, s)) \in Nat
      BY <2>1, TotalIsNat DEF CoveredBy
    <2>4. ASSUME NEW s \in Slots
          PROVE  Total(paidFor', CoveredBy(paidFor, s)) = Total(paidFor, CoveredBy(paidFor, s))
      <3>1. \A c \in CoveredBy(paidFor, s) : paidFor'[c].amount = paidFor[c].amount
        BY <2>1, <2>2 DEF CoveredBy
      <3> QED
        BY <2>1, <3>1, TotalSame
    <2>5. r \in Slots => Owed(r) \in Nat /\ Owed(r) + Used(r) <= Cap
      BY <2>3, UsedIsTotal DEF Owed
    <2>6. ASSUME NEW s \in Slots PROVE Used(s)' <= Cap
      <3>1. CASE s # r
        BY <1>2, <2>1, <2>4, <3>1, UsedIsTotal
      <3>2. CASE s = r
        <4> DEFINE S == CoveredBy(paidFor, s)
        <4>1. IsFiniteSet(S \cup {b}) /\ (S \cup {b}) \ {b} = S
          BY <2>1, FS_AddElement
        <4>2. \A c \in S \cup {b} : paidFor'[c].amount \in Nat
          BY <2>1, <2>2, <2>5, <3>2 DEF CoveredBy
        <4>3. Total(paidFor', S \cup {b}) = paidFor'[b].amount + Total(paidFor', S)
          BY <4>1, <4>2, TotalWithout
        <4>4. Used(s)' = Total(paidFor', S \cup {b}) /\ Used(s) = Total(paidFor, S)
          BY <1>2, <2>1, <3>2, UsedIsTotal
        <4>5. paidFor'[b].amount = Owed(r) /\ Total(paidFor', S) = Total(paidFor, S)
          BY <2>2, <2>4
        <4>6. Used(s)' = Owed(r) + Used(s)
          BY <4>3, <4>4, <4>5
        <4> QED
          BY <2>5, <3>2, <4>6
      <3> QED
        BY <3>1, <3>2
    <2>7. \A c \in Bottles : paidFor'[c].rental \in Slots => paidFor'[c].amount \in Nat
      BY <2>2, <2>5
    <2> QED
      BY <1>4, <2>6, <2>7
  <1> QED
    BY <1>3, <1>4 DEF Compensate

LEMMA NextKeepsCoverage == CoverageInv /\ [Next]_vars => CoverageInv'
  <1> SUFFICES ASSUME CoverageInv, [Next]_vars PROVE CoverageInv'
    OBVIOUS
  <1>1. CASE \E b \in Bottles : MarkDamaged(b)
    BY <1>1, CompensateKeepsCoverage DEF MarkDamaged
  <1>2. CASE UNCHANGED paidFor
    <2>1. (\A s \in Slots : Used(s) = Total(paidFor, CoveredBy(paidFor, s)))'
      BY UsedIsTotal, PTL
    <2>2. \A s \in Slots : Used(s)' = Total(paidFor', CoveredBy(paidFor', s))
      BY <2>1 DEF CoveredBy
    <2>3. \A s \in Slots : Used(s)' = Used(s)
      BY <1>2, <2>2, UsedIsTotal
    <2> QED
      BY <1>2, <2>3 DEF CoverageInv, CoverageWithinCap
  <1>3. UNCHANGED paidFor \/ \E b \in Bottles : MarkDamaged(b)
    BY DEF vars, papers, Next, Keeping, Refilling, Selling, Ending, SubmitAuthenticity,
       ReviewAuthenticity, RegisterBottle, RequestRefill, AnswerRequest, OpenRefill, CloseRefill,
       Order, Diagnose, Spray, NoSpray, SetSlotEnabled, RentalGoesOn, Decline, LiquidateRental,
       CloseRental, HandOver, CreateReturn
  <1> QED
    BY <1>1, <1>2, <1>3

(* Whatever is damaged, and however returns are listed, a rental is never  *)
(* compensated beyond its cap.                                             *)
THEOREM StockCoverageWithinCap == Spec => []CoverageWithinCap
  <1>1. CoverageInv => CoverageWithinCap
    BY DEF CoverageInv
  <1> QED
    BY <1>1, InitCoverageInv, NextKeepsCoverage, PTL DEF Spec

-----------------------------------------------------------------------------
(* Types, and that a bottle counts as given back when a return lists it.    *)

TypeInv == TypeOK /\ ReturnedIsListed

(* What a compensation adds is an amount of a rental that is there.        *)
LEMMA CompensateKeepsTypes ==
  ASSUME TypeInv, CoverageInv, NEW b \in Bottles, Compensate(b)
  PROVE  paidFor' \in [Bottles -> [rental : Slots \cup {None}, amount : 0..Cap]]
  <1> USE StockAssumptions DEF TypeInv, TypeOK, ReturnedIsListed
  <1>1. ASSUME NEW r \in Covering(b),
               ~(b \in platforms \/ status[b] \in {"LIQUIDATED", "EMPTY"}),
               paidFor' = [paidFor EXCEPT ![b] = [rental |-> r, amount |-> Owed(r)]]
        PROVE  paidFor' \in [Bottles -> [rental : Slots \cup {None}, amount : 0..Cap]]
    <2>1. r \in Slots
      BY DEF Covering, SlotsOf
    <2>2. IsFiniteSet(CoveredBy(paidFor, r))
      <3>1. CoveredBy(paidFor, r) \in SUBSET Bottles
        BY DEF CoveredBy
      <3> QED
        BY <3>1, FS_Subset
    <2>3. Total(paidFor, CoveredBy(paidFor, r)) \in Nat
      BY <2>2, TotalIsNat DEF CoveredBy
    <2>4. Used(r) \in 0..Cap
      BY <2>1, <2>3, UsedIsTotal DEF CoverageInv, CoverageWithinCap
    <2>5. Owed(r) \in 0..Cap
      BY <2>4 DEF Owed
    <2> QED
      BY <1>1, <2>1, <2>5
  <1> QED
    BY <1>1 DEF Compensate

LEMMA KeepingKeepsTypes == TypeInv /\ CoverageInv /\ Keeping => TypeInv'
  <1> SUFFICES ASSUME TypeInv, CoverageInv, Keeping PROVE TypeInv'
    OBVIOUS
  <1> USE StockAssumptions DEF TypeInv, TypeOK, ReturnedIsListed, papers, lease, desk
  <1>1. CASE SubmitAuthenticity \/ ReviewAuthenticity
    BY <1>1 DEF SubmitAuthenticity, ReviewAuthenticity
  <1>2. ASSUME NEW b \in Bottles, MarkDamaged(b) PROVE TypeInv'
    <2>1. paidFor' \in [Bottles -> [rental : Slots \cup {None}, amount : 0..Cap]]
      BY <1>2, CompensateKeepsTypes DEF MarkDamaged
    <2> QED
      BY <1>2, <2>1 DEF MarkDamaged, BottleStatuses
  <1>3. ASSUME NEW b \in Bottles, NEW v \in Volumes, RegisterBottle(b, v) PROVE TypeInv'
    BY <1>3 DEF RegisterBottle, BottleStatuses
  <1> QED
    BY <1>1, <1>2, <1>3 DEF Keeping

LEMMA RefillingKeepsTypes == TypeInv /\ Refilling => TypeInv'
  <1> SUFFICES ASSUME TypeInv, NEW s \in Slots,
                      \/ RequestRefill(s) \/ AnswerRequest(s) \/ OpenRefill(s)
                      \/ \E b \in Bottles : CloseRefill(s, b)
               PROVE  TypeInv'
    BY DEF Refilling
  <1> USE StockAssumptions DEF TypeInv, TypeOK, ReturnedIsListed, goods, papers, lease, SetRequest
  <1> DEFINE rows == [Slots -> [status : RequestStatuses, linked : BOOLEAN]]
  <1>0. ASSUME NEW to \in RequestStatuses, NEW linked \in BOOLEAN, SetRequest(s, to, linked)
        PROVE  request' \in rows
    BY <1>0
  <1>1. CASE RequestRefill(s) \/ AnswerRequest(s)
    <2>1. request' \in rows
      <3>1. request[s].linked \in BOOLEAN /\ "SUBMITTED" \in RequestStatuses
        BY DEF RequestStatuses
      <3> HIDE DEF rows, SetRequest
      <3>2. CASE RequestRefill(s)
        BY <1>0, <3>1, <3>2 DEF RequestRefill
      <3>3. CASE AnswerRequest(s)
        BY <1>0, <3>1, <3>3 DEF AnswerRequest
      <3> QED
        BY <1>1, <3>2, <3>3
    <2> QED
      BY <1>1, <2>1 DEF RequestRefill, AnswerRequest
  <1>2. CASE OpenRefill(s)
    <2>1. request' \in rows
      <3>1. request[s].status \in RequestStatuses /\ request \in rows
        OBVIOUS
      <3> HIDE DEF rows, SetRequest
      <3> QED
        BY <1>0, <1>2, <3>1 DEF OpenRefill
    <2> QED
      BY <1>2, <2>1 DEF OpenRefill
  <1>3. ASSUME NEW b \in Bottles, CloseRefill(s, b) PROVE TypeInv'
    <2>1. /\ status' \in [Bottles -> BottleStatuses]
          /\ \A c \in Bottles : status'[c] = "RETURNED_TO_BRAND" => status[c] = "RETURNED_TO_BRAND"
      BY <1>3 DEF CloseRefill, Removed, BottleStatuses
    <2>2. ml[b] \div Dose \in Nat
      BY Doses
    <2>3. request' \in rows
      <3>1. "COMPLETED" \in RequestStatuses /\ request \in rows
        BY DEF RequestStatuses
      <3> HIDE DEF rows, SetRequest
      <3> QED
        BY <1>0, <1>3, <3>1 DEF CloseRefill
    <2>4. /\ active' \in [Slots -> Bottles \cup {None}] /\ sprays' \in [Slots -> Nat]
          /\ rental' \in [Slots -> RentalStatuses] /\ session' \subseteq Slots
          /\ UNCHANGED <<batch, ml, platforms, papers, onSale, declined, spraying>>
      BY <1>3, <2>2 DEF CloseRefill, RentalStatuses
    <2> QED
      BY <2>1, <2>3, <2>4
  <1> QED
    BY <1>1, <1>2, <1>3

LEMMA SellingKeepsTypes == TypeInv /\ Selling => TypeInv'
  <1> SUFFICES ASSUME TypeInv, NEW s \in Slots,
                      Order(s) \/ Diagnose(s) \/ Spray(s) \/ NoSpray(s) \/ SetSlotEnabled(s)
               PROVE  TypeInv'
    BY DEF Selling
  <1> USE DEF TypeInv, TypeOK, ReturnedIsListed, goods, papers, lease, desk
  <1>1. CASE Order(s) \/ Diagnose(s) \/ NoSpray(s) \/ SetSlotEnabled(s)
    BY <1>1 DEF Order, Diagnose, NoSpray, SetSlotEnabled
  <1>2. CASE Spray(s) /\ active[s] = None
    BY <1>2 DEF Spray
  <1>3. CASE Spray(s) /\ active[s] # None
    <2> DEFINE b == active[s]
    <2>1. b \in Bottles /\ Left(b) \in Nat /\ Left(b) \div Dose \in Nat
      <3>1. b \in Bottles /\ Left(b) \in Nat
        BY <1>3, StockAssumptions DEF Left
      <3> QED
        BY <3>1, Doses
    <2>2. LevelOf(b) \in BottleStatuses /\ (LevelOf(b) = "RETURNED_TO_BRAND" => status[b] = LevelOf(b))
      BY <2>1 DEF LevelOf, BottleStatuses
    <2>3. /\ ml' = [ml EXCEPT ![b] = Left(b)]
          /\ status' = [status EXCEPT ![b] = LevelOf(b)]
          /\ sprays' = [sprays EXCEPT ![s] = Left(b) \div Dose]
          /\ onSale' \subseteq onSale /\ spraying' = None
          /\ UNCHANGED <<batch, platforms, papers, active, lease, desk>>
      BY <1>3 DEF Spray, ConsumeDose
    <2> HIDE DEF b
    <2> QED
      BY <2>1, <2>2, <2>3
  <1> QED
    BY <1>1, <1>2, <1>3

LEMMA EndingKeepsTypes == TypeInv /\ Ending => TypeInv'
  <1> SUFFICES ASSUME TypeInv, NEW s \in Slots,
                      \/ RentalGoesOn(s) \/ Decline(s) \/ LiquidateRental(s) \/ CloseRental(s)
                      \/ HandOver(s) \/ \E bs \in SUBSET Bottles : CreateReturn(s, bs)
               PROVE  TypeInv'
    BY DEF Ending
  <1> USE StockAssumptions DEF TypeInv, TypeOK, ReturnedIsListed, goods, papers, lease, desk
  <1>1. CASE RentalGoesOn(s)
    <2>1. rental' \in [Slots -> RentalStatuses]
      BY <1>1 DEF RentalGoesOn, RentalStatuses
    <2> QED
      BY <1>1, <2>1 DEF RentalGoesOn
  <1>2. CASE Decline(s) \/ HandOver(s)
    BY <1>2 DEF Decline, HandOver
  <1>3. CASE CloseRental(s)
    BY <1>3 DEF CloseRental, RentalStatuses
  <1>4. CASE LiquidateRental(s)
    BY <1>4 DEF LiquidateRental, TakenOver, BottleStatuses, RentalStatuses
  <1>5. ASSUME NEW bs \in SUBSET Bottles, CreateReturn(s, bs) PROVE TypeInv'
    BY <1>5 DEF CreateReturn, BottleStatuses, RentalStatuses
  <1> QED
    BY <1>1, <1>2, <1>3, <1>4, <1>5

(* Whatever is put into a return, every column keeps its type: what is     *)
(* paid for a bottle, too, is an amount between nothing and the cap.       *)
THEOREM StockTypeCorrect == Spec => []TypeOK
  <1>1. Init => TypeInv
    BY StockAssumptions DEF Init, TypeInv, TypeOK, ReturnedIsListed, Unpaid, BottleStatuses,
       RentalStatuses, RequestStatuses
  <1>2. TypeInv /\ CoverageInv /\ [Next]_vars => TypeInv'
    <2>1. TypeInv /\ UNCHANGED vars => TypeInv'
      BY DEF TypeInv, TypeOK, ReturnedIsListed, vars, goods, papers, lease, desk
    <2> QED
      BY <2>1, KeepingKeepsTypes, RefillingKeepsTypes, SellingKeepsTypes, EndingKeepsTypes DEF Next
  <1>3. TypeInv => TypeOK
    BY DEF TypeInv
  <1> QED
    BY <1>1, <1>2, <1>3, InitCoverageInv, NextKeepsCoverage, PTL DEF Spec

(* A brand is compensated for what it has lost, and no further than that.  *)
THEOREM StockCompensationIsDue == Spec => []CompensationIsDue
  <1>1. CoverageWithinCap /\ CompensatedIsLost => CompensationIsDue
    BY DEF CompensationIsDue
  <1> QED
    BY <1>1, StockCoverageWithinCap, StockCompensatedIsLost, PTL

-----------------------------------------------------------------------------
(* Requests and sessions agree whatever is put into a return.               *)

(* A session is opened for a request that was accepted.                    *)
LinkedWasAccepted ==
  \A s \in Slots : request[s].linked =>
    request[s].status \in {"ACCEPTED", "SCHEDULED", "COMPLETED"}

RequestInv ==
  /\ request \in [Slots -> [status : RequestStatuses, linked : BOOLEAN]]
  /\ LinkedWasAccepted
  /\ RequestFollowsSession

(* Four operations touch a request or a session, each of one slot.         *)
LEMMA DeskKeepsRequests ==
  ASSUME RequestInv, NEW s \in Slots,
         \/ RequestRefill(s) \/ AnswerRequest(s) \/ OpenRefill(s)
         \/ \E b \in Bottles : CloseRefill(s, b)
  PROVE  RequestInv'
  <1> USE DEF RequestInv
  <1>1. ASSUME NEW to \in RequestStatuses, NEW linked \in BOOLEAN, SetRequest(s, to, linked),
               session' \subseteq session \cup {s}, session \ {s} \subseteq session',
               linked => /\ to \in {"ACCEPTED", "SCHEDULED", "COMPLETED"}
                         /\ to \in OpenRequests <=> s \in session' /\ to # "COMPLETED"
        PROVE  RequestInv'
    <2>1. /\ \A t \in Slots : t # s => request'[t] = request[t] /\ (t \in session' <=> t \in session)
          /\ request'[s] = [status |-> to, linked |-> linked]
          /\ request' \in [Slots -> [status : RequestStatuses, linked : BOOLEAN]]
      BY <1>1 DEF SetRequest
    <2>2. LinkedWasAccepted'
      BY <1>1, <2>1 DEF LinkedWasAccepted
    <2>3. RequestFollowsSession'
      BY <1>1, <2>1 DEF RequestFollowsSession
    <2> QED
      BY <2>1, <2>2, <2>3
  <1>2. CASE RequestRefill(s)
    BY <1>1, <1>2 DEF RequestRefill, RequestStatuses
  <1>3. CASE AnswerRequest(s)
    <2>1. PICK to \in RequestStatuses : MayAnswer(s, to) /\ SetRequest(s, to, request[s].linked)
      BY <1>3 DEF AnswerRequest
    <2>2. request[s].linked => to = "SCHEDULED" /\ s \in session
      BY <2>1 DEF MayAnswer, TRANSITIONS, LinkedWasAccepted, RequestFollowsSession, OpenRequests
    <2>3. UNCHANGED session /\ request[s].linked \in BOOLEAN
      BY <1>3 DEF AnswerRequest
    <2> QED
      BY <1>1, <2>1, <2>2, <2>3 DEF OpenRequests
  <1>4. CASE OpenRefill(s)
    <2>1. session' = session \cup {s} /\ s \notin session
      BY <1>4 DEF OpenRefill
    <2>2. CASE UNCHANGED request
      <3>1. request[s].linked => request[s].status \notin OpenRequests
        BY <2>1 DEF RequestFollowsSession
      <3>2. request[s].linked => request[s].status = "COMPLETED"
        BY <3>1 DEF LinkedWasAccepted, OpenRequests
      <3>3. LinkedWasAccepted'
        BY <2>2 DEF LinkedWasAccepted
      <3>4. RequestFollowsSession'
        BY <2>1, <2>2, <3>1, <3>2 DEF RequestFollowsSession
      <3> QED
        BY <2>2, <3>3, <3>4
    <2>3. CASE /\ request[s].status \in {"ACCEPTED", "SCHEDULED"}
               /\ SetRequest(s, request[s].status, TRUE)
      BY <1>1, <2>1, <2>3 DEF OpenRequests, RequestStatuses
    <2> QED
      BY <1>4, <2>2, <2>3 DEF OpenRefill
  <1>5. ASSUME NEW b \in Bottles, CloseRefill(s, b) PROVE RequestInv'
    <2>1. session' = session \ {s} /\ s \in session
      BY <1>5 DEF CloseRefill
    <2>2. CASE request[s].linked /\ SetRequest(s, "COMPLETED", TRUE)
      BY <1>1, <2>1, <2>2 DEF OpenRequests, RequestStatuses
    <2>3. CASE /\ ~(request[s].linked /\ request[s].status \in OpenRequests)
               /\ UNCHANGED request
      <3>1. LinkedWasAccepted'
        BY <2>3 DEF LinkedWasAccepted
      <3>2. RequestFollowsSession'
        BY <2>1, <2>3 DEF RequestFollowsSession
      <3> QED
        BY <2>3, <3>1, <3>2
    <2> QED
      BY <1>5, <2>2, <2>3 DEF CloseRefill
  <1> QED
    BY <1>2, <1>3, <1>4, <1>5

(* A request an open session answers stays open until the session is       *)
(* closed, and is then completed (linkToSession, completeForSession).      *)
THEOREM StockRequestFollowsSession == Spec => []RequestFollowsSession
  <1>1. Init => RequestInv
    BY DEF Init, RequestInv, LinkedWasAccepted, RequestFollowsSession, RequestStatuses
  <1>2. RequestInv /\ [Next]_vars => RequestInv'
    <2> SUFFICES ASSUME RequestInv, [Next]_vars PROVE RequestInv'
      OBVIOUS
    <2>1. CASE UNCHANGED desk
      BY <2>1 DEF desk, RequestInv, LinkedWasAccepted, RequestFollowsSession
    <2>2. CASE Refilling
      BY <2>2, DeskKeepsRequests DEF Refilling
    <2>3. UNCHANGED desk \/ Refilling
      BY DEF vars, Next, Keeping, Selling, Ending, SubmitAuthenticity, ReviewAuthenticity,
         RegisterBottle, Order, Diagnose, Spray, NoSpray, SetSlotEnabled, MarkDamaged,
         RentalGoesOn, Decline, LiquidateRental, CloseRental, HandOver, CreateReturn
    <2> QED
      BY <2>1, <2>2, <2>3
  <1>3. RequestInv => RequestFollowsSession
    BY DEF RequestInv
  <1> QED
    BY <1>1, <1>2, <1>3, PTL DEF Spec
=============================================================================
