------------------------------- MODULE Stock -------------------------------
(***************************************************************************)
(* The bottles of one brand in the slots of one machine (inv, rfq, and     *)
(* what slt, exp and dsp do to them): a batch is approved, its bottles are *)
(* registered, installed by refill sessions, sprayed from, damaged, given  *)
(* back, or taken over by the platform and sold.                           *)
(*                                                                         *)
(* Each slot has one rental, named by the slot, and each rental at most    *)
(* one return (uq_bottle_return_rental), named by it too.  Perfume is      *)
(* counted in parts of a dose.  Every operation is one transaction.        *)
(***************************************************************************)
EXTENDS FiniteSets, FiniteSetsExt, Integers

CONSTANTS
  Slots, Bottles,
  None,            \* no bottle, no slot
  Volumes,         \* what a bottle may hold at first
  Dose,            \* calibrated_dosage_ml
  LowAt,           \* low_stock_threshold_ml
  Worth,           \* coverage_percent of a bottle's retail price
  Cap,             \* storage_coverage_cap of a rental
  Asking,          \* the slots whose brand sends requests, for a refill or
                   \* not to renew: a bound
  Tended           \* the slots staff take off sale, put back, and spray from:
                   \* a bound

ASSUME StockAssumptions ==
  /\ None \notin Slots \cup Bottles /\ IsFiniteSet(Slots) /\ IsFiniteSet(Bottles)
  /\ Asking \subseteq Slots /\ Tended \subseteq Slots
  /\ Volumes \subseteq Nat /\ Dose \in Nat \ {0} /\ LowAt \in Nat
  /\ Worth \in Nat /\ Cap \in Nat

VARIABLES
  batch,     \* inventory_batches.authenticity_status
  status,    \* bottles.status, "NONE" before the bottle is registered
  ml,        \* bottles.current_estimated_ml
  platforms, \* the bottles whose owner is PLATFORM
  listed,    \* bottles.bottle_return_id: the rental of the return, or None
  paidFor,   \* storage_compensations: for a bottle its rental and the amount
  active,    \* machine_slots.active_bottle_id
  sprays,    \* machine_slots.estimated_remaining_sprays
  onSale,    \* the slots whose status is AVAILABLE
  rental,    \* slot_rentals.status of a rental that was paid for
  declined,  \* those with non_renewal_requested_at
  handed,    \* the returns that have been handed over
  returned,  \* the rentals that have a return
  session,   \* the slots with a refill session STARTED
  request,   \* the latest refill_requests row of a slot
  spraying   \* the slot of the open order or active command, or None

goods == <<batch, ml, platforms, status>>
papers == <<listed, paidFor, returned, handed>>
desk == <<session, request>>
lease == <<rental, declined>>
vars == <<goods, papers, active, sprays, onSale, lease, desk, spraying>>

BottleStatuses ==
  {"NONE", "IN_STOCK", "INSTALLED", "LOW", "EMPTY", "DAMAGED", "LIQUIDATED",
   "RETURNED_TO_BRAND"}
RentalStatuses == {"DRAFT", "ACTIVE", "EXPIRING", "GRACE", "LIQUIDATED", "CLOSED"}
RequestStatuses ==
  {"NONE", "SUBMITTED", "ACCEPTED", "SCHEDULED", "REJECTED", "CANCELLED", "COMPLETED"}
OpenRequests == {"SUBMITTED", "ACCEPTED", "SCHEDULED"}
Unpaid == [rental |-> None, amount |-> 0]

TypeOK ==
  /\ batch \in {"NOT_SUBMITTED", "PENDING", "APPROVED", "REJECTED"}
  /\ status \in [Bottles -> BottleStatuses]
  /\ ml \in [Bottles -> Nat]
  /\ platforms \subseteq Bottles
  /\ listed \in [Bottles -> Slots \cup {None}]
  /\ paidFor \in [Bottles -> [rental : Slots \cup {None}, amount : 0..Cap]]
  /\ active \in [Slots -> Bottles \cup {None}]
  /\ sprays \in [Slots -> Nat]
  /\ rental \in [Slots -> RentalStatuses]
  /\ request \in [Slots -> [status : RequestStatuses, linked : BOOLEAN]]
  /\ UNION {onSale, declined, handed, returned, session} \subseteq Slots
  /\ spraying \in Slots \cup {None}

Init ==
  /\ batch = "NOT_SUBMITTED"
  /\ status = [b \in Bottles |-> "NONE"] /\ ml = [b \in Bottles |-> 0]
  /\ platforms = {} /\ listed = [b \in Bottles |-> None]
  /\ paidFor = [b \in Bottles |-> Unpaid]
  /\ active = [s \in Slots |-> None] /\ sprays = [s \in Slots |-> 0]
  /\ onSale = Slots
  /\ rental = [s \in Slots |-> "DRAFT"] /\ declined = {}
  /\ handed = {} /\ returned = {} /\ session = {}
  /\ request = [s \in Slots |-> [status |-> "NONE", linked |-> FALSE]]
  /\ spraying = None

-----------------------------------------------------------------------------
(* findStockableRental, rentalHoldingSlot: in force, or paid and waiting.  *)
Stockable(s) == rental[s] \in {"DRAFT", "ACTIVE", "EXPIRING", "GRACE"}

MachineIsBusy == spraying # None

(* isSellable, for a rental whose product and price are set.               *)
Offered(s) == s \in onSale /\ rental[s] \in {"ACTIVE", "EXPIRING", "GRACE", "LIQUIDATED"}

-----------------------------------------------------------------------------
(* Batches and bottles                                                     *)

SubmitAuthenticity ==
  /\ batch # "APPROVED"
  /\ \E s \in Slots : Stockable(s)
  /\ batch' = "PENDING"
  /\ UNCHANGED <<status, ml, platforms, papers, active, sprays, onSale, lease, desk, spraying>>

ReviewAuthenticity ==
  /\ batch = "PENDING"
  /\ batch' \in {"APPROVED", "REJECTED"}
  /\ UNCHANGED <<status, ml, platforms, papers, active, sprays, onSale, lease, desk, spraying>>

RegisterBottle(b, v) ==
  /\ status[b] = "NONE"
  /\ status' = [status EXCEPT ![b] = "IN_STOCK"]
  /\ ml' = [ml EXCEPT ![b] = v]
  /\ UNCHANGED <<batch, platforms, papers, active, sprays, onSale, lease, desk, spraying>>

-----------------------------------------------------------------------------
(* Refill requests and sessions                                            *)

SetRequest(s, to, linked) ==
  request' = [request EXCEPT ![s] = [status |-> to, linked |-> linked]]

RequestRefill(s) ==
  /\ s \in Asking
  /\ Stockable(s) /\ request[s].status \notin OpenRequests
  /\ SetRequest(s, "SUBMITTED", FALSE)
  /\ UNCHANGED <<goods, papers, active, sprays, onSale, lease, session, spraying>>

TRANSITIONS ==
  [SUBMITTED |-> {"ACCEPTED", "REJECTED"},
   ACCEPTED |-> {"SCHEDULED", "CANCELLED"}, SCHEDULED |-> {"SCHEDULED", "CANCELLED"}]

MayAnswer_Linked(s, to) ==                                       \* mutant
  request[s].status \in OpenRequests /\ to \in TRANSITIONS[request[s].status]

MayAnswer(s, to) ==
  /\ request[s].status \in OpenRequests
  /\ to \in TRANSITIONS[request[s].status]
  /\ to = "CANCELLED" => ~request[s].linked

AnswerRequest(s) ==
  /\ \E to \in RequestStatuses : MayAnswer(s, to) /\ SetRequest(s, to, request[s].linked)
  /\ UNCHANGED <<goods, papers, active, sprays, onSale, lease, session, spraying>>

(* openRefillSession, for a request of the slot or for none.               *)
OpenRefill(s) ==
  /\ s \notin session /\ Stockable(s) /\ ~MachineIsBusy
  /\ session' = session \cup {s}
  /\ \/ UNCHANGED request
     \/ /\ request[s].status \in {"ACCEPTED", "SCHEDULED"} /\ ~request[s].linked
        /\ SetRequest(s, request[s].status, TRUE)
  /\ UNCHANGED <<goods, papers, active, sprays, onSale, lease, spraying>>

(* assertInstallable *)
Installable(b) == status[b] = "IN_STOCK" /\ b \notin platforms /\ batch = "APPROVED"

(* removeBottle, for the bottle the new one replaces.                      *)
Removed(b) ==
  IF b # None /\ status[b] \in {"INSTALLED", "LOW", "EMPTY"}
  THEN [status EXCEPT ![b] = IF ml[b] > 0 THEN "IN_STOCK" ELSE "EMPTY"]
  ELSE status

(* closeRefillSession; activateOnFirstBottleInstall refuses a rental that  *)
(* is EXPIRING or in GRACE.                                                *)
CloseRefill(s, b) ==
  /\ s \in session /\ rental[s] \in {"DRAFT", "ACTIVE"}
  /\ Installable(b)
  /\ status' = [Removed(active[s]) EXCEPT ![b] = "INSTALLED"]
  /\ active' = [active EXCEPT ![s] = b]
  /\ sprays' = [sprays EXCEPT ![s] = ml[b] \div Dose]
  /\ session' = session \ {s}
  /\ IF request[s].linked /\ request[s].status \in OpenRequests
     THEN SetRequest(s, "COMPLETED", TRUE) ELSE UNCHANGED request
  /\ rental' = [rental EXCEPT ![s] = "ACTIVE"]
  /\ UNCHANGED <<batch, ml, platforms, papers, onSale, declined, spraying>>

-----------------------------------------------------------------------------
(* Spraying                                                                *)

Order(s) ==
  /\ Offered(s) /\ ~MachineIsBusy /\ session = {}
  /\ spraying' = s
  /\ UNCHANGED <<goods, papers, active, sprays, onSale, lease, desk>>

(* createDiagnostic: staff spray from any slot.                            *)
Diagnose(s) ==
  /\ s \in Tended /\ ~MachineIsBusy
  /\ spraying' = s
  /\ UNCHANGED <<goods, papers, active, sprays, onSale, lease, desk>>

Left(b) == IF ml[b] >= Dose THEN ml[b] - Dose ELSE 0

LevelOf(b) ==
  IF status[b] \notin {"INSTALLED", "LOW"} THEN status[b]
  ELSE IF Left(b) < Dose THEN "EMPTY"
  ELSE IF Left(b) < LowAt THEN "LOW"
  ELSE status[b]

ConsumeDose_BottleOnly(s) ==                                     \* mutant
  LET b == active[s] IN
  /\ ml' = [ml EXCEPT ![b] = Left(b)]
  /\ status' = [status EXCEPT ![b] = LevelOf(b)]
  /\ UNCHANGED <<sprays, onSale>>

ConsumeDose(s) ==
  LET b == active[s] IN
  /\ ml' = [ml EXCEPT ![b] = Left(b)]
  /\ status' = [status EXCEPT ![b] = LevelOf(b)]
  /\ sprays' = [sprays EXCEPT ![s] = Left(b) \div Dose]
  /\ onSale' = IF Left(b) < Dose THEN onSale \ {s} ELSE onSale

(* The command succeeds.                                                   *)
Spray(s) ==
  /\ spraying = s
  /\ spraying' = None
  /\ IF active[s] # None THEN ConsumeDose(s) ELSE UNCHANGED <<ml, status, sprays, onSale>>
  /\ UNCHANGED <<batch, platforms, papers, active, lease, desk>>

(* The command fails, or the order ends without one.                       *)
NoSpray(s) ==
  /\ spraying = s
  /\ spraying' = None
  /\ UNCHANGED <<goods, papers, active, sprays, onSale, lease, desk>>

(* setSlotEnabled *)
SetSlotEnabled(s) ==
  /\ s \in Tended
  /\ onSale' = IF s \in onSale THEN onSale \ {s} ELSE onSale \cup {s}
  /\ UNCHANGED <<goods, papers, active, sprays, lease, desk, spraying>>

-----------------------------------------------------------------------------
(* Damage and what is paid for it                                          *)

SlotsOf(b) == {s \in Slots : active[s] = b}

(* coverageRentalFor *)
Covering(b) ==
  IF SlotsOf(b) # {} THEN {s \in SlotsOf(b) : Stockable(s)}
  ELSE IF status[b] = "RETURNED_TO_BRAND" THEN {listed[b]}
  ELSE {s \in Slots : Stockable(s)}

Used(s) == MapThenSumSet(LAMBDA b : paidFor[b].amount, {b \in Bottles : paidFor[b].rental = s})

Owed_PerBottle(s) == IF Worth < Cap THEN Worth ELSE Cap          \* mutant
Owed(s) == IF Worth < Cap - Used(s) THEN Worth ELSE Cap - Used(s)

(* The rental with most left is taken; EMPTY and LIQUIDATED bottles, and   *)
(* those of the platform, are not covered.                                 *)
Compensate(b) ==
  IF b \in platforms \/ status[b] \in {"LIQUIDATED", "EMPTY"} \/ Covering(b) = {}
  THEN UNCHANGED paidFor
  ELSE \E s \in Covering(b) :
         /\ \A t \in Covering(b) : Used(s) <= Used(t)
         /\ IF Owed(s) = 0 THEN UNCHANGED paidFor
            ELSE /\ paidFor[b] = Unpaid  \* uq_compensation_bottle
                 /\ paidFor' = [paidFor EXCEPT ![b] = [rental |-> s, amount |-> Owed(s)]]

MayBeDamaged(b) ==
  /\ status[b] \notin {"NONE", "DAMAGED"}
  /\ ~(status[b] = "RETURNED_TO_BRAND" /\ listed[b] \in handed)

MarkDamaged(b) ==
  /\ MayBeDamaged(b)
  /\ SlotsOf(b) # {} => ~MachineIsBusy
  /\ active' = [s \in Slots |-> IF active[s] = b THEN None ELSE active[s]]
  /\ sprays' = [s \in Slots |-> IF active[s] = b THEN 0 ELSE sprays[s]]
  /\ status' = [status EXCEPT ![b] = "DAMAGED"]
  /\ Compensate(b)
  /\ UNCHANGED <<batch, ml, platforms, listed, returned, handed, onSale, lease, desk, spraying>>

-----------------------------------------------------------------------------
(* The rental of a slot, as far as its bottles are concerned               *)

(* Stocking, renewal and grace are told in Rentals, and so is a decline    *)
(* that is withdrawn while a return has read it; here a period passes.     *)
RentalGoesOn(s) ==
  /\ \E step \in {<<"DRAFT", "ACTIVE">>, <<"ACTIVE", "EXPIRING">>, <<"EXPIRING", "GRACE">>} :
       /\ rental[s] = step[1]
       /\ step[2] = "GRACE" => s \notin declined
       /\ rental' = [rental EXCEPT ![s] = step[2]]
  /\ UNCHANGED <<goods, papers, active, sprays, onSale, declined, desk, spraying>>

Decline(s) ==
  /\ s \in Asking
  /\ rental[s] \in {"ACTIVE", "EXPIRING"} /\ s \notin declined
  /\ declined' = declined \cup {s}
  /\ UNCHANGED <<goods, papers, active, sprays, onSale, rental, desk, spraying>>

TakenOver_Returned(s) ==                                         \* mutant
  {b \in Bottles : active[s] = b /\ b \notin platforms /\ status[b] \notin {"EMPTY", "LIQUIDATED"}}

(* liquidateRentalTx *)
TakenOver(s) ==
  {b \in Bottles : active[s] = b /\ b \notin platforms
                   /\ status[b] \notin {"EMPTY", "LIQUIDATED", "RETURNED_TO_BRAND"}}

LiquidateRental(s) ==
  /\ rental[s] = "GRACE"
  /\ rental' = [rental EXCEPT ![s] = "LIQUIDATED"]
  /\ status' = [b \in Bottles |-> IF b \in TakenOver(s) THEN "LIQUIDATED" ELSE status[b]]
  /\ platforms' = platforms \cup TakenOver(s)
  /\ UNCHANGED <<batch, ml, papers, active, sprays, onSale, declined, desk, spraying>>

(* close: the bottle is gone, EMPTY or without a drop.                     *)
Closable(s) ==
  /\ rental[s] = "LIQUIDATED"
  /\ \A b \in {active[s]} \ {None} : status[b] = "EMPTY" \/ ml[b] = 0

CloseRental(s) ==
  /\ Closable(s)
  /\ rental' = [rental EXCEPT ![s] = "CLOSED"]
  /\ active' = [active EXCEPT ![s] = None]
  /\ onSale' = onSale \cup {s}
  /\ UNCHANGED <<goods, papers, sprays, declined, desk, spraying>>

(* createBottleReturn: staff list bottles of the brand, any but none.      *)
MayList(bs) == bs # {} /\ \A b \in bs : status[b] # "NONE"

CreateReturn(s, bs) ==
  /\ s \in declined /\ s \notin returned /\ MayList(bs)
  /\ returned' = returned \cup {s}
  /\ status' = [b \in Bottles |-> IF b \in bs THEN "RETURNED_TO_BRAND" ELSE status[b]]
  /\ listed' = [b \in Bottles |-> IF b \in bs THEN s ELSE listed[b]]
  /\ active' = [active EXCEPT ![s] = None]
  /\ onSale' = onSale \ {s}
  /\ rental' = [rental EXCEPT ![s] = "CLOSED"]
  /\ UNCHANGED <<batch, ml, platforms, paidFor, handed, sprays, declined, desk, spraying>>

HandOver(s) ==
  /\ s \in returned \ handed
  /\ handed' = handed \cup {s}
  /\ UNCHANGED <<goods, listed, paidFor, returned, active, sprays, onSale, lease, desk, spraying>>

-----------------------------------------------------------------------------
Keeping ==
  \/ SubmitAuthenticity \/ ReviewAuthenticity
  \/ \E b \in Bottles : MarkDamaged(b) \/ \E v \in Volumes : RegisterBottle(b, v)

Refilling ==
  \E s \in Slots :
    \/ RequestRefill(s) \/ AnswerRequest(s) \/ OpenRefill(s)
    \/ \E b \in Bottles : CloseRefill(s, b)

Selling ==
  \E s \in Slots : Order(s) \/ Diagnose(s) \/ Spray(s) \/ NoSpray(s) \/ SetSlotEnabled(s)

Ending ==
  \E s \in Slots :
    \/ RentalGoesOn(s) \/ Decline(s) \/ LiquidateRental(s) \/ CloseRental(s) \/ HandOver(s)
    \/ \E bs \in SUBSET Bottles : CreateReturn(s, bs)

Next == Keeping \/ Refilling \/ Selling \/ Ending

Spec == Init /\ [][Next]_vars

-----------------------------------------------------------------------------
(* A slot holds no bottle that counts as stored or damaged, nor one that   *)
(* its own return lists, and no bottle is in two slots: the record of      *)
(* bottles and the record of slots are changed by six operations           *)
(* (closeRefillSession, markBottleDamaged, createBottleReturn,             *)
(* closeRentalTx, consumeDose, liquidateRentalTx).                         *)
SlotHoldsItsBottle ==
  \A s \in Slots : active[s] # None =>
    /\ \/ status[active[s]] \in {"INSTALLED", "LOW", "EMPTY", "LIQUIDATED"}
       \/ status[active[s]] = "RETURNED_TO_BRAND" /\ listed[active[s]] # s
    /\ \A t \in Slots : active[t] = active[s] => t = s

(* A bottle that counts as installed is in a slot, but for those a return  *)
(* left behind: one for each return, the bottle of its slot that staff did *)
(* not list.                                                               *)
LeftBehind == {b \in Bottles : status[b] \in {"INSTALLED", "LOW"} /\ SlotsOf(b) = {}}
InstalledIsInSlot == Cardinality(LeftBehind) <= Cardinality(returned)

(* The number of sprays a slot shows is the number left in its bottle, for *)
(* bottles that come back half used too (setSlotBottle, consumeDose).      *)
SlotShowsBottle ==
  \A s \in Slots : active[s] # None => sprays[s] = ml[active[s]] \div Dose

(* Nothing is sprayed for a customer from a batch whose papers were not    *)
(* approved, though they are submitted again and reviewed while its        *)
(* bottles are in slots (submitAuthenticity, assertInstallable).           *)
ActiveIsApproved == (\E s \in Slots : active[s] # None) => batch = "APPROVED"

(* What a slot sells is in it, and may be sold.                            *)
SlotHoldsGoods ==
  SlotHoldsItsBottle /\ InstalledIsInSlot /\ SlotShowsBottle /\ ActiveIsApproved

(* What is paid for the bottles of a rental stays within its cap, however  *)
(* many of them are damaged (compensateDamagedBottle).                     *)
CoverageWithinCap == \A s \in Slots : Used(s) <= Cap

(* A bottle that was paid for is damaged, or given back though it was; it  *)
(* was the brand's and is not the platform's, and is in no slot: nobody is  *)
(* sold anything from it.                                                  *)
CompensatedIsLost ==
  \A b \in Bottles : paidFor[b] # Unpaid =>
    /\ status[b] \in {"DAMAGED", "RETURNED_TO_BRAND"}
    /\ b \notin platforms /\ SlotsOf(b) = {}

(* A brand is compensated for what it has lost, and no further than that.  *)
CompensationIsDue == CoverageWithinCap /\ CompensatedIsLost

(* A request an open session answers stays open until the session is       *)
(* closed, and is then completed (linkToSession, completeForSession).      *)
RequestFollowsSession ==
  \A s \in Slots : request[s].linked =>
    (request[s].status \in OpenRequests <=> s \in session /\ request[s].status # "COMPLETED")

(* A bottle the platform took over stays the platform's whatever return    *)
(* lists it, and never goes to stock or counts as installed again.         *)
PlatformKeeps ==
  [][\A b \in platforms :
       b \in platforms' /\ status'[b] \in {"LIQUIDATED", "DAMAGED", "RETURNED_TO_BRAND"}]_vars

(* What is given back or damaged is never stored, installed or taken over  *)
(* by the platform again, though it may be listed twice or still be in the *)
(* slot of another rental when that one is stocked or liquidated.          *)
LostGoods == {"RETURNED_TO_BRAND", "DAMAGED"}
LostForGood ==
  [][\A b \in Bottles :
       status[b] \in LostGoods => status'[b] \in LostGoods /\ (b \in platforms' => b \in platforms)]_vars

(* What the brand has taken back is not damaged or paid for any more, as   *)
(* long as no other return lists it (markBottleDamaged).                   *)
HandedOverIsGone ==
  [][\A b \in Bottles :
       status[b] = "RETURNED_TO_BRAND" /\ listed[b] \in handed =>
         status'[b] = status[b] /\ paidFor'[b] = paidFor[b]]_vars

(* Goods change hands once, to the platform or back to the brand.          *)
GoodsChangeHandsOnce == PlatformKeeps /\ LostForGood /\ HandedOverIsGone

(* What the comment of listAvailableSlots says of an AVAILABLE slot: it    *)
(* has a rental in force and a bottle in it.                               *)
OfferedHasBottle == \A s \in Slots : Offered(s) => active[s] # None

(* What the rules say of a liquidated rental: when the goods are sold out, *)
(* the administrator closes it.                                            *)
SoldOutCloses ==
  \A s \in Slots : rental[s] = "LIQUIDATED" /\ sprays[s] = 0 => Closable(s)
=============================================================================
