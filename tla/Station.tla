------------------------------ MODULE Station ------------------------------
(***************************************************************************)
(* The whole machine: the shop front of Checkout, DSP and the device of    *)
(* Dispensing, each in detail, on the rows they share.  Neither of them    *)
(* touches the other's own variables: they meet in the database only.      *)
(***************************************************************************)
EXTENDS Sales, Dispensing

serviceVars == <<deviceVars, acknowledged, jobVars>>
stationVars == <<dbVars, checkoutVars, serviceVars>>

StationInit == SalesInit /\ DispensingInit

StationNext ==
  \/ CheckoutNext /\ UNCHANGED serviceVars
  \/ MachineModeNext /\ UNCHANGED <<checkoutVars, serviceVars>>
  \/ DspNext /\ UNCHANGED checkoutVars
  \/ DeviceNext /\ UNCHANGED <<checkoutVars, acknowledged, jobVars>>

StationSpec == StationInit /\ [][StationNext]_stationVars

-----------------------------------------------------------------------------
(* From the bank to the pump: whatever gateway answers, webhooks, jobs,    *)
(* deliveries and power losses come between, the pump runs for a customer's*)
(* order only after a transfer of the full price, made in time and for     *)
(* that very order, was recorded on it.                                    *)
SprayWasPaid ==
  \A o \in Orders : sprayed[o] > 0 =>
    /\ payTxn[o] = paidAt[o]
    /\ paidAt[o] \in rightAmount \cap onTime
    /\ sentFor[paidAt[o]] = o

(* From the pump to the books: an order is sold (DISPENSED) only if the    *)
(* pump ran for it, once, and its customer is not owed the money.          *)
SoldWasSprayed ==
  \A o \in Orders : status[o] = "DISPENSED" => sprayed[o] = 1 /\ pay[o] = "SUCCEEDED"

(* What the books say was sold was paid for and sprayed, and what was      *)
(* sprayed was paid for: no component sees all three (PaymentWebhook-      *)
(* Service.settle, DspService.armQueuedOrders and handleDeviceResult, and  *)
(* the firmware's startPump each look at what the one before left).        *)
SoldAsPaid == SprayWasPaid /\ SoldWasSprayed

(* The parts do to each other only what each assumes of the other.         *)
ImplementsParts == SalesSpec /\ DispensingSpec
=============================================================================
