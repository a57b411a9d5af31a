---------------------------- MODULE MachineMode ----------------------------
(***************************************************************************)
(* Whether the machine may sell: its operating mode and its slots          *)
(* (mch/machine-mode.service.ts, mch.service.ts), the end of DRAINING      *)
(* (dsp.service.ts), refill sessions (inv.service.ts) and its connection   *)
(* (iot.service.ts).  Every change of the machine row is made under its    *)
(* lock, as creating an order is.                                          *)
(***************************************************************************)
EXTENDS StationDb

(* setMode without force: a request for MAINTENANCE goes through DRAINING. *)
TargetMode(requested) ==
  IF requested # "MAINTENANCE" THEN requested
  ELSE IF mode \in {"MAINTENANCE", "DRAINING"} THEN mode ELSE "DRAINING"

SetMode(requested) ==
  /\ \/ requested = "NORMAL"
     \/ requested = "MAINTENANCE" /\ "drain" \in StopKinds
     \/ requested = "DISABLED" /\ "disable" \in StopKinds
  /\ mode' = TargetMode(requested)
  /\ UNCHANGED <<orderVars, cmd, slot, online, refill>>

(* DspService.completeDraining: run by its job, and by setMode itself.     *)
CompleteDraining ==
  /\ mode = "DRAINING"
  /\ Drained
  /\ mode' = "MAINTENANCE"
  /\ UNCHANGED <<orderVars, cmd, slot, online, refill>>

(* forceMaintenance: paid orders without a command fail in the transaction *)
(* that changes the mode; a command in hand is left to the device.         *)
ForceMaintenance ==
  /\ "force" \in StopKinds
  /\ mode' = "MAINTENANCE"
  /\ FailBeforeDispense(PaidQueue)
  /\ UNCHANGED <<paidAt, cmd, slot, online, refill>>

(* A refill session stops the whole machine.  Paid orders do not prevent   *)
(* one from being opened: they wait, or time out.  "refill" says whether   *)
(* any is open: a second one, on another slot, changes nothing of it.      *)
OpenRefill ==
  /\ "refill" \in StopKinds
  /\ ~refill
  /\ OpenOrders = {}
  /\ ActiveCustomerCommands = {}
  /\ refill' = TRUE
  /\ UNCHANGED <<orderVars, cmd, slot, mode, online>>

(* The new bottle does not make the slot AVAILABLE again: staff enable it. *)
CloseRefill ==
  /\ refill
  /\ refill' = FALSE
  /\ UNCHANGED <<orderVars, cmd, slot, mode, online>>

(* sweepConnections finds no heartbeat (UNSTABLE or OFFLINE); a heartbeat  *)
(* brings the machine back.                                                *)
LoseConnection ==
  /\ "connection" \in StopKinds
  /\ online' = FALSE
  /\ UNCHANGED <<orderVars, cmd, slot, mode, refill>>

Heartbeat ==
  /\ online' = TRUE
  /\ UNCHANGED <<orderVars, cmd, slot, mode, refill>>

(* setSlotEnabled, under the optimistic lock on the slot's version.        *)
EnableSlot(s) ==
  /\ slot[s] \in {"UNAVAILABLE", "MAINTENANCE"}
  /\ mode # "DISABLED"
  /\ slot' = [slot EXCEPT ![s] = "AVAILABLE"]
  /\ UNCHANGED <<orderVars, cmd, machineVars>>

DisableSlot(s) ==
  /\ "slot" \in StopKinds
  /\ slot[s] = "AVAILABLE"
  /\ slot' = [slot EXCEPT ![s] = "UNAVAILABLE"]
  /\ UNCHANGED <<orderVars, cmd, machineVars>>

(* Everything but ForceMaintenance, which goes on after its transaction.   *)
MachineModeNext ==
  \/ \E requested \in OperatingModes : SetMode(requested)
  \/ CompleteDraining
  \/ OpenRefill \/ CloseRefill
  \/ LoseConnection \/ Heartbeat
  \/ \E s \in Slots : EnableSlot(s) \/ DisableSlot(s)
=============================================================================
