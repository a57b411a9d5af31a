----------------------------- MODULE StationDb -----------------------------
(***************************************************************************)
(* The rows of one machine that several components of the API read and     *)
(* write: its orders (ORD), its dispense commands (DSP), the machine row   *)
(* (MCH) and its slots (INV).  Machines do not share any of these rows.    *)
(*                                                                         *)
(* A database transaction is one step: each locks the rows it tests        *)
(* (lockOrder, lockByReference, lockCommandByToken, machines FOR UPDATE),  *)
(* and the foreign key of orders and dispense_commands to machines makes   *)
(* every insert wait for a transaction that holds the machine row.  What a *)
(* handler reads BEFORE its transaction, and what it does at the gateway   *)
(* or the broker, are steps of their own.                                  *)
(***************************************************************************)
EXTENDS Naturals, OrderStatus, DispenseOutcome

CONSTANTS
  Orders,       \* the orders kiosks may place on this machine
  Diags,        \* the diagnostic dispenses staff may ask for
  Slots,        \* the machine's slots
  SlotOf,       \* the slot of each order and of each diagnostic
  MaxTransfers, \* bound on bank transfers, numbered in the order they happen
  StopKinds     \* bound: the ways in which the machine may stop selling

(* A customer command is known by its order: no order has two.             *)
Commands == Orders \cup Diags
Transfers == 1..MaxTransfers
NoTransfer == 0

ASSUME DbAssumption ==
  /\ MaxTransfers \in Nat
  /\ Orders \cap Diags = {}
  /\ SlotOf \in [Commands -> Slots]
  /\ StopKinds \subseteq {"drain", "force", "disable", "refill", "connection", "slot"}

VARIABLES
  status,   \* orders.status
  review,   \* the orders with needs_manual_review
  paidAt,   \* orders.paid_at: the transfer that paid the order, NoTransfer when null
  cmd,      \* dispense_commands.status, "NONE" when there is no row
  slot,     \* machine_slots.status
  mode,     \* machines.operating_mode
  online,   \* machines.status = ONLINE
  refill    \* an open (STARTED) refill session on the machine

orderVars == <<status, review, paidAt>>
machineVars == <<mode, online, refill>>
dbVars == <<orderVars, cmd, slot, machineVars>>

SlotStatuses == {"AVAILABLE", "UNAVAILABLE", "MAINTENANCE"}
OperatingModes == {"NORMAL", "DRAINING", "MAINTENANCE", "DISABLED"}

DbTypeOK ==
  /\ status \in [Orders -> OrderStatuses \cup {"NONE"}]
  /\ review \subseteq Orders
  /\ paidAt \in [Orders -> Transfers \cup {NoTransfer}]
  /\ cmd \in [Commands -> CommandStatuses \cup {"NONE"}]
  /\ slot \in [Slots -> SlotStatuses]
  /\ mode \in OperatingModes
  /\ online \in BOOLEAN
  /\ refill \in BOOLEAN

DbInit ==
  /\ status = [o \in Orders |-> "NONE"]
  /\ review = {}
  /\ paidAt = [o \in Orders |-> NoTransfer]
  /\ cmd = [c \in Commands |-> "NONE"]
  /\ slot = [s \in Slots |-> "AVAILABLE"]
  /\ mode = "NORMAL"
  /\ online = TRUE
  /\ refill = FALSE

-----------------------------------------------------------------------------
(* Queries shared by the components.                                       *)

OpenOrders_CreatedOnly == {o \in Orders : status[o] = "CREATED"}  \* mutant
OpenOrders == {o \in Orders : status[o] \in {"CREATED", "PENDING_PAYMENT"}}
PaidQueue == {o \in Orders : status[o] = "PAID"}
ActiveCustomerCommands == {o \in Orders : cmd[o] \in ACTIVE_COMMAND_STATUSES}

MachineAcceptsOrders_AnyMode == online /\ ~refill               \* mutant
MachineAcceptsOrders == online /\ mode = "NORMAL" /\ ~refill

(* DRAINING still serves the orders that are already paid.                 *)
MachineServesPaidQueue == online /\ mode \in {"NORMAL", "DRAINING"} /\ ~refill

Drained_CountsUnknown ==                                        \* mutant
  /\ \A o \in Orders : cmd[o] \notin CLOSABLE_STATUSES
  /\ OpenOrders = {}
  /\ PaidQueue = {}

Drained ==
  /\ ActiveCustomerCommands = {}
  /\ OpenOrders = {}
  /\ PaidQueue = {}

-----------------------------------------------------------------------------
(* What ORD does to an order for its callers, in their transactions.       *)

(* OrdService.flagOrderForReview.                                          *)
FlagForReview_Forgotten(os) == UNCHANGED review                  \* mutant
FlagForReview(os) == review' = review \cup os

(* OrdService.failBeforeDispense: a paid order that will not be served.    *)
FailBeforeDispense_Unseen(failing) ==                            \* mutant
  /\ status' = [o \in Orders |-> IF o \in failing THEN "FAILED" ELSE status[o]]
  /\ UNCHANGED review

FailBeforeDispense(failing) ==
  /\ status' = [o \in Orders |-> IF o \in failing THEN "FAILED" ELSE status[o]]
  /\ review' = review \cup failing

(* OrdService.startDispense.                                               *)
StartDispense(o) ==
  /\ status[o] = "PAID"
  /\ status' = [status EXCEPT ![o] = "DISPENSE_REQUESTED"]

(* OrdService.finishDispense: nothing happens to an order that has left    *)
(* DISPENSE_REQUESTED.                                                     *)

FinishDispense_ClearsReview(o, outcome, resolvesUnknown) ==      \* mutant
  IF status[o] = "DISPENSE_REQUESTED"
  THEN /\ status' = [status EXCEPT ![o] = outcome.order]
       /\ review' = IF outcome.manualReview THEN review \cup {o}
                    ELSE IF resolvesUnknown THEN review \ {o} ELSE review
  ELSE UNCHANGED <<status, review>>

FinishDispense(o, outcome, resolvesUnknown) ==
  IF status[o] = "DISPENSE_REQUESTED"
  THEN /\ status' = [status EXCEPT ![o] = outcome.order]
       /\ review' = IF outcome.manualReview THEN review \cup {o}
                    ELSE IF outcome.order = "FORFEITED" /\ resolvesUnknown
                    THEN review \ {o} ELSE review
  ELSE UNCHANGED <<status, review>>
=============================================================================
