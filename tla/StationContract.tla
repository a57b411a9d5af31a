-------------------------- MODULE StationContract --------------------------
(***************************************************************************)
(* What the parts of the platform may assume of each other on the shared   *)
(* rows of a machine: what Checkout (ORD and its payments) may do to them, *)
(* and what DSP with the device behind it may do.  Sales implements the    *)
(* first part in detail and leaves the second open; Dispensing implements  *)
(* the second and leaves the first open.                                   *)
(***************************************************************************)
EXTENDS MachineMode

-----------------------------------------------------------------------------
(* ORD and its payments.                                                   *)

(* An overdue order that still waits for its payment gives way.            *)
OrderPlaced(o) ==
  /\ status[o] = "NONE"
  /\ MachineAcceptsOrders
  /\ slot[SlotOf[o]] = "AVAILABLE"
  /\ ActiveCustomerCommands = {}
  /\ status' = [p \in Orders |->
                  IF p = o THEN "PENDING_PAYMENT"
                  ELSE IF p \in OpenOrders THEN "EXPIRED" ELSE status[p]]
  /\ UNCHANGED <<review, paidAt, cmd, slot, machineVars>>

OrderExpired(o) ==
  /\ status[o] = "PENDING_PAYMENT"
  /\ status' = [status EXCEPT ![o] = "EXPIRED"]
  /\ UNCHANGED <<review, paidAt, cmd, slot, machineVars>>

OrderPaid(o, t) ==
  /\ status[o] = "PENDING_PAYMENT"
  /\ \A p \in Orders : paidAt[p] # t
  /\ status' = [status EXCEPT ![o] = "PAID"]
  /\ paidAt' = [paidAt EXCEPT ![o] = t]
  /\ UNCHANGED <<review, cmd, slot, machineVars>>

MoneyTooLate(o) ==
  /\ status[o] \in {"PENDING_PAYMENT", "EXPIRED"}
  /\ status' = [status EXCEPT ![o] = "REFUND_PENDING"]
  /\ FlagForReview({o})
  /\ UNCHANGED <<paidAt, cmd, slot, machineVars>>

MoneyUnusable(o) ==
  /\ status[o] # "NONE"
  /\ FlagForReview({o})
  /\ UNCHANGED <<status, paidAt, cmd, slot, machineVars>>

(* The queue timeout; or DSP finds that the slot lost its calibration.     *)
PaidOrderFails(o) ==
  /\ status[o] = "PAID"
  /\ FailBeforeDispense({o})
  /\ UNCHANGED <<paidAt, cmd, slot, machineVars>>

CheckoutContract ==
  \E o \in Orders :
    \/ OrderPlaced(o) \/ OrderExpired(o)
    \/ MoneyTooLate(o) \/ MoneyUnusable(o)
    \/ PaidOrderFails(o)
    \/ \E t \in Transfers : OrderPaid(o, t)

-----------------------------------------------------------------------------
(* DSP and the device.                                                     *)

(* Finishing a command may take its slot out of sale: an empty bottle, or  *)
(* too many failures in a row.                                             *)
SlotMayStop(s) ==
  \/ UNCHANGED slot
  \/ slot[s] = "AVAILABLE" /\ slot' = [slot EXCEPT ![s] = "UNAVAILABLE"]
  \/ slot' = [slot EXCEPT ![s] = "MAINTENANCE"]

(* uq_machine_active_customer_command: the index refuses a second active   *)
(* customer command on the machine.                                        *)
CommandIndexAllows_Missing == TRUE                               \* mutant
CommandIndexAllows == ActiveCustomerCommands = {}

OrderArmed(o) ==
  /\ cmd[o] = "NONE"
  /\ CommandIndexAllows
  /\ StartDispense(o)
  /\ cmd' = [cmd EXCEPT ![o] = "CREATED"]
  /\ UNCHANGED <<review, paidAt, slot, machineVars>>

DiagnosticCreated(d) ==
  /\ cmd[d] = "NONE"
  /\ online
  /\ \A c \in Commands : cmd[c] \notin ACTIVE_COMMAND_STATUSES
  /\ PaidQueue = {}
  /\ cmd' = [cmd EXCEPT ![d] = "CREATED"]
  /\ UNCHANGED <<orderVars, slot, machineVars>>

CommandSent(c) ==
  /\ cmd[c] = "CREATED"
  /\ cmd' = [cmd EXCEPT ![c] = "SENT"]
  /\ UNCHANGED <<orderVars, slot, machineVars>>

CommandAcknowledged(c) ==
  /\ cmd[c] \in ACKNOWLEDGEABLE_STATUSES
  /\ cmd' = [cmd EXCEPT ![c] = "ACKNOWLEDGED"]
  /\ UNCHANGED <<orderVars, slot, machineVars>>

CommandCloses(c, outcome) ==
  /\ cmd[c] \in CLOSABLE_STATUSES
  /\ outcome = ExpiredCommand => cmd[c] = "CREATED"
  /\ cmd' = [cmd EXCEPT ![c] = outcome.command]
  /\ IF c \in Orders
     THEN FinishDispense(c, outcome, cmd[c] = "UNKNOWN")
     ELSE UNCHANGED <<status, review>>
  /\ SlotMayStop(SlotOf[c])
  /\ UNCHANGED <<paidAt, machineVars>>

CommandLost(c) ==
  /\ cmd[c] \in {"SENT", "ACKNOWLEDGED"}
  /\ cmd' = [cmd EXCEPT ![c] = "UNKNOWN"]
  /\ FlagForReview({c} \cap Orders)
  /\ SlotMayStop(SlotOf[c])
  /\ UNCHANGED <<status, paidAt, machineVars>>

DispenseContract ==
  \/ \E o \in Orders : OrderArmed(o)
  \/ \E d \in Diags : DiagnosticCreated(d)
  \/ \E c \in Commands :
       \/ CommandSent(c) \/ CommandAcknowledged(c) \/ CommandLost(c)
       \/ \E outcome \in Outcomes \cup {ExpiredCommand} : CommandCloses(c, outcome)

-----------------------------------------------------------------------------
ContractNext ==
  \/ CheckoutContract
  \/ MachineModeNext \/ ForceMaintenance
  \/ DispenseContract

ContractSpec == DbInit /\ [][ContractNext]_dbVars

-----------------------------------------------------------------------------
(* A machine has at most one order that waits for its payment.             *)
OneOpenOrder ==
  \A o, p \in Orders :
    status[o] = "PENDING_PAYMENT" /\ status[p] = "PENDING_PAYMENT" => o = p

(* A customer who is owed money back is on the staff's work list.          *)
OwedIsOnTheList ==
  \A o \in Orders : status[o] \in {"FAILED", "REFUND_PENDING"} => o \in review

(* An order being served has the one active customer command of its        *)
(* machine, or a command nobody heard of again and a place on the list.    *)
ServedHasCommand ==
  /\ \A o \in Orders : status[o] = "DISPENSE_REQUESTED" =>
       \/ cmd[o] \in ACTIVE_COMMAND_STATUSES
       \/ cmd[o] = "UNKNOWN" /\ o \in review
  /\ \A o, p \in ActiveCustomerCommands : o = p

(* Nobody pays for a spray while the machine is open for a refill: ORD and *)
(* INV look at each other's rows under the same machine lock.              *)
RefillIsQuiet == refill => OpenOrders = {}

(* The customers of a machine pay one after the other, and none during a   *)
(* refill: placing an order and opening a session exclude each other.      *)
OpenOrdersInTurn == OneOpenOrder /\ RefillIsQuiet

(* While the machine is draining or stopped, the customers in hand can only*)
(* become fewer.                                                           *)
InHand == OpenOrders \cup PaidQueue \cup ActiveCustomerCommands

StoppedOnlyShrinks ==
  [][mode # "NORMAL" /\ mode' # "NORMAL" => InHand' \subseteq InHand]_dbVars

(* What staff and customers see of an order follows OrderLifecycle.        *)
Lifecycle == INSTANCE OrderLifecycle
ImplementsLifecycle == Lifecycle!Spec
=============================================================================
