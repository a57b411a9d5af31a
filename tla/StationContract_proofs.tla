---------------------- MODULE StationContract_proofs ----------------------
(***************************************************************************)
(* What every machine keeps as long as its components keep the contract,   *)
(* whatever the number of orders, diagnostics, slots and transfers.        *)
(***************************************************************************)
EXTENDS StationContract, TLAPS

(* Each part is preserved by every step given the others.                  *)
ContractInv ==
  /\ DbTypeOK
  /\ OneOpenOrder
  /\ OwedIsOnTheList
  /\ ServedHasCommand
  /\ RefillIsQuiet

-----------------------------------------------------------------------------
(* Type correctness.                                                       *)

USE DEF orderVars, machineVars, dbVars

(* The initial rows have their types.                                      *)
LEMMA InitTypeOK == DbInit => DbTypeOK
  BY DbAssumption DEF DbInit, DbTypeOK, OrderStatuses, CommandStatuses,
     SlotStatuses, OperatingModes, NoTransfer

(* The steps of ORD and its payments only touch orders.                    *)
LEMMA CheckoutKeepsType == DbTypeOK /\ CheckoutContract => DbTypeOK'
  <1> SUFFICES ASSUME DbTypeOK, CheckoutContract PROVE DbTypeOK'
    OBVIOUS
  <1> PICK o \in Orders :
        \/ OrderPlaced(o) \/ OrderExpired(o)
        \/ MoneyTooLate(o) \/ MoneyUnusable(o)
        \/ PaidOrderFails(o)
        \/ \E t \in Transfers : OrderPaid(o, t)
    BY DEF CheckoutContract
  <1>1. CASE OrderPlaced(o)
    BY <1>1 DEF OrderPlaced, DbTypeOK, OrderStatuses
  <1>2. CASE OrderExpired(o)
    BY <1>2 DEF OrderExpired, DbTypeOK, OrderStatuses
  <1>3. CASE MoneyTooLate(o)
    BY <1>3 DEF MoneyTooLate, FlagForReview, DbTypeOK, OrderStatuses
  <1>4. CASE MoneyUnusable(o)
    BY <1>4 DEF MoneyUnusable, FlagForReview, DbTypeOK
  <1>5. CASE PaidOrderFails(o)
    BY <1>5 DEF PaidOrderFails, FailBeforeDispense, DbTypeOK, OrderStatuses
  <1>6. ASSUME NEW t \in Transfers, OrderPaid(o, t) PROVE DbTypeOK'
    BY <1>6 DEF OrderPaid, DbTypeOK, OrderStatuses
  <1> QED
    BY <1>1, <1>2, <1>3, <1>4, <1>5, <1>6

(* The machine's mode, slots, refill and connection.                       *)
LEMMA ModeKeepsType == DbTypeOK /\ (MachineModeNext \/ ForceMaintenance) => DbTypeOK'
  <1> SUFFICES ASSUME DbTypeOK, MachineModeNext \/ ForceMaintenance PROVE DbTypeOK'
    OBVIOUS
  <1>1. ASSUME NEW requested \in OperatingModes, SetMode(requested) PROVE DbTypeOK'
    BY <1>1 DEF SetMode, TargetMode, DbTypeOK, OperatingModes
  <1>2. CASE CompleteDraining \/ OpenRefill \/ CloseRefill \/ LoseConnection \/ Heartbeat
    BY <1>2 DEF CompleteDraining, OpenRefill, CloseRefill, LoseConnection,
       Heartbeat, DbTypeOK, OperatingModes
  <1>3. ASSUME NEW s \in Slots, EnableSlot(s) \/ DisableSlot(s) PROVE DbTypeOK'
    BY <1>3 DEF EnableSlot, DisableSlot, DbTypeOK, SlotStatuses
  <1>4. CASE ForceMaintenance
    BY <1>4 DEF ForceMaintenance, FailBeforeDispense, PaidQueue, DbTypeOK,
       OperatingModes, OrderStatuses
  <1> QED
    BY <1>1, <1>2, <1>3, <1>4 DEF MachineModeNext

(* A step of DSP or of the device, by cases; what it does to an order is   *)
(* what a report of the device means for it.                               *)
LEMMA DispenseKeepsType == DbTypeOK /\ DispenseContract => DbTypeOK'
  <1> SUFFICES ASSUME DbTypeOK, DispenseContract PROVE DbTypeOK'
    OBVIOUS
  <1>1. ASSUME NEW o \in Orders, OrderArmed(o) PROVE DbTypeOK'
    BY <1>1 DEF OrderArmed, StartDispense, DbTypeOK, OrderStatuses,
       CommandStatuses, Commands
  <1>2. ASSUME NEW d \in Diags, DiagnosticCreated(d) PROVE DbTypeOK'
    BY <1>2 DEF DiagnosticCreated, DbTypeOK, CommandStatuses, Commands
  <1>3. ASSUME NEW c \in Commands, CommandSent(c) \/ CommandAcknowledged(c)
        PROVE DbTypeOK'
    BY <1>3 DEF CommandSent, CommandAcknowledged, DbTypeOK, CommandStatuses
  <1>4. ASSUME NEW c \in Commands, CommandLost(c) PROVE DbTypeOK'
    <2>1. SlotOf[c] \in Slots
      BY DbAssumption
    <2>2. slot' \in [Slots -> SlotStatuses]
      BY <1>4, <2>1 DEF CommandLost, SlotMayStop, DbTypeOK, SlotStatuses
    <2> QED
      BY <1>4, <2>2 DEF CommandLost, FlagForReview, DbTypeOK, CommandStatuses
  <1>5. ASSUME NEW c \in Commands, NEW outcome \in Outcomes \cup {ExpiredCommand},
               CommandCloses(c, outcome)
        PROVE DbTypeOK'
    <2>1. SlotOf[c] \in Slots
      BY DbAssumption
    <2>2. slot' \in [Slots -> SlotStatuses]
      BY <1>5, <2>1 DEF CommandCloses, SlotMayStop, DbTypeOK, SlotStatuses
    <2>3. outcome.command \in CommandStatuses /\ outcome.order \in OrderStatuses
      BY DEF Outcomes, ExpiredCommand, Delivered, Broken, Refused, NotPressed,
         Outcome, CommandStatuses, OrderStatuses
    <2>4. cmd' \in [Commands -> CommandStatuses \cup {"NONE"}]
      BY <1>5, <2>3 DEF CommandCloses, DbTypeOK
    <2>5. status' \in [Orders -> OrderStatuses \cup {"NONE"}] /\ review' \subseteq Orders
      BY <1>5, <2>3 DEF CommandCloses, FinishDispense, DbTypeOK
    <2> QED
      BY <1>5, <2>2, <2>4, <2>5 DEF CommandCloses, DbTypeOK
  <1> QED
    BY <1>1, <1>2, <1>3, <1>4, <1>5 DEF DispenseContract

(* DbTypeOK is inductive.                                                  *)
LEMMA StepKeepsType == DbTypeOK /\ [ContractNext]_dbVars => DbTypeOK'
  <1> SUFFICES ASSUME DbTypeOK, [ContractNext]_dbVars PROVE DbTypeOK'
    OBVIOUS
  <1>1. CASE UNCHANGED dbVars
    BY <1>1 DEF DbTypeOK
  <1> QED
    BY <1>1, CheckoutKeepsType, ModeKeepsType, DispenseKeepsType DEF ContractNext

(* Every row of the machine keeps its type.                                *)
THEOREM ContractTypeCorrect == ContractSpec => []DbTypeOK
  <1>1. DbInit => DbTypeOK
    BY InitTypeOK
  <1>2. DbTypeOK /\ [ContractNext]_dbVars => DbTypeOK'
    BY StepKeepsType
  <1> QED
    BY <1>1, <1>2, PTL DEF ContractSpec

-----------------------------------------------------------------------------
(* The safety invariants.                                                  *)

(* There is no order and no command at the start.                          *)
LEMMA InitContractInv == DbInit => ContractInv
  <1> SUFFICES ASSUME DbInit PROVE ContractInv
    OBVIOUS
  <1>1. DbTypeOK
    BY InitTypeOK
  <1> QED
    BY <1>1 DEF DbInit, ContractInv, OneOpenOrder, OwedIsOnTheList,
       ServedHasCommand, ActiveCustomerCommands, ACTIVE_COMMAND_STATUSES,
       Commands, RefillIsQuiet

(* ORD and its payments keep ContractInv.                                  *)
LEMMA CheckoutKeepsInv == ContractInv /\ CheckoutContract => ContractInv'
  <1> SUFFICES ASSUME ContractInv, CheckoutContract PROVE ContractInv'
    OBVIOUS
  <1> DbTypeOK /\ DbTypeOK'
    BY CheckoutKeepsType DEF ContractInv
  <1> USE DEF ContractInv, OneOpenOrder, OwedIsOnTheList, ServedHasCommand,
       RefillIsQuiet, OpenOrders, ActiveCustomerCommands, DbTypeOK
  <1>1. ASSUME NEW o \in Orders, OrderPlaced(o) PROVE ContractInv'
    BY <1>1 DEF OrderPlaced, MachineAcceptsOrders
  <1>2. ASSUME NEW o \in Orders, OrderExpired(o) PROVE ContractInv'
    BY <1>2 DEF OrderExpired
  <1>3. ASSUME NEW o \in Orders, MoneyTooLate(o) PROVE ContractInv'
    BY <1>3 DEF MoneyTooLate, FlagForReview
  <1>4. ASSUME NEW o \in Orders, MoneyUnusable(o) PROVE ContractInv'
    BY <1>4 DEF MoneyUnusable, FlagForReview
  <1>5. ASSUME NEW o \in Orders, PaidOrderFails(o) PROVE ContractInv'
    BY <1>5 DEF PaidOrderFails, FailBeforeDispense
  <1>6. ASSUME NEW o \in Orders, NEW t \in Transfers, OrderPaid(o, t) PROVE ContractInv'
    BY <1>6 DEF OrderPaid
  <1> QED
    BY <1>1, <1>2, <1>3, <1>4, <1>5, <1>6 DEF CheckoutContract

(* The machine's mode keeps ContractInv.                                   *)
LEMMA ModeKeepsInv ==
    ContractInv /\ (MachineModeNext \/ ForceMaintenance) => ContractInv'
  <1> SUFFICES ASSUME ContractInv, MachineModeNext \/ ForceMaintenance
      PROVE ContractInv'
    OBVIOUS
  <1> DbTypeOK /\ DbTypeOK'
    BY ModeKeepsType DEF ContractInv
  <1> USE DEF ContractInv, OneOpenOrder, OwedIsOnTheList, ServedHasCommand,
       RefillIsQuiet, OpenOrders, ActiveCustomerCommands
  <1>1. CASE UNCHANGED <<orderVars, cmd, refill>>
    BY <1>1
  <1>2. CASE OpenRefill \/ CloseRefill
    BY <1>2 DEF OpenRefill, CloseRefill
  <1>3. CASE ForceMaintenance
    BY <1>3 DEF ForceMaintenance, FailBeforeDispense, PaidQueue, DbTypeOK
  <1> QED
    BY <1>1, <1>2, <1>3 DEF MachineModeNext, SetMode, CompleteDraining,
       LoseConnection, Heartbeat, EnableSlot, DisableSlot

(* DSP and the device keep ContractInv.                                    *)
LEMMA DispenseKeepsInv == ContractInv /\ DispenseContract => ContractInv'
  <1> SUFFICES ASSUME ContractInv, DispenseContract PROVE ContractInv'
    OBVIOUS
  <1> DbTypeOK /\ DbTypeOK'
    BY DispenseKeepsType DEF ContractInv
  <1> USE DEF ContractInv, OneOpenOrder, OwedIsOnTheList, ServedHasCommand,
       RefillIsQuiet, OpenOrders, ActiveCustomerCommands,
       ACTIVE_COMMAND_STATUSES, DbTypeOK, Commands
  <1>0. Orders \cap Diags = {}
    BY DbAssumption
  <1>1. ASSUME NEW o \in Orders, OrderArmed(o) PROVE ContractInv'
    BY <1>1 DEF OrderArmed, StartDispense, CommandIndexAllows
  <1>2. ASSUME NEW d \in Diags, DiagnosticCreated(d) PROVE ContractInv'
    BY <1>0, <1>2 DEF DiagnosticCreated
  <1>3. ASSUME NEW c \in Commands, CommandSent(c) \/ CommandAcknowledged(c)
        PROVE ContractInv'
    BY <1>3 DEF CommandSent, CommandAcknowledged, ACKNOWLEDGEABLE_STATUSES
  <1>4. ASSUME NEW c \in Commands, CommandLost(c) PROVE ContractInv'
    BY <1>4 DEF CommandLost, FlagForReview
  <1>5. ASSUME NEW c \in Commands, NEW outcome \in Outcomes \cup {ExpiredCommand},
               CommandCloses(c, outcome)
        PROVE ContractInv'
    <2>1. /\ outcome.command \notin ACTIVE_COMMAND_STATUSES
          /\ outcome.order \in {"DISPENSED", "FAILED", "FORFEITED"}
          /\ outcome.order = "FAILED" => outcome.manualReview
      BY DEF Outcomes, ExpiredCommand, Delivered, Broken, Refused, NotPressed, Outcome
    <2>2. CASE c \in Orders
      BY <1>5, <2>1, <2>2 DEF CommandCloses, FinishDispense
    <2>3. CASE c \notin Orders
      BY <1>5, <2>1, <2>3 DEF CommandCloses
    <2> QED
      BY <2>2, <2>3
  <1> QED
    BY <1>1, <1>2, <1>3, <1>4, <1>5 DEF DispenseContract

(* ContractInv is inductive.                                               *)
LEMMA StepKeepsInv == ContractInv /\ [ContractNext]_dbVars => ContractInv'
  <1> SUFFICES ASSUME ContractInv, [ContractNext]_dbVars PROVE ContractInv'
    OBVIOUS
  <1>1. CASE UNCHANGED dbVars
    BY <1>1 DEF ContractInv, DbTypeOK, OneOpenOrder, OwedIsOnTheList,
       ServedHasCommand, ActiveCustomerCommands, RefillIsQuiet, OpenOrders
  <1> QED
    BY <1>1, CheckoutKeepsInv, ModeKeepsInv, DispenseKeepsInv DEF ContractNext

(* On every machine whose components keep the contract: one order at most  *)
(* waits for its payment; who is owed money is on the staff's list; an     *)
(* order in service has the machine's only active command, or is on the    *)
(* list; and nobody pays while a refill session is open.                   *)
THEOREM ContractSafety == ContractSpec => []ContractInv
  <1>1. DbInit => ContractInv
    BY InitContractInv
  <1>2. ContractInv /\ [ContractNext]_dbVars => ContractInv'
    BY StepKeepsInv
  <1> QED
    BY <1>1, <1>2, PTL DEF ContractSpec

(* createNew and the machine lock leave one order waiting for a payment.   *)
THEOREM ContractOneOpenOrder == ContractSpec => []OneOpenOrder
  <1>1. ContractInv => OneOpenOrder
    BY DEF ContractInv
  <1> QED
    BY <1>1, ContractSafety, PTL

(* Whoever is owed money back is on the work list of the staff.            *)
THEOREM ContractOwedIsOnTheList == ContractSpec => []OwedIsOnTheList
  <1>1. ContractInv => OwedIsOnTheList
    BY DEF ContractInv
  <1> QED
    BY <1>1, ContractSafety, PTL

(* An order in service has the one active customer command of its machine, *)
(* or a lost one and a place on the list.                                  *)
THEOREM ContractServedHasCommand == ContractSpec => []ServedHasCommand
  <1>1. ContractInv => ServedHasCommand
    BY DEF ContractInv
  <1> QED
    BY <1>1, ContractSafety, PTL

(* Nobody waits for a payment while a refill session is open.              *)
THEOREM ContractRefillIsQuiet == ContractSpec => []RefillIsQuiet
  <1>1. ContractInv => RefillIsQuiet
    BY DEF ContractInv
  <1> QED
    BY <1>1, ContractSafety, PTL

(* Customers pay one after the other, and none while the machine is open.  *)
THEOREM ContractOpenOrdersInTurn == ContractSpec => []OpenOrdersInTurn
  <1>1. ContractInv => OpenOrdersInTurn
    BY DEF ContractInv, OpenOrdersInTurn
  <1> QED
    BY <1>1, ContractSafety, PTL

-----------------------------------------------------------------------------
(* The action property: who is in hand when the machine has stopped        *)
(* selling was in hand before.                                             *)

Shrinks == mode # "NORMAL" /\ mode' # "NORMAL" => InHand' \subseteq InHand

(* No single step takes a customer in hand on a machine that is stopped.   *)
LEMMA StepShrinks == DbTypeOK /\ [ContractNext]_dbVars => Shrinks
  <1> SUFFICES ASSUME DbTypeOK, [ContractNext]_dbVars, mode # "NORMAL"
      PROVE InHand' \subseteq InHand
    BY DEF Shrinks
  <1> USE DEF InHand, OpenOrders, PaidQueue, ActiveCustomerCommands,
       ACTIVE_COMMAND_STATUSES, DbTypeOK
  <1>1. CASE CheckoutContract
    BY <1>1 DEF CheckoutContract, OrderPlaced, MachineAcceptsOrders, OrderExpired,
       MoneyTooLate, MoneyUnusable, PaidOrderFails, FailBeforeDispense, OrderPaid
  <1>2. CASE MachineModeNext \/ ForceMaintenance
    BY <1>2 DEF MachineModeNext, SetMode, CompleteDraining, OpenRefill, CloseRefill,
       LoseConnection, Heartbeat, EnableSlot, DisableSlot, ForceMaintenance,
       FailBeforeDispense
  <1>3. CASE DispenseContract
    <2>1. ASSUME NEW o \in Orders, OrderArmed(o) PROVE InHand' \subseteq InHand
      BY <2>1 DEF OrderArmed, StartDispense
    <2>2. ASSUME NEW d \in Diags, DiagnosticCreated(d) PROVE InHand' \subseteq InHand
      BY <2>2, DbAssumption DEF DiagnosticCreated, Commands
    <2>3. ASSUME NEW c \in Commands,
                 CommandSent(c) \/ CommandAcknowledged(c) \/ CommandLost(c)
          PROVE InHand' \subseteq InHand
      BY <2>3 DEF CommandSent, CommandAcknowledged, ACKNOWLEDGEABLE_STATUSES,
         CommandLost, Commands
    <2>4. ASSUME NEW c \in Commands, NEW outcome \in Outcomes \cup {ExpiredCommand},
                 CommandCloses(c, outcome)
          PROVE InHand' \subseteq InHand
      <3>1. /\ outcome.command \notin ACTIVE_COMMAND_STATUSES
            /\ outcome.order \in {"DISPENSED", "FAILED", "FORFEITED"}
        BY DEF Outcomes, ExpiredCommand, Delivered, Broken, Refused, NotPressed, Outcome
      <3> QED
        BY <2>4, <3>1 DEF CommandCloses, FinishDispense, Commands
    <2> QED
      BY <1>3, <2>1, <2>2, <2>3, <2>4 DEF DispenseContract
  <1>4. CASE UNCHANGED dbVars
    BY <1>4
  <1> QED
    BY <1>1, <1>2, <1>3, <1>4 DEF ContractNext

(* No step takes a customer in hand while the machine is draining,         *)
(* disabled or in maintenance.                                             *)
THEOREM ContractStoppedOnlyShrinks == ContractSpec => StoppedOnlyShrinks
  <1>1. DbTypeOK /\ [ContractNext]_dbVars => [Shrinks]_dbVars
    BY StepShrinks
  <1>2. [Shrinks]_dbVars =>
          [mode # "NORMAL" /\ mode' # "NORMAL" => InHand' \subseteq InHand]_dbVars
    BY DEF Shrinks
  <1> QED
    BY <1>1, <1>2, ContractTypeCorrect, PTL DEF ContractSpec, StoppedOnlyShrinks

-----------------------------------------------------------------------------
(* Refinement: what customers and staff see of an order.                   *)

(* The lifecycle's variables start as the lifecycle says.                  *)
LEMMA InitRefines == DbInit => Lifecycle!Init
  BY DEF DbInit, Lifecycle!Init

(* The edges each step takes an order along.                               *)
LEMMA Edges ==
  /\ Lifecycle!MayBecome("NONE", "PENDING_PAYMENT")
  /\ Lifecycle!MayBecome("CREATED", "EXPIRED")
  /\ Lifecycle!MayBecome("PENDING_PAYMENT", "EXPIRED")
  /\ Lifecycle!MayBecome("PENDING_PAYMENT", "PAID")
  /\ Lifecycle!MayBecome("PENDING_PAYMENT", "REFUND_PENDING")
  /\ Lifecycle!MayBecome("EXPIRED", "REFUND_PENDING")
  /\ Lifecycle!MayBecome("PAID", "FAILED")
  /\ Lifecycle!MayBecome("PAID", "DISPENSE_REQUESTED")
  /\ Lifecycle!MayBecome("DISPENSE_REQUESTED", "DISPENSED")
  /\ Lifecycle!MayBecome("DISPENSE_REQUESTED", "FAILED")
  /\ Lifecycle!MayBecome("DISPENSE_REQUESTED", "FORFEITED")
  BY DEF Lifecycle!MayBecome, Lifecycle!Edge, Lifecycle!CanTransition,
     Lifecycle!ORDER_TRANSITIONS, Lifecycle!OrderStatuses

(* A step that types the rows and moves each order along an edge, or not   *)
(* at all, is a step of the lifecycle.                                     *)
OrderMoves(o) ==
  \/ status'[o] = status[o] /\ (o \in review => o \in review')
  \/ /\ Lifecycle!MayBecome(status[o], status'[o])
     /\ status'[o] \in {"FAILED", "REFUND_PENDING"} => o \in review'
     /\ o \in review /\ o \notin review' => status'[o] \in {"FORFEITED", "REFUNDED"}

(* A step made of such moves is a step of the lifecycle.                   *)
LEMMA MovesAreSteps ==
    DbTypeOK' /\ (\A o \in Orders : OrderMoves(o)) => Lifecycle!Next
  BY DEF DbTypeOK, OrderMoves, Lifecycle!Next, Lifecycle!Advance,
     Lifecycle!Flag, Lifecycle!Owed, OrderStatuses, Lifecycle!OrderStatuses

(* ORD and its payments move orders so.                                    *)
LEMMA CheckoutMoves ==
    DbTypeOK /\ CheckoutContract => \A o \in Orders : OrderMoves(o)
  <1> SUFFICES ASSUME DbTypeOK, CheckoutContract, NEW o \in Orders
      PROVE OrderMoves(o)
    OBVIOUS
  <1> USE Edges DEF OrderMoves, DbTypeOK
  <1>1. ASSUME NEW p \in Orders, OrderPlaced(p) PROVE OrderMoves(o)
    BY <1>1 DEF OrderPlaced, OpenOrders
  <1>2. ASSUME NEW p \in Orders,
               OrderExpired(p) \/ MoneyTooLate(p) \/ MoneyUnusable(p)
        PROVE OrderMoves(o)
    BY <1>2 DEF OrderExpired, MoneyTooLate, MoneyUnusable, FlagForReview
  <1>3. ASSUME NEW p \in Orders, PaidOrderFails(p) PROVE OrderMoves(o)
    BY <1>3 DEF PaidOrderFails, FailBeforeDispense
  <1>4. ASSUME NEW p \in Orders, NEW t \in Transfers, OrderPaid(p, t)
        PROVE OrderMoves(o)
    BY <1>4 DEF OrderPaid
  <1> QED
    BY <1>1, <1>2, <1>3, <1>4 DEF CheckoutContract

(* A forced maintenance moves orders so; nothing else of the mode does.    *)
LEMMA ModeMoves ==
    DbTypeOK /\ (MachineModeNext \/ ForceMaintenance) => \A o \in Orders : OrderMoves(o)
  BY Edges DEF OrderMoves, DbTypeOK, MachineModeNext, SetMode, CompleteDraining,
     OpenRefill, CloseRefill, LoseConnection, Heartbeat, EnableSlot, DisableSlot,
     ForceMaintenance, FailBeforeDispense, PaidQueue

(* DSP moves orders so.                                                    *)
LEMMA DispenseMoves ==
    DbTypeOK /\ DispenseContract => \A o \in Orders : OrderMoves(o)
  <1> SUFFICES ASSUME DbTypeOK, DispenseContract, NEW o \in Orders
      PROVE OrderMoves(o)
    OBVIOUS
  <1> USE Edges DEF OrderMoves, DbTypeOK
  <1>1. ASSUME NEW p \in Orders, OrderArmed(p) PROVE OrderMoves(o)
    BY <1>1 DEF OrderArmed, StartDispense
  <1>2. ASSUME NEW c \in Commands,
               \/ c \in Diags /\ DiagnosticCreated(c)
               \/ CommandSent(c) \/ CommandAcknowledged(c) \/ CommandLost(c)
        PROVE OrderMoves(o)
    BY <1>2 DEF DiagnosticCreated, CommandSent, CommandAcknowledged, CommandLost,
       FlagForReview
  <1>3. ASSUME NEW c \in Commands, NEW outcome \in Outcomes \cup {ExpiredCommand},
               CommandCloses(c, outcome)
        PROVE OrderMoves(o)
    <2>1. /\ outcome.order \in {"DISPENSED", "FAILED", "FORFEITED"}
          /\ outcome.order = "FAILED" => outcome.manualReview
      BY DEF Outcomes, ExpiredCommand, Delivered, Broken, Refused, NotPressed, Outcome
    <2> QED
      BY <1>3, <2>1 DEF CommandCloses, FinishDispense
  <1> QED
    BY <1>1, <1>2, <1>3 DEF DispenseContract, Commands

(* A step of the contract maps to a step or to a stutter of the lifecycle. *)
LEMMA StepRefines ==
    DbTypeOK /\ [ContractNext]_dbVars => [Lifecycle!Next]_Lifecycle!vars
  <1> SUFFICES ASSUME DbTypeOK, [ContractNext]_dbVars
      PROVE [Lifecycle!Next]_Lifecycle!vars
    OBVIOUS
  <1>1. CASE UNCHANGED dbVars
    BY <1>1 DEF Lifecycle!vars
  <1>2. CASE ContractNext
    BY <1>2, StepKeepsType, CheckoutMoves, ModeMoves, DispenseMoves, MovesAreSteps
       DEF ContractNext
  <1> QED
    BY <1>1, <1>2

(* Whatever the components do within the contract, every order follows     *)
(* OrderLifecycle.                                                         *)
THEOREM ContractImplementsLifecycle == ContractSpec => ImplementsLifecycle
  <1>1. DbInit => Lifecycle!Init
    BY InitRefines
  <1>2. DbTypeOK /\ [ContractNext]_dbVars => [Lifecycle!Next]_Lifecycle!vars
    BY StepRefines
  <1> QED
    BY <1>1, <1>2, ContractTypeCorrect, PTL
    DEF ContractSpec, ImplementsLifecycle, Lifecycle!Spec
=============================================================================
