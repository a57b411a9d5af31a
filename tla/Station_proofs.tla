--------------------------- MODULE Station_proofs ---------------------------
(***************************************************************************)
(* Commands and sprays, whatever the broker loses, repeats or delays, and  *)
(* however often the device or the job stops half-way: DSP keeps its part  *)
(* of the contract, and the pump runs once at most for a command.  Then    *)
(* the whole machine: the parts fit, and what was sprayed was paid for.    *)
(***************************************************************************)
EXTENDS Station, Sales_proofs

USE DEF orderVars, machineVars, dbVars, brokerVars, deviceVars, jobVars, bystanders

-----------------------------------------------------------------------------
(* What the device knows, what it has done and what it has reported.       *)

(* A command the device holds, or has sprayed for, is in its history; it   *)
(* is held before its only spray, or during it.                            *)
SprayOnce ==
  /\ \A c \in Commands : sprayed[c] \in {0, 1}
  /\ \A c \in Commands : sprayed[c] = 1 => c \in seen
  /\ state \in {"WAITING", "DISPENSING"} => held \in Commands /\ held \in seen
  /\ state = "WAITING" => sprayed[held] = 0
  /\ state = "DISPENSING" => sprayed[held] = 1

(* Reports stay true: a result was made by a spray, and a command the      *)
(* device let go of for want of a press is never held again.               *)
ReportsTrue ==
  /\ \A c \in Commands : <<c, "OK">> \in reports => sprayed[c] = 1
  /\ \A c \in Commands : <<c, "PRESS_TIMEOUT">> \in reports =>
       c \in seen /\ sprayed[c] = 0 /\ held # c

(* What the platform believes was reported.                                *)
BelievedWasReported ==
  /\ \A c \in Commands : cmd[c] = "SUCCEEDED" => <<c, "OK">> \in reports
  /\ \A o \in Orders : status[o] = "FORFEITED" => <<o, "PRESS_TIMEOUT">> \in reports

DispensingInv ==
  /\ DispensingTypeOK
  /\ SprayOnce
  /\ ReportsTrue
  /\ BelievedWasReported

(* Nothing is known, done or reported at the start.                        *)
LEMMA InitDispensingInv == DispensingInit => DispensingInv
  <1> SUFFICES ASSUME DispensingInit PROVE DispensingInv
    OBVIOUS
  <1>1. DbTypeOK
    BY InitTypeOK DEF DispensingInit
  <1>2. DeviceTypeOK
    BY DeviceAssumption DEF DispensingInit, DeviceInit, DeviceTypeOK
  <1> QED
    BY <1>1, <1>2 DEF DispensingInit, DeviceInit, DbInit, DispensingInv,
       DispensingTypeOK, SprayOnce, ReportsTrue, BelievedWasReported, Commands

-----------------------------------------------------------------------------
(* The device.                                                             *)

(* A delivered command that the device does not take.                      *)
LEMMA RefusalKeepsInv ==
  ASSUME DispensingInv, UNCHANGED <<acknowledged, jobVars>>, NEW c \in Commands,
         \/ RejectExpired(c) \/ RejectDuplicate(c) \/ RejectUnsafe(c)
         \/ IgnoreWhileBusy(c) \/ StorageFails(c)
  PROVE  DispensingInv'
  <1> USE DEF DispensingInv, DispensingTypeOK, RejectExpired, RejectDuplicate,
       RejectUnsafe, IgnoreWhileBusy, StorageFails, Deliver, Report
  <1>1. received' \in [Commands -> 0..MaxCopies]
    BY DeviceAssumption DEF DeviceTypeOK
  <1>2. reports' \subseteq Commands \X Reports
    BY DEF DeviceTypeOK, Reports, ClosingReports
  <1>3. DispensingTypeOK'
    BY <1>1, <1>2 DEF DeviceTypeOK, DbTypeOK
  <1>4. SprayOnce' /\ ReportsTrue' /\ BelievedWasReported'
    BY DEF SprayOnce, ReportsTrue, BelievedWasReported
  <1> QED
    BY <1>3, <1>4

(* acceptCommand, once every check has passed.                             *)
LEMMA AcceptKeepsInv ==
  ASSUME DispensingInv, UNCHANGED <<acknowledged, jobVars>>, NEW c \in Commands,
         AcceptCustomer(c) \/ AcceptDiagnostic(c) \/ AcceptFails(c)
  PROVE  DispensingInv'
  <1> USE DEF DispensingInv, DispensingTypeOK, AcceptCustomer, AcceptDiagnostic,
       AcceptFails, Accept, Deliver, Fresh, IsDuplicate, Remember, Report, SwitchPumpOn
  <1>1. received' \in [Commands -> 0..MaxCopies]
    BY DeviceAssumption DEF DeviceTypeOK
  <1>2. reports' \subseteq Commands \X Reports
    BY DEF DeviceTypeOK, Reports, ClosingReports
  <1>3. DispensingTypeOK'
    BY <1>1, <1>2 DEF DeviceTypeOK, DbTypeOK
  <1>4. sprayed[c] = 0
    BY DEF SprayOnce
  <1>5. SprayOnce'
    BY <1>4 DEF SprayOnce, DeviceTypeOK
  <1>6. ReportsTrue'
    BY <1>4 DEF SprayOnce, ReportsTrue, DeviceTypeOK
  <1>7. BelievedWasReported'
    BY DEF BelievedWasReported
  <1> QED
    BY <1>3, <1>5, <1>6, <1>7

(* From the lamp to the end of the spray.                                  *)
LEMMA ButtonKeepsInv ==
  ASSUME DispensingInv, UNCHANGED <<acknowledged, jobVars>>,
         Press \/ PressRefused \/ PressTimeout \/ FinishPump \/ RestOver
  PROVE  DispensingInv'
  <1> USE DEF DispensingInv, DispensingTypeOK, Press, PressRefused, PressTimeout,
       FinishPump, RestOver, Report, Clear, SwitchPumpOn
  <1>1. reports' \subseteq Commands \X Reports
    BY DEF DeviceTypeOK, SprayOnce, Reports, ClosingReports
  <1>2. DispensingTypeOK'
    BY <1>1 DEF DeviceTypeOK, DbTypeOK
  <1>3. NoCommand \notin Commands
    BY NoCommandAssumption
  <1>4. SprayOnce'
    BY DEF SprayOnce, DeviceTypeOK
  <1>5. ReportsTrue'
    BY <1>3 DEF SprayOnce, ReportsTrue, DeviceTypeOK
  <1>6. BelievedWasReported'
    BY DEF BelievedWasReported
  <1> QED
    BY <1>2, <1>4, <1>5, <1>6

(* Configurations, power losses and time.                                  *)
LEMMA DriftKeepsInv ==
  ASSUME DispensingInv, UNCHANGED <<acknowledged, jobVars>>,
         \/ PublishConfiguration \/ ApplyConfiguration \/ Reboot
         \/ \E c \in Commands : CommandExpires(c)
  PROVE  DispensingInv'
  <1> USE NoCommandAssumption DEF DispensingInv, DispensingTypeOK,
       PublishConfiguration, ApplyConfiguration, Reboot, CommandExpires, Report, Clear
  <1>1. reports' \subseteq Commands \X Reports
    BY DEF DeviceTypeOK, SprayOnce, Reports, ClosingReports
  <1>2. DispensingTypeOK'
    BY <1>1, DeviceAssumption DEF DeviceTypeOK, DbTypeOK, DeviceOperatingMode, OperatingModes
  <1>3. SprayOnce' /\ ReportsTrue' /\ BelievedWasReported'
    BY DEF SprayOnce, ReportsTrue, BelievedWasReported
  <1> QED
    BY <1>2, <1>3

-----------------------------------------------------------------------------
(* DSP and the shop front.  They change nothing of the device but the      *)
(* commands at the broker, and what the platform believes only on a report.*)

(* The platform reports nothing and sprays nothing.                        *)
LEMMA PlatformKeepsDevice ==
  ASSUME DispensingInv,
         UNCHANGED <<state, held, seen, reports, sprayed>>
  PROVE  SprayOnce' /\ ReportsTrue'
  BY DEF DispensingInv, SprayOnce, ReportsTrue

(* What the contract lets ORD and the machine's mode do creates no success *)
(* and no forfeit.                                                         *)
LEMMA ShopFrontBelieves ==
  ASSUME DbTypeOK, ShopFront
  PROVE  /\ UNCHANGED cmd
         /\ \A o \in Orders : status'[o] = "FORFEITED" => status[o] = "FORFEITED"
  <1> USE DEF DbTypeOK
  <1>1. CASE CheckoutContract
    BY <1>1 DEF CheckoutContract, OrderPlaced, OrderExpired, MoneyTooLate,
       MoneyUnusable, PaidOrderFails, FailBeforeDispense, OrderPaid
  <1>2. CASE MachineModeNext
    BY <1>2 DEF MachineModeNext, SetMode, CompleteDraining, OpenRefill, CloseRefill,
       LoseConnection, Heartbeat, EnableSlot, DisableSlot
  <1>3. CASE ForceMaintenance
    BY <1>3 DEF ForceMaintenance, FailBeforeDispense
  <1> QED
    BY <1>1, <1>2, <1>3 DEF ShopFront

(* Orders, payments and modes do not touch the device.                     *)
LEMMA ShopFrontKeepsInv ==
  ASSUME DispensingInv, ShopFront, UNCHANGED <<deviceVars, acknowledged, jobVars>>
  PROVE  DispensingInv'
  <1>1. DispensingTypeOK'
    BY CheckoutKeepsType, ModeKeepsType
    DEF DispensingInv, DispensingTypeOK, DeviceTypeOK, ShopFront
  <1>2. SprayOnce' /\ ReportsTrue'
    BY PlatformKeepsDevice
  <1>3. BelievedWasReported'
    BY ShopFrontBelieves DEF DispensingInv, DispensingTypeOK, BelievedWasReported
  <1> QED
    BY <1>1, <1>2, <1>3 DEF DispensingInv

(* The dispatch job, up to markSent.                                       *)
LEMMA JobKeepsInv ==
  ASSUME DispensingInv,
         \/ \E o \in Orders : ReadCandidate(o)
         \/ ArmCandidate \/ ListOutgoing \/ MarkSent \/ TickFails
         \/ \E c \in Commands : Publish(c)
  PROVE  DispensingInv'
  <1> USE NoCommandAssumption DEF DispensingInv, DispensingTypeOK
  <1>1. ASSUME NEW o \in Orders, ReadCandidate(o) PROVE DispensingInv'
    <2>1. DispensingTypeOK'
      BY <1>1 DEF ReadCandidate, DbTypeOK, DeviceTypeOK
    <2> QED
      BY <1>1, <2>1, PlatformKeepsDevice DEF ReadCandidate, BelievedWasReported
  <1>2. CASE ArmCandidate
    <2>1. candidate \in Orders
      BY <1>2 DEF ArmCandidate
    <2>2. DbTypeOK'
      BY <1>2, <2>1, CheckoutKeepsType, DispenseKeepsType
      DEF ArmCandidate, CheckoutContract, DispenseContract, DbTypeOK
    <2>3. DispensingTypeOK'
      BY <1>2, <2>2 DEF ArmCandidate, DeviceTypeOK
    <2>4. BelievedWasReported'
      BY <1>2, <2>1 DEF ArmCandidate, OrderArmed, StartDispense, PaidOrderFails,
         FailBeforeDispense, BelievedWasReported, DbTypeOK, Commands
    <2> QED
      BY <1>2, <2>3, <2>4, PlatformKeepsDevice DEF ArmCandidate
  <1>3. CASE ListOutgoing \/ TickFails
    <2>1. DispensingTypeOK'
      BY <1>3 DEF ListOutgoing, Unsent, TickFails, DbTypeOK, DeviceTypeOK
    <2> QED
      BY <1>3, <2>1, PlatformKeepsDevice DEF ListOutgoing, TickFails, BelievedWasReported
  <1>4. CASE MarkSent
    <2>1. published \in Commands
      BY <1>4 DEF MarkSent
    <2>2. DbTypeOK'
      BY <1>4, <2>1, DispenseKeepsType DEF MarkSent, DispenseContract, DbTypeOK
    <2>3. DispensingTypeOK'
      BY <1>4, <2>2 DEF MarkSent, DeviceTypeOK
    <2>4. BelievedWasReported'
      BY <1>4, <2>1 DEF MarkSent, CommandSent, BelievedWasReported, DbTypeOK
    <2> QED
      BY <1>4, <2>3, <2>4, PlatformKeepsDevice DEF MarkSent
  <1>5. ASSUME NEW c \in Commands, Publish(c) PROVE DispensingInv'
    <2>1. DispensingTypeOK'
      BY <1>5 DEF Publish, DbTypeOK, DeviceTypeOK
    <2> QED
      BY <1>5, <2>1, PlatformKeepsDevice DEF Publish, BelievedWasReported
  <1> QED
    BY <1>1, <1>2, <1>3, <1>4, <1>5

(* Reports, sweeps and diagnostics.                                        *)
LEMMA AnswerKeepsInv ==
  ASSUME DispensingInv, NEW c \in Commands,
         \/ HandleAck(c)
         \/ \E report \in ClosingReports : HandleClosing(c, report)
         \/ SweepUnsent(c) \/ SweepUnanswered(c)
         \/ c \in Diags /\ CreateDiagnostic(c)
  PROVE  DispensingInv'
  <1> USE DEF DispensingInv, DispensingTypeOK
  <1>1. UNCHANGED deviceVars
    BY DEF HandleAck, HandleClosing, SweepUnsent, SweepUnanswered, CreateDiagnostic
  <1>2. ASSUME NEW report \in ClosingReports
        PROVE  LET outcome == OutcomeOf(report, c \in acknowledged) IN
               /\ outcome \in Outcomes
               /\ outcome.command = "SUCCEEDED" => report = "OK"
               /\ outcome.order = "FORFEITED" => report = "PRESS_TIMEOUT"
    BY DEF ClosingReports, OutcomeOf, Forfeits, Outcomes, Delivered, Broken, Refused,
       NotPressed, Outcome
  <1>3. DispenseContract
    BY <1>2 DEF HandleAck, HandleClosing, SweepUnsent, SweepUnanswered,
       CreateDiagnostic, DispenseContract
  <1>4. DispensingTypeOK'
    BY <1>1, <1>3, DispenseKeepsType
    DEF DeviceTypeOK, HandleAck, HandleClosing, SweepUnsent, SweepUnanswered,
        CreateDiagnostic
  <1>5. SprayOnce' /\ ReportsTrue'
    BY <1>1, PlatformKeepsDevice
  <1>6. BelievedWasReported'
    <2> USE DEF DbTypeOK, BelievedWasReported, Commands
    <2>1. CASE HandleAck(c)
      BY <1>1, <2>1 DEF HandleAck, CommandAcknowledged
    <2>2. ASSUME NEW report \in ClosingReports, HandleClosing(c, report)
          PROVE  BelievedWasReported'
      <3> DEFINE outcome == OutcomeOf(report, c \in acknowledged)
      <3>1. /\ outcome.command = "SUCCEEDED" => report = "OK"
            /\ outcome.order = "FORFEITED" => report = "PRESS_TIMEOUT"
        BY <1>2
      <3>2. CommandCloses(c, outcome) /\ <<c, report>> \in reports
        BY <2>2 DEF HandleClosing
      <3>3. reports' = reports
        BY <1>1
      <3> HIDE DEF outcome
      <3>4. ASSUME NEW d \in Commands, cmd'[d] = "SUCCEEDED"
            PROVE  <<d, "OK">> \in reports
        BY <3>1, <3>2, <3>4 DEF CommandCloses
      <3>5. ASSUME NEW o \in Orders, status'[o] = "FORFEITED"
            PROVE  <<o, "PRESS_TIMEOUT">> \in reports
        <4>1. CASE status'[o] = status[o]
          BY <3>5, <4>1
        <4>2. CASE o = c /\ status'[o] = outcome.order
          BY <3>1, <3>2, <3>5, <4>2
        <4> QED
          BY <3>2, <4>1, <4>2 DEF CommandCloses, FinishDispense
      <3> QED
        BY <3>3, <3>4, <3>5
    <2>3. CASE SweepUnsent(c)
      BY <1>1, <2>3 DEF SweepUnsent, CommandCloses, FinishDispense, ExpiredCommand, Outcome
    <2>4. CASE SweepUnanswered(c)
      BY <1>1, <2>4 DEF SweepUnanswered, CommandLost
    <2>5. CASE c \in Diags /\ CreateDiagnostic(c)
      BY <1>1, <2>5 DEF CreateDiagnostic, DiagnosticCreated
    <2> QED
      BY <2>1, <2>2, <2>3, <2>4, <2>5
  <1> QED
    BY <1>4, <1>5, <1>6

(* DispensingInv is inductive.                                             *)
LEMMA StepKeepsDispensingInv ==
    DispensingInv /\ [DispensingNext]_dispensingVars => DispensingInv'
  <1> SUFFICES ASSUME DispensingInv, [DispensingNext]_dispensingVars
      PROVE  DispensingInv'
    OBVIOUS
  <1>1. CASE UNCHANGED dispensingVars
    BY <1>1 DEF dispensingVars, DispensingInv, DispensingTypeOK, DeviceTypeOK, DbTypeOK,
       SprayOnce, ReportsTrue, BelievedWasReported
  <1>2. CASE DspNext
    BY <1>2, JobKeepsInv, AnswerKeepsInv DEF DspNext, Commands
  <1>3. CASE DeviceNext /\ UNCHANGED <<acknowledged, jobVars>>
    BY <1>3, RefusalKeepsInv, AcceptKeepsInv, ButtonKeepsInv, DriftKeepsInv
    DEF DeviceNext
  <1>4. CASE ShopFront /\ UNCHANGED <<deviceVars, acknowledged, jobVars>>
    BY <1>4, ShopFrontKeepsInv
  <1> QED
    BY <1>1, <1>2, <1>3, <1>4 DEF DispensingNext

(* DSP and the device keep DispensingInv: a spray is remembered before it  *)
(* happens, and a result is believed only if the device has reported it.   *)
THEOREM DispensingSafety == DispensingSpec => []DispensingInv
  <1>1. DispensingInit => DispensingInv
    BY InitDispensingInv
  <1>2. DispensingInv /\ [DispensingNext]_dispensingVars => DispensingInv'
    BY StepKeepsDispensingInv
  <1> QED
    BY <1>1, <1>2, PTL DEF DispensingSpec

(* The pump runs at most once for a command.                               *)
THEOREM DispensingOneSpray == DispensingSpec => []OneSprayPerCommand
  <1>1. DispensingInv => OneSprayPerCommand
    BY DEF DispensingInv, SprayOnce, OneSprayPerCommand
  <1> QED
    BY <1>1, DispensingSafety, PTL

(* A success is never inferred.                                            *)
THEOREM DispensingSucceededWasSprayed == DispensingSpec => []SucceededWasSprayed
  <1>1. DispensingInv => SucceededWasSprayed
    BY DEF DispensingInv, ReportsTrue, BelievedWasReported, SucceededWasSprayed
  <1> QED
    BY <1>1, DispensingSafety, PTL

(* A forfeited spray was offered, and is never given.                      *)
THEOREM DispensingForfeitedWasOffered == DispensingSpec => []ForfeitedWasOffered
  <1>1. DispensingInv => ForfeitedWasOffered
    BY DEF DispensingInv, ReportsTrue, BelievedWasReported, ForfeitedWasOffered, Commands
  <1> QED
    BY <1>1, DispensingSafety, PTL

(* Neither a success nor a forfeit is recorded without its cause.          *)
THEOREM DispensingResultsAreTrue == DispensingSpec => []ResultsAreTrue
  BY DispensingSucceededWasSprayed, DispensingForfeitedWasOffered, PTL DEF ResultsAreTrue

-----------------------------------------------------------------------------
(* Refinement: on the shared rows DSP does what StationContract allows.    *)

(* The device does not write the rows.                                     *)
LEMMA DeviceLeavesRows == DeviceNext => UNCHANGED dbVars
  BY DEF DeviceNext, RejectExpired, RejectDuplicate, RejectUnsafe, IgnoreWhileBusy,
     StorageFails, AcceptCustomer, AcceptDiagnostic, AcceptFails, Accept, Deliver,
     CommandExpires, Press, PressRefused, PressTimeout, FinishPump, RestOver,
     PublishConfiguration, ApplyConfiguration, Reboot

(* A step of the job or of a report does what DSP may do, fails an order   *)
(* that cannot be armed, or leaves the rows alone.                         *)
LEMMA DspRefines ==
  ASSUME DispensingInv, DspNext
  PROVE  DispenseContract \/ (\E o \in Orders : PaidOrderFails(o)) \/ UNCHANGED dbVars
  <1> USE NoCommandAssumption DEF DispensingInv, DispensingTypeOK
  <1>1. ASSUME NEW c \in Commands,
               \/ HandleAck(c) \/ SweepUnsent(c) \/ SweepUnanswered(c)
               \/ c \in Diags /\ CreateDiagnostic(c)
        PROVE  DispenseContract
    BY <1>1 DEF HandleAck, SweepUnsent, SweepUnanswered, CreateDiagnostic, DispenseContract
  <1>2. ASSUME NEW c \in Commands, NEW report \in ClosingReports, HandleClosing(c, report)
        PROVE  DispenseContract
    <2>1. OutcomeOf(report, c \in acknowledged) \in Outcomes
      BY DEF ClosingReports, OutcomeOf, Forfeits, Outcomes
    <2> QED
      BY <1>2, <2>1 DEF HandleClosing, DispenseContract
  <1>3. CASE ArmCandidate
    BY <1>3 DEF ArmCandidate, DispenseContract
  <1>4. CASE MarkSent
    BY <1>4 DEF MarkSent, DispenseContract
  <1>5. ASSUME \/ \E o \in Orders : ReadCandidate(o)
               \/ ListOutgoing \/ TickFails
               \/ \E c \in Commands : Publish(c)
        PROVE  UNCHANGED dbVars
    BY <1>5 DEF ReadCandidate, ListOutgoing, TickFails, Publish
  <1> QED
    BY <1>1, <1>2, <1>3, <1>4, <1>5 DEF DspNext, Commands

(* Each step of Dispensing maps to a step or to a stutter of the contract. *)
LEMMA DispensingStepRefines ==
    DispensingInv /\ [DispensingNext]_dispensingVars => [ContractNext]_dbVars
  <1> SUFFICES ASSUME DispensingInv, [DispensingNext]_dispensingVars
      PROVE  ContractNext \/ UNCHANGED dbVars
    OBVIOUS
  <1>1. CASE UNCHANGED dispensingVars
    BY <1>1 DEF dispensingVars
  <1>2. CASE DeviceNext
    BY <1>2, DeviceLeavesRows
  <1>3. CASE ShopFront
    BY <1>3 DEF ShopFront, ContractNext
  <1>4. CASE DspNext
    BY <1>4, DspRefines DEF ContractNext, CheckoutContract
  <1> QED
    BY <1>1, <1>2, <1>3, <1>4 DEF DispensingNext

(* DSP and the device keep the contract, however messages and crashes fall.*)
THEOREM DispensingImplementsContract == DispensingSpec => ContractSpec
  <1>1. DispensingInit => DbInit
    BY DEF DispensingInit
  <1>2. DispensingInv /\ [DispensingNext]_dispensingVars => [ContractNext]_dbVars
    BY DispensingStepRefines
  <1> QED
    BY <1>1, <1>2, DispensingSafety, PTL DEF DispensingSpec, ContractSpec

(* Hence what the contract guarantees holds of Dispensing.                 *)
THEOREM DispensingKeepsPromises == DispensingSpec => []ContractInv /\ ImplementsLifecycle
  BY DispensingImplementsContract, ContractSafety, ContractImplementsLifecycle, PTL

(* Types, the device's included.                                           *)
THEOREM DispensingTypeCorrect == DispensingSpec => []DispensingTypeOK
  <1>1. DispensingInv => DispensingTypeOK
    BY DEF DispensingInv
  <1> QED
    BY <1>1, DispensingSafety, PTL

-----------------------------------------------------------------------------
(* Commands only advance: within the contract each step takes a command    *)
(* further, so late, repeated and reordered reports cannot take one back.  *)

Advances ==
  \A c \in Commands : cmd'[c] # cmd[c] => Progress(cmd[c]) < Progress(cmd'[c])

(* A command only moves forward in any step of the contract.               *)
LEMMA ContractAdvances == DbTypeOK /\ [ContractNext]_dbVars => Advances
  <1> SUFFICES ASSUME DbTypeOK, [ContractNext]_dbVars PROVE Advances
    OBVIOUS
  <1> USE DEF Advances, Progress, DbTypeOK
  <1>1. CASE UNCHANGED dbVars \/ CheckoutContract \/ MachineModeNext \/ ForceMaintenance
    <2>1. cmd' = cmd
      BY <1>1 DEF CheckoutContract, OrderPlaced, OrderExpired, MoneyTooLate, MoneyUnusable,
         PaidOrderFails, OrderPaid, MachineModeNext, SetMode, CompleteDraining,
         OpenRefill, CloseRefill, LoseConnection, Heartbeat, EnableSlot, DisableSlot,
         ForceMaintenance
    <2> QED
      BY <2>1
  <1>2. ASSUME NEW c \in Commands,
               \/ c \in Orders /\ OrderArmed(c)
               \/ c \in Diags /\ DiagnosticCreated(c)
               \/ CommandSent(c) \/ CommandAcknowledged(c) \/ CommandLost(c)
        PROVE  Advances
    <2>1. \A d \in Commands : d # c => cmd'[d] = cmd[d]
      BY <1>2 DEF OrderArmed, DiagnosticCreated, CommandSent, CommandAcknowledged,
         CommandLost
    <2>2. <<cmd[c], cmd'[c]>> \in
            {<<"NONE", "CREATED">>, <<"CREATED", "SENT">>,
             <<"CREATED", "ACKNOWLEDGED">>, <<"SENT", "ACKNOWLEDGED">>,
             <<"SENT", "UNKNOWN">>, <<"ACKNOWLEDGED", "UNKNOWN">>}
      BY <1>2 DEF OrderArmed, DiagnosticCreated, CommandSent, CommandAcknowledged,
         CommandLost, ACKNOWLEDGEABLE_STATUSES
    <2>3. Progress(cmd[c]) < Progress(cmd'[c])
      BY <2>2
    <2> QED
      BY <2>1, <2>3
  <1>3. ASSUME NEW c \in Commands, NEW outcome \in Outcomes \cup {ExpiredCommand},
               CommandCloses(c, outcome)
        PROVE  Advances
    <2>1. \A d \in Commands : d # c => cmd'[d] = cmd[d]
      BY <1>3 DEF CommandCloses
    <2>2. outcome.command \in {"SUCCEEDED", "FAILED", "REJECTED", "EXPIRED"}
      BY DEF Outcomes, ExpiredCommand, Delivered, Broken, Refused, NotPressed, Outcome
    <2>3. /\ cmd[c] \in {"CREATED", "SENT", "ACKNOWLEDGED", "UNKNOWN"}
          /\ cmd'[c] = outcome.command
      BY <1>3 DEF CommandCloses, CLOSABLE_STATUSES, ACTIVE_COMMAND_STATUSES
    <2>4. Progress(cmd[c]) < 5 /\ Progress(cmd'[c]) = 5
      BY <2>2, <2>3
    <2>5. Progress(cmd[c]) < Progress(cmd'[c])
      BY <2>4
    <2> QED
      BY <2>1, <2>5
  <1> QED
    BY <1>1, <1>2, <1>3 DEF ContractNext, DispenseContract, Commands

(* No late, repeated or reordered report takes a command back              *)
(* (handleDeviceResult, markSent).                                         *)
THEOREM DispensingCommandNeverGoesBack == DispensingSpec => CommandNeverGoesBack
  <1>1. DispensingInv /\ [DispensingNext]_dispensingVars => [Advances]_dispensingVars
    BY DispensingStepRefines, ContractAdvances DEF DispensingInv, DispensingTypeOK
  <1>2. [Advances]_dispensingVars =>
          [\A c \in Commands :
             cmd'[c] # cmd[c] => Progress(cmd[c]) < Progress(cmd'[c])]_dispensingVars
    BY DEF Advances
  <1> QED
    BY <1>1, <1>2, DispensingSafety, PTL DEF DispensingSpec, CommandNeverGoesBack

-----------------------------------------------------------------------------
(* With a broker that delivers each command once at most, a refusal is the  *)
(* last of it: the device has not sprayed and does not see it again.        *)

Refusals == {"REFUSED", "DUPLICATE", "PRESS_TIMEOUT"}

RefusedIsUnsprayed ==
  /\ \A c \in Commands : received[c] = 0 =>
       /\ c \notin seen /\ c # held
       /\ \A report \in Reports : <<c, report>> \notin reports
  /\ \A c \in Commands : \A report \in Refusals :
       <<c, report>> \in reports => sprayed[c] = 0 /\ c # held
  /\ \A c \in Commands : cmd[c] = "REJECTED" =>
       \E report \in Refusals : <<c, report>> \in reports
  /\ state \in {"IDLE", "RESTING"} => held = NoCommand

OnceInv == DispensingInv /\ RefusedIsUnsprayed

(* A command is delivered for the first time, or not at all.               *)
LEMMA DeliveryKeepsRefusals ==
  ASSUME MaxCopies \in {0, 1}, OnceInv, NEW c \in Commands,
         \/ RejectExpired(c) \/ RejectDuplicate(c) \/ RejectUnsafe(c) \/ IgnoreWhileBusy(c)
         \/ StorageFails(c) \/ AcceptCustomer(c) \/ AcceptDiagnostic(c) \/ AcceptFails(c)
  PROVE  RefusedIsUnsprayed'
  <1> USE DEF OnceInv, DispensingInv, DispensingTypeOK, DeviceTypeOK
  <1>1. /\ received[c] = 0
        /\ received' = [received EXCEPT ![c] = @ + 1]
        /\ state # "DISPENSING"
        /\ UNCHANGED dbVars
    BY DEF RejectExpired, RejectDuplicate, RejectUnsafe, IgnoreWhileBusy, StorageFails,
       AcceptCustomer, AcceptDiagnostic, AcceptFails, Accept, Deliver
  <1>2. /\ c \notin seen /\ c # held /\ sprayed[c] = 0
        /\ \A report \in Reports : <<c, report>> \notin reports
    BY <1>1 DEF RefusedIsUnsprayed, SprayOnce
  <1>3. /\ \A d \in Commands \ {c} : /\ received'[d] = received[d] /\ sprayed'[d] = sprayed[d]
                                     /\ d \in seen' => d \in seen
                                     /\ d = held' => d = held
        /\ received'[c] = 1
    BY <1>1, <1>2 DEF RejectExpired, RejectDuplicate, RejectUnsafe, IgnoreWhileBusy,
       StorageFails, AcceptCustomer, AcceptDiagnostic, AcceptFails, Accept, Deliver, Remember,
       SwitchPumpOn
  <1>4. /\ \A d \in Commands \ {c} : \A report \in Reports :
             <<d, report>> \in reports' <=> <<d, report>> \in reports
        /\ reports \subseteq reports'
        /\ \A report \in Refusals : <<c, report>> \in reports' => sprayed'[c] = 0 /\ c # held'
    BY <1>1, <1>2 DEF RejectExpired, RejectDuplicate, RejectUnsafe, IgnoreWhileBusy,
       StorageFails, AcceptCustomer, AcceptDiagnostic, AcceptFails, Accept, Deliver, Report,
       SwitchPumpOn, Refusals, Reports, ClosingReports
  <1>5. state' \in {"IDLE", "RESTING"} => held' = NoCommand
    BY <1>1 DEF RefusedIsUnsprayed, RejectExpired, RejectDuplicate, RejectUnsafe,
       IgnoreWhileBusy, StorageFails, AcceptCustomer, AcceptDiagnostic, AcceptFails, Accept,
       SwitchPumpOn
  <1>6. Refusals \subseteq Reports
    BY DEF Refusals, Reports, ClosingReports
  <1>7. \A d \in Commands : received'[d] = 0 =>
          /\ d \notin seen' /\ d # held'
          /\ \A report \in Reports : <<d, report>> \notin reports'
    BY <1>3, <1>4 DEF RefusedIsUnsprayed
  <1>8. \A d \in Commands : \A report \in Refusals :
          <<d, report>> \in reports' => sprayed'[d] = 0 /\ d # held'
    BY <1>3, <1>4, <1>6 DEF RefusedIsUnsprayed
  <1>9. \A d \in Commands : cmd'[d] = "REJECTED" =>
          \E report \in Refusals : <<d, report>> \in reports'
    BY <1>1, <1>4 DEF RefusedIsUnsprayed
  <1> QED
    BY <1>5, <1>7, <1>8, <1>9 DEF RefusedIsUnsprayed

(* The device lets go of a command it holds lit, and says so.              *)
LEMMA LettingGoKeepsRefusals ==
  ASSUME OnceInv, held \in Commands, sprayed[held] = 0, received[held] # 0,
         NEW report \in Reports, reports' = reports \cup {<<held, report>>},
         state' = "IDLE", held' = NoCommand, UNCHANGED <<cmd, seen, received, sprayed>>
  PROVE  RefusedIsUnsprayed'
  <1>1. RefusedIsUnsprayed
    BY DEF OnceInv
  <1>2. \A c \in Commands : c # held' /\ (received'[c] = 0 => c \notin seen')
    BY <1>1, NoCommandAssumption DEF RefusedIsUnsprayed
  <1>3. \A c \in Commands, r \in Reports :
          <<c, r>> \in reports' => <<c, r>> \in reports \/ c = held
    OBVIOUS
  <1>4. \A c \in Commands : received'[c] = 0 =>
          \A r \in Reports : <<c, r>> \notin reports'
    BY <1>1, <1>3 DEF RefusedIsUnsprayed
  <1>5. \A c \in Commands : \A r \in Refusals : <<c, r>> \in reports' => sprayed'[c] = 0
    BY <1>1, <1>3 DEF RefusedIsUnsprayed, Refusals, Reports, ClosingReports
  <1>6. \A c \in Commands : cmd'[c] = "REJECTED" =>
          \E r \in Refusals : <<c, r>> \in reports'
    BY <1>1 DEF RefusedIsUnsprayed
  <1> QED
    BY <1>2, <1>4, <1>5, <1>6 DEF RefusedIsUnsprayed

(* What the device does on its own: only the lamp's command is refused.    *)
LEMMA DeviceKeepsRefusals ==
  ASSUME OnceInv,
         \/ Press \/ PressRefused \/ PressTimeout \/ FinishPump \/ RestOver
         \/ PublishConfiguration \/ ApplyConfiguration \/ Reboot
         \/ \E c \in Commands : CommandExpires(c)
  PROVE  RefusedIsUnsprayed'
  <1> USE NoCommandAssumption
      DEF OnceInv, DispensingInv, DispensingTypeOK, DeviceTypeOK, RefusedIsUnsprayed
  <1>1. CASE Press
    BY <1>1 DEF Press, SwitchPumpOn, SprayOnce
  <1>2. CASE PressRefused \/ PressTimeout
    <2>1. held \in Commands /\ sprayed[held] = 0 /\ received[held] # 0
      BY <1>2 DEF PressRefused, PressTimeout, SprayOnce
    <2>2. PICK report \in Reports : reports' = reports \cup {<<held, report>>}
      BY <1>2 DEF PressRefused, PressTimeout, Report, Reports, ClosingReports
    <2>3. state' = "IDLE" /\ held' = NoCommand /\ UNCHANGED <<bystanders, sprayed>>
      BY <1>2 DEF PressRefused, PressTimeout, Clear
    <2> QED
      BY <2>1, <2>2, <2>3, LettingGoKeepsRefusals
  <1>3. CASE FinishPump
    <2>1. held \in Commands /\ received[held] # 0
      BY <1>3 DEF FinishPump, SprayOnce
    <2> QED
      BY <1>3, <2>1 DEF FinishPump, Refusals
  <1>4. CASE RestOver \/ PublishConfiguration \/ Reboot \/ \E c \in Commands : CommandExpires(c)
    BY <1>4 DEF RestOver, PublishConfiguration, Reboot, CommandExpires, Clear
  <1>5. CASE ApplyConfiguration
    <2>1. CASE state = "WAITING" /\ config # "NORMAL"
      <3>1. held \in Commands /\ sprayed[held] = 0 /\ received[held] # 0
        BY <2>1 DEF SprayOnce
      <3>2. /\ reports' = reports \cup {<<held, "REFUSED">>} /\ "REFUSED" \in Reports
            /\ state' = "IDLE" /\ held' = NoCommand
            /\ UNCHANGED <<cmd, seen, received, sprayed>>
        BY <1>5, <2>1 DEF ApplyConfiguration, Report, Clear, Reports, ClosingReports
      <3> QED
        BY <3>1, <3>2, LettingGoKeepsRefusals
    <2>2. CASE ~(state = "WAITING" /\ config # "NORMAL")
      BY <1>5, <2>2 DEF ApplyConfiguration
    <2> QED
      BY <2>1, <2>2
  <1> QED
    BY <1>1, <1>2, <1>3, <1>4, <1>5

(* DSP marks a command REJECTED only on a refusal.                         *)
LEMMA PlatformKeepsRefusals ==
  ASSUME OnceInv,
         \/ DspNext
         \/ ShopFront /\ UNCHANGED <<deviceVars, acknowledged, jobVars>>
  PROVE  RefusedIsUnsprayed'
  <1> USE DEF OnceInv, DispensingInv, DispensingTypeOK, DbTypeOK
  <1>1. ASSUME UNCHANGED <<state, held, seen, received, reports, sprayed>>,
               \A c \in Commands : cmd'[c] = "REJECTED" =>
                 cmd[c] = "REJECTED" \/ \E report \in Refusals : <<c, report>> \in reports
        PROVE  RefusedIsUnsprayed'
    BY <1>1 DEF RefusedIsUnsprayed
  <1>2. CASE ShopFront /\ UNCHANGED <<deviceVars, acknowledged, jobVars>>
    BY <1>1, <1>2, ShopFrontBelieves
  <1>3. CASE \/ \E o \in Orders : ReadCandidate(o)
             \/ ListOutgoing \/ TickFails \/ \E c \in Commands : Publish(c)
    BY <1>1, <1>3 DEF ReadCandidate, ListOutgoing, TickFails, Publish
  <1>4. CASE ArmCandidate
    BY <1>1, <1>4 DEF ArmCandidate, OrderArmed, StartDispense, PaidOrderFails,
       FailBeforeDispense
  <1>5. CASE MarkSent
    BY <1>1, <1>5 DEF MarkSent, CommandSent
  <1>6. ASSUME NEW c \in Commands, NEW report \in ClosingReports, HandleClosing(c, report)
        PROVE  RefusedIsUnsprayed'
    <2>1. OutcomeOf(report, c \in acknowledged).command = "REJECTED" => report \in Refusals
      BY DEF ClosingReports, OutcomeOf, Forfeits, Delivered, Broken, Refused, NotPressed,
         Outcome, Refusals
    <2> HIDE DEF Refusals
    <2> QED
      BY <1>1, <1>6, <2>1 DEF HandleClosing, CommandCloses
  <1>7. ASSUME NEW c \in Commands,
               \/ HandleAck(c) \/ SweepUnsent(c) \/ SweepUnanswered(c)
               \/ c \in Diags /\ CreateDiagnostic(c)
        PROVE  RefusedIsUnsprayed'
    BY <1>1, <1>7 DEF HandleAck, CommandAcknowledged, SweepUnsent, CommandCloses,
       ExpiredCommand, Outcome, SweepUnanswered, CommandLost, CreateDiagnostic,
       DiagnosticCreated
  <1> QED
    BY <1>2, <1>3, <1>4, <1>5, <1>6, <1>7 DEF DspNext, Commands

(* A rejected command never sprays, however the rest is delayed, lost or   *)
(* restarted, unless the broker delivers a command a second time: then it  *)
(* may (RejectedNeverSprays fails with two deliveries).                    *)
THEOREM DispensingRejectedNeverSprays ==
  ASSUME MaxCopies \in {0, 1}
  PROVE  DispensingSpec => []RejectedNeverSprays
  <1>1. DispensingInit => OnceInv
    <2>1. DispensingInit => RefusedIsUnsprayed
      BY NoCommandAssumption
      DEF DispensingInit, DeviceInit, DbInit, RefusedIsUnsprayed, Refusals
    <2> QED
      BY <2>1, InitDispensingInv DEF OnceInv
  <1>2. OnceInv /\ [DispensingNext]_dispensingVars => OnceInv'
    <2> SUFFICES ASSUME OnceInv, [DispensingNext]_dispensingVars PROVE OnceInv'
      OBVIOUS
    <2>1. DispensingInv'
      BY StepKeepsDispensingInv DEF OnceInv
    <2> SUFFICES RefusedIsUnsprayed'
      BY <2>1 DEF OnceInv
    <2>2. CASE UNCHANGED dispensingVars
      BY <2>2 DEF OnceInv, RefusedIsUnsprayed, dispensingVars
    <2>3. CASE DeviceNext
      BY <2>3, DeliveryKeepsRefusals, DeviceKeepsRefusals DEF DeviceNext
    <2>4. CASE \/ DspNext
               \/ ShopFront /\ UNCHANGED <<deviceVars, acknowledged, jobVars>>
      BY <2>4, PlatformKeepsRefusals
    <2> QED
      BY <2>2, <2>3, <2>4 DEF DispensingNext
  <1>3. OnceInv => RejectedNeverSprays
    BY DEF OnceInv, RefusedIsUnsprayed, RejectedNeverSprays
  <1> QED
    BY <1>1, <1>2, <1>3, PTL DEF DispensingSpec

-----------------------------------------------------------------------------
(* The whole machine.  Each part keeps its invariant under the steps of    *)
(* the other, because those do on the rows what the contract allows.       *)

StationInv == SalesInv /\ DispensingInv

(* A step of the machine is a step of each part, or leaves it alone.       *)
LEMMA StationStepServesParts ==
  ASSUME StationInv, StationNext
  PROVE  [SalesNext]_salesVars /\ [DispensingNext]_dispensingVars
  <1> USE DEF StationInv, salesVars, dispensingVars, serviceVars
  <1>1. CASE CheckoutNext /\ UNCHANGED serviceVars
    BY <1>1, CheckoutRefines DEF SalesNext, DispensingNext, ShopFront
  <1>2. CASE MachineModeNext /\ UNCHANGED <<checkoutVars, serviceVars>>
    BY <1>2 DEF SalesNext, DispensingNext, ShopFront
  <1>3. CASE DspNext /\ UNCHANGED checkoutVars
    <2>1. DispensingNext
      BY <1>3 DEF DispensingNext
    <2>2. ASSUME NEW o \in Orders, PaidOrderFails(o) PROVE CheckoutNext
      BY <1>3, <2>2 DEF PaidOrderFails, QueueTimeout, CheckoutNext
    <2>3. SalesNext \/ UNCHANGED salesVars
      BY <1>3, <2>2, DspRefines DEF SalesNext
    <2> QED
      BY <2>1, <2>3
  <1>4. CASE DeviceNext /\ UNCHANGED <<checkoutVars, acknowledged, jobVars>>
    BY <1>4, DeviceLeavesRows DEF DispensingNext
  <1> QED
    BY <1>1, <1>2, <1>3, <1>4 DEF StationNext

(* The two invariants are inductive together.                              *)
LEMMA StepKeepsStationInv == StationInv /\ [StationNext]_stationVars => StationInv'
  <1> SUFFICES ASSUME StationInv, [StationNext]_stationVars PROVE StationInv'
    OBVIOUS
  <1>1. [SalesNext]_salesVars /\ [DispensingNext]_dispensingVars
    BY StationStepServesParts DEF stationVars, salesVars, dispensingVars, serviceVars
  <1> QED
    BY <1>1, StepKeepsSalesInv, StepKeepsDispensingInv DEF StationInv

(* Every behaviour of the machine keeps both invariants.                   *)
THEOREM StationSafety == StationSpec => []StationInv
  <1>1. StationInit => StationInv
    BY InitSalesInv, InitDispensingInv DEF StationInit, StationInv
  <1>2. StationInv /\ [StationNext]_stationVars => StationInv'
    BY StepKeepsStationInv
  <1> QED
    BY <1>1, <1>2, PTL DEF StationSpec

(* The parts fit: what each models of the other in outline, the other does *)
(* in detail.  So what is proved of Sales and of Dispensing holds of the   *)
(* machine that is made of them.                                           *)
THEOREM StationImplementsParts == StationSpec => ImplementsParts
  <1>1. StationInit => SalesInit /\ DispensingInit
    BY DEF StationInit
  <1>2. StationInv /\ [StationNext]_stationVars =>
          [SalesNext]_salesVars /\ [DispensingNext]_dispensingVars
    BY StationStepServesParts DEF stationVars, salesVars, dispensingVars, serviceVars
  <1> QED
    BY <1>1, <1>2, StationSafety, PTL
    DEF StationSpec, SalesSpec, DispensingSpec, ImplementsParts

-----------------------------------------------------------------------------
(* From the bank to the pump.                                              *)

(* An order has a command only once it was paid and armed, and is sold     *)
(* only by the success of its command.                                     *)
InService == {"DISPENSE_REQUESTED", "DISPENSED", "FAILED", "FORFEITED"}

CommandFollowsOrder ==
  \A o \in Orders :
    /\ cmd[o] # "NONE" => status[o] \in InService
    /\ status[o] = "DISPENSED" => cmd[o] = "SUCCEEDED"

(* The shop front makes no commands, and leaves orders in service alone.   *)
LEMMA ShopFrontLeavesService ==
  ASSUME DbTypeOK, ShopFront
  PROVE  /\ UNCHANGED cmd
         /\ \A o \in Orders :
              /\ status[o] \in InService => status'[o] \in InService
              /\ status'[o] = "DISPENSED" => status[o] = "DISPENSED"
  <1> USE DEF DbTypeOK, InService
  <1>1. CASE CheckoutContract
    BY <1>1 DEF CheckoutContract, OrderPlaced, OpenOrders, OrderExpired, MoneyTooLate,
       MoneyUnusable, PaidOrderFails, FailBeforeDispense, OrderPaid
  <1>2. CASE MachineModeNext
    BY <1>2 DEF MachineModeNext, SetMode, CompleteDraining, OpenRefill, CloseRefill,
       LoseConnection, Heartbeat, EnableSlot, DisableSlot
  <1>3. CASE ForceMaintenance
    BY <1>3 DEF ForceMaintenance, FailBeforeDispense
  <1> QED
    BY <1>1, <1>2, <1>3 DEF ShopFront

(* DSP arms paid orders, and sells them by a success.                      *)
LEMMA DispenseFollowsOrder ==
  ASSUME DbTypeOK, CommandFollowsOrder, DispenseContract
  PROVE  CommandFollowsOrder'
  <1> USE DEF DbTypeOK, CommandFollowsOrder, InService
  <1>1. ASSUME NEW o \in Orders, OrderArmed(o) PROVE CommandFollowsOrder'
    BY <1>1 DEF OrderArmed, StartDispense, Commands
  <1>2. ASSUME NEW d \in Diags, DiagnosticCreated(d) PROVE CommandFollowsOrder'
    BY <1>2, DbAssumption DEF DiagnosticCreated
  <1>3. ASSUME NEW c \in Commands,
               CommandSent(c) \/ CommandAcknowledged(c) \/ CommandLost(c)
        PROVE  CommandFollowsOrder'
    BY <1>3 DEF CommandSent, CommandAcknowledged, CommandLost, ACKNOWLEDGEABLE_STATUSES,
       Commands
  <1>4. ASSUME NEW c \in Commands, NEW outcome \in Outcomes \cup {ExpiredCommand},
               CommandCloses(c, outcome)
        PROVE  CommandFollowsOrder'
    <2>1. /\ outcome.order \in {"DISPENSED", "FAILED", "FORFEITED"}
          /\ outcome.order = "DISPENSED" => outcome.command = "SUCCEEDED"
      BY DEF Outcomes, ExpiredCommand, Delivered, Broken, Refused, NotPressed, Outcome
    <2>2. cmd[c] # "NONE" /\ cmd[c] # "SUCCEEDED"
      BY <1>4 DEF CommandCloses, CLOSABLE_STATUSES, ACTIVE_COMMAND_STATUSES
    <2> QED
      BY <1>4, <2>1, <2>2 DEF CommandCloses, FinishDispense, Commands
  <1> QED
    BY <1>1, <1>2, <1>3, <1>4 DEF DispenseContract

(* An order of the contract has a command, and is sold, only as the status *)
(* of the one and of the other say together.                               *)
THEOREM ContractCommandFollowsOrder == ContractSpec => []CommandFollowsOrder
  <1>1. DbInit => CommandFollowsOrder
    BY DEF DbInit, CommandFollowsOrder, Commands
  <1>2. DbTypeOK /\ CommandFollowsOrder /\ [ContractNext]_dbVars => CommandFollowsOrder'
    <2> SUFFICES ASSUME DbTypeOK, CommandFollowsOrder, [ContractNext]_dbVars
        PROVE  CommandFollowsOrder'
      OBVIOUS
    <2>1. CASE ShopFront
      BY <2>1, ShopFrontLeavesService DEF CommandFollowsOrder
    <2>2. CASE DispenseContract
      BY <2>2, DispenseFollowsOrder
    <2>3. CASE UNCHANGED dbVars
      BY <2>3 DEF CommandFollowsOrder
    <2> QED
      BY <2>1, <2>2, <2>3 DEF ContractNext, ShopFront
  <1> QED
    BY <1>1, <1>2, ContractTypeCorrect, PTL DEF ContractSpec

(* What the device has, had or is about to get was made a command before.  *)
KnownWasMade ==
  \A c \in Commands :
    c \in outgoing \cup wire \cup seen \/ sprayed[c] > 0 => cmd[c] # "NONE"

(* Commands are made by the platform, and stay made.                       *)
LEMMA MadeStaysMade ==
  ASSUME DbTypeOK, DbTypeOK', [ContractNext]_dbVars
  PROVE  \A c \in Commands : cmd[c] # "NONE" => cmd'[c] # "NONE"
  <1> SUFFICES ASSUME NEW c \in Commands, cmd[c] # "NONE", cmd'[c] = "NONE" PROVE FALSE
    OBVIOUS
  <1>1. Progress(cmd[c]) < Progress(cmd'[c])
    BY ContractAdvances DEF Advances
  <1>2. Progress(cmd'[c]) = 0 /\ Progress(cmd[c]) \in 1..5
    BY DEF Progress, DbTypeOK, CommandStatuses
  <1> QED
    BY <1>1, <1>2

(* The device knows only what it was sent.                                 *)
LEMMA DeviceKnowsWhatWasMade ==
  ASSUME DispensingInv, KnownWasMade, DeviceNext, UNCHANGED <<acknowledged, jobVars>>
  PROVE  KnownWasMade'
  <1> USE DEF DispensingInv, DispensingTypeOK, DeviceTypeOK, KnownWasMade
  <1>0. UNCHANGED dbVars
    BY DeviceLeavesRows
  <1>1. ASSUME NEW c \in Commands,
               \/ RejectExpired(c) \/ RejectDuplicate(c) \/ RejectUnsafe(c)
               \/ IgnoreWhileBusy(c) \/ StorageFails(c)
               \/ AcceptCustomer(c) \/ AcceptFails(c) \/ CommandExpires(c)
        PROVE  KnownWasMade'
    BY <1>0, <1>1 DEF RejectExpired, RejectDuplicate, RejectUnsafe, IgnoreWhileBusy,
       StorageFails, AcceptCustomer, AcceptFails, Accept, Remember, Deliver, CommandExpires
  <1>2. ASSUME NEW c \in Commands, AcceptDiagnostic(c) PROVE KnownWasMade'
    BY <1>0, <1>2 DEF AcceptDiagnostic, Accept, Remember, Deliver, SwitchPumpOn
  <1>3. CASE Press
    BY <1>0, <1>3 DEF Press, SwitchPumpOn, SprayOnce
  <1>4. CASE \/ PressRefused \/ PressTimeout \/ FinishPump \/ RestOver
             \/ PublishConfiguration \/ ApplyConfiguration \/ Reboot
    BY <1>0, <1>4 DEF PressRefused, PressTimeout, FinishPump, RestOver,
       PublishConfiguration, ApplyConfiguration, Reboot
  <1> QED
    BY <1>1, <1>2, <1>3, <1>4 DEF DeviceNext

(* DSP publishes what it has read from the table of commands.              *)
LEMMA PlatformPublishesWhatWasMade ==
  ASSUME DispensingInv, DispensingInv', KnownWasMade, DspNext
  PROVE  KnownWasMade'
  <1> USE DEF DispensingInv, DispensingTypeOK, KnownWasMade
  <1>1. \A c \in Commands : cmd[c] # "NONE" => cmd'[c] # "NONE"
    BY MadeStaysMade, DispensingStepRefines DEF DispensingNext
  <1>2. CASE ListOutgoing
    BY <1>2 DEF ListOutgoing, Unsent
  <1>3. ASSUME NEW c \in Commands, Publish(c) PROVE KnownWasMade'
    BY <1>1, <1>3 DEF Publish
  <1>4. ASSUME \/ \E o \in Orders : ReadCandidate(o)
               \/ ArmCandidate \/ MarkSent \/ TickFails
               \/ \E c \in Commands :
                    \/ HandleAck(c)
                    \/ \E report \in ClosingReports : HandleClosing(c, report)
                    \/ SweepUnsent(c) \/ SweepUnanswered(c)
               \/ \E d \in Diags : CreateDiagnostic(d)
        PROVE  KnownWasMade'
    BY <1>1, <1>4 DEF ReadCandidate, ArmCandidate, MarkSent, TickFails, HandleAck,
       HandleClosing, SweepUnsent, SweepUnanswered, CreateDiagnostic
  <1> QED
    BY <1>2, <1>3, <1>4 DEF DspNext

(* The pump only ever ran for a command of the table.                      *)
THEOREM DispensingKnownWasMade == DispensingSpec => []KnownWasMade
  <1>1. DispensingInit => KnownWasMade
    BY DEF DispensingInit, DeviceInit, KnownWasMade
  <1>2. DispensingInv /\ DispensingInv' /\ KnownWasMade /\ [DispensingNext]_dispensingVars =>
          KnownWasMade'
    <2> SUFFICES ASSUME DispensingInv, DispensingInv', KnownWasMade,
                        [DispensingNext]_dispensingVars
        PROVE  KnownWasMade'
      OBVIOUS
    <2>1. CASE DspNext
      BY <2>1, PlatformPublishesWhatWasMade
    <2>2. CASE DeviceNext /\ UNCHANGED <<acknowledged, jobVars>>
      BY <2>2, DeviceKnowsWhatWasMade
    <2>3. CASE ShopFront /\ UNCHANGED <<deviceVars, acknowledged, jobVars>>
      BY <2>3, ShopFrontBelieves DEF KnownWasMade, DispensingInv, DispensingTypeOK
    <2>4. CASE UNCHANGED dispensingVars
      BY <2>4 DEF dispensingVars, KnownWasMade
    <2> QED
      BY <2>1, <2>2, <2>3, <2>4 DEF DispensingNext
  <1> QED
    BY <1>1, <1>2, DispensingSafety, PTL DEF DispensingSpec

(* The books, the pump and the bank agree, whatever is lost, repeated or   *)
(* late on the way from one to the other: nothing is sprayed that was not  *)
(* paid for, nothing sold that was not sprayed.  The settling of payments, *)
(* the job that arms orders, the handler of reports and the firmware each  *)
(* contribute one of the three facts it follows from.                      *)
THEOREM StationSoldAsPaid == StationSpec => []SoldAsPaid
  <1>1. /\ SalesInv /\ DispensingInv
        /\ CommandFollowsOrder /\ KnownWasMade
        => SoldAsPaid
    <2> SUFFICES ASSUME SalesInv, DispensingInv, CommandFollowsOrder, KnownWasMade
        PROVE  SoldAsPaid
      OBVIOUS
    <2>1. ASSUME NEW o \in Orders, cmd[o] # "NONE"
          PROVE  /\ pay[o] = "SUCCEEDED"
                 /\ payTxn[o] = paidAt[o]
                 /\ paidAt[o] \in rightAmount \cap onTime
                 /\ sentFor[paidAt[o]] = o
      BY <2>1 DEF CommandFollowsOrder, InService, SalesInv, ServedMeansPaid, PaidStatuses
    <2>2. SprayWasPaid
      BY <2>1 DEF SprayWasPaid, KnownWasMade, Commands
    <2>3. SoldWasSprayed
      BY <2>1 DEF SoldWasSprayed, CommandFollowsOrder, DispensingInv, BelievedWasReported,
         ReportsTrue, Commands
    <2> QED
      BY <2>2, <2>3 DEF SoldAsPaid
  <1>2. StationSpec => DispensingSpec
    BY StationImplementsParts DEF ImplementsParts
  <1> QED
    BY <1>1, <1>2, StationSafety, DispensingKnownWasMade, DispensingImplementsContract,
       ContractCommandFollowsOrder, PTL
    DEF StationInv

(* What the contract guarantees holds of the whole machine.                *)
THEOREM StationKeepsPromises == StationSpec => []ContractInv /\ ImplementsLifecycle
  BY StationImplementsParts, SalesKeepsPromises, PTL DEF ImplementsParts
=============================================================================
