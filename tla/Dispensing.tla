----------------------------- MODULE Dispensing -----------------------------
(***************************************************************************)
(* From a paid order to a spray: the dispatch job and the report handler   *)
(* of DSP (dsp.service.ts, dsp.queries.ts, dsp.jobs.ts) with the device    *)
(* behind the broker, and a shop front of which only the contract is known.*)
(*                                                                         *)
(* One scheduler runs the job; its ticks do not overlap.  Within a tick    *)
(* the database is read, and the broker called, outside transactions.      *)
(***************************************************************************)
EXTENDS Device, StationContract

VARIABLES
  acknowledged, \* the commands with acknowledged_at
  candidate,    \* the order armQueuedOrders has read, not yet armed
  outgoing,     \* the commands listOutgoing has read, not yet published
  published     \* the command published and not yet marked SENT

jobVars == <<candidate, outgoing, published>>
dispensingVars == <<dbVars, deviceVars, acknowledged, jobVars>>

DispensingTypeOK ==
  /\ DbTypeOK
  /\ DeviceTypeOK
  /\ acknowledged \subseteq Commands
  /\ candidate \in Orders \cup {NoCommand}
  /\ outgoing \subseteq Commands
  /\ published \in Commands \cup {NoCommand}

DispensingInit ==
  /\ DbInit
  /\ DeviceInit
  /\ acknowledged = {}
  /\ candidate = NoCommand
  /\ outgoing = {}
  /\ published = NoCommand

JobIdle == candidate = NoCommand /\ outgoing = {} /\ published = NoCommand

-----------------------------------------------------------------------------
(* armQueuedOrders                                                         *)

PaidFirst(o) == \A p \in PaidQueue : paidAt[o] <= paidAt[p]

(* listArmableOrders, outside any transaction.  A diagnostic command does  *)
(* not keep the machine from being armed.                                  *)
ReadCandidate(o) ==
  /\ JobIdle
  /\ o \in PaidQueue
  /\ PaidFirst(o)
  /\ MachineServesPaidQueue
  /\ ActiveCustomerCommands = {}
  /\ candidate' = o
  /\ UNCHANGED <<dbVars, deviceVars, acknowledged, outgoing, published>>

(* The transaction looks at the order again, and only at the order; the    *)
(* unique index speaks for the machine's other commands.                   *)
ArmCandidate ==
  /\ candidate # NoCommand
  /\ candidate' = NoCommand
  /\ \/ OrderArmed(candidate)
     \/ PaidOrderFails(candidate)  \* the slot has no calibrated dose
     \/ /\ status[candidate] # "PAID" \/ ~CommandIndexAllows
        /\ UNCHANGED dbVars
  /\ UNCHANGED <<deviceVars, acknowledged, outgoing, published>>

-----------------------------------------------------------------------------
(* Publishing                                                              *)

Unsent == {c \in Commands : cmd[c] = "CREATED" /\ c \notin expired}

ListOutgoing ==
  /\ JobIdle
  /\ Unsent # {}
  /\ outgoing' = Unsent
  /\ UNCHANGED <<dbVars, deviceVars, acknowledged, candidate, published>>

(* The broker may have taken a command whose publication failed.           *)
Publish(c) ==
  /\ c \in outgoing
  /\ published = NoCommand
  /\ outgoing' = outgoing \ {c}
  /\ \/ wire' = wire \cup {c} /\ published' = c
     \/ wire' \in {wire, wire \cup {c}} /\ UNCHANGED published
  /\ UNCHANGED <<dbVars, state, held, seen, deviceMode, config, received, expired,
                 reports, sprayed, reboots, acknowledged, candidate>>

(* An ACK, or the result itself, may have come first.                      *)

MarkSent ==
  /\ published # NoCommand
  /\ published' = NoCommand
  /\ CommandSent(published) \/ (cmd[published] # "CREATED" /\ UNCHANGED dbVars)
  /\ UNCHANGED <<deviceVars, acknowledged, candidate, outgoing>>

(* The process stops, or the database refuses: the tick ends.              *)
TickFails ==
  /\ ~JobIdle
  /\ candidate' = NoCommand
  /\ outgoing' = {}
  /\ published' = NoCommand
  /\ UNCHANGED <<dbVars, deviceVars, acknowledged>>

-----------------------------------------------------------------------------
(* handleDeviceResult                                                      *)

HandleAck(c) ==
  /\ <<c, "ACK">> \in reports
  /\ CommandAcknowledged(c)
  /\ acknowledged' = acknowledged \cup {c}
  /\ UNCHANGED <<deviceVars, jobVars>>

HandleClosing(c, report) ==
  /\ <<c, report>> \in reports
  /\ report \in ClosingReports
  /\ CommandCloses(c, OutcomeOf(report, c \in acknowledged))
  /\ UNCHANGED <<deviceVars, acknowledged, jobVars>>

-----------------------------------------------------------------------------
(* sweepTimeouts runs at the end of a tick.  DISPENSE_RESULT_TIMEOUT_SEC   *)
(* after it was sent a command has expired; that long after the press      *)
(* window that followed its ACK, the device has let go of it.              *)
SweepUnsent(c) ==
  /\ JobIdle
  /\ cmd[c] = "CREATED"
  /\ c \in expired
  /\ CommandCloses(c, ExpiredCommand)
  /\ UNCHANGED slot
  /\ UNCHANGED <<deviceVars, acknowledged, jobVars>>

SweepUnanswered_SentOnly(c) ==                                   \* mutant
  /\ JobIdle
  /\ cmd[c] = "SENT" /\ c \in expired
  /\ CommandLost(c)
  /\ UNCHANGED <<deviceVars, acknowledged, jobVars>>

SweepUnanswered(c) ==
  /\ JobIdle
  /\ \/ cmd[c] = "SENT" /\ c \in expired
     \/ cmd[c] = "ACKNOWLEDGED" /\ held # c
  /\ CommandLost(c)
  /\ UNCHANGED <<deviceVars, acknowledged, jobVars>>

CreateDiagnostic(d) ==
  /\ DiagnosticCreated(d)
  /\ UNCHANGED <<deviceVars, acknowledged, jobVars>>

-----------------------------------------------------------------------------
QueueRunsOut(o) ==
  /\ PaidOrderFails(o)
  /\ UNCHANGED <<deviceVars, acknowledged, jobVars>>

ShopFront == CheckoutContract \/ MachineModeNext \/ ForceMaintenance

DspNext ==
  \/ \E o \in Orders : ReadCandidate(o)
  \/ ArmCandidate
  \/ ListOutgoing
  \/ MarkSent
  \/ TickFails
  \/ \E c \in Commands :
       \/ Publish(c)
       \/ HandleAck(c)
       \/ \E report \in ClosingReports : HandleClosing(c, report)
       \/ SweepUnsent(c) \/ SweepUnanswered(c)
  \/ \E d \in Diags : CreateDiagnostic(d)

DispensingNext ==
  \/ DspNext
  \/ DeviceNext /\ UNCHANGED <<acknowledged, jobVars>>
  \/ ShopFront /\ UNCHANGED <<deviceVars, acknowledged, jobVars>>

DispensingSpec == DispensingInit /\ [][DispensingNext]_dispensingVars

-----------------------------------------------------------------------------
(* Time passes (the command's TTL, the device's press window and run time, *)
(* PAID_QUEUE_MAX_SEC), and the job ticks every few seconds for ever.  A   *)
(* tick is over before the next one sweeps, so a sweep is enabled again and*)
(* again rather than continuously: strong fairness.  Nothing is assumed of *)
(* the broker, the customer, the configuration or the shop front.          *)
TimePasses ==
  /\ \A c \in Commands :
       WF_dispensingVars(CommandExpires(c) /\ UNCHANGED <<acknowledged, jobVars>>)
  /\ WF_dispensingVars((PressTimeout \/ FinishPump) /\ UNCHANGED <<acknowledged, jobVars>>)
  /\ \A o \in Orders : WF_dispensingVars(QueueRunsOut(o))

JobRuns ==
  /\ WF_dispensingVars(ArmCandidate)
  /\ WF_dispensingVars(MarkSent)
  /\ \A c \in Commands :
       /\ WF_dispensingVars(Publish(c))
       /\ SF_dispensingVars(SweepUnsent(c))
       /\ SF_dispensingVars(SweepUnanswered(c))

(* A result that was made is in the outbox; the device sends it until the  *)
(* broker has it, and the broker keeps it for the API (clean = false).     *)
ResultsArrive ==
  \A c \in Commands, report \in ClosingReports :
    WF_dispensingVars(HandleClosing(c, report))

FairDispensingSpec ==
  DispensingSpec /\ TimePasses /\ JobRuns /\ ResultsArrive

-----------------------------------------------------------------------------
(* The pump is switched on at most once for a command, however often the   *)
(* broker delivers it, DSP publishes it again, or the device restarts      *)
(* (acceptCommand's history of tokens).                                    *)
OneSprayPerCommand == \A c \in Commands : sprayed[c] <= 1

(* A command is SUCCEEDED only after the device has sprayed for it, never  *)
(* because of an ACK or of a timeout (FR-DSP-17; handleDeviceResult).      *)
SucceededWasSprayed ==
  \A c \in Commands : cmd[c] = "SUCCEEDED" => sprayed[c] = 1

(* A customer who loses the spray for not pressing the button has had the  *)
(* lamp lit and has not been, nor will be, sprayed on (FR-ORD-27).         *)
ForfeitedWasOffered ==
  \A o \in Orders : status[o] = "FORFEITED" => o \in seen /\ sprayed[o] = 0

(* What the orders and commands say was done is what the device did.       *)
ResultsAreTrue == SucceededWasSprayed /\ ForfeitedWasOffered

(* Reports that come late, twice or before markSent do not take a command  *)
(* back: it only advances, and what closed it stands (handleDeviceResult   *)
(* and markSent look at its status under the row's lock).                  *)
Progress(commandStatus) ==
  CASE commandStatus = "NONE" -> 0
    [] commandStatus = "CREATED" -> 1
    [] commandStatus = "SENT" -> 2
    [] commandStatus = "ACKNOWLEDGED" -> 3
    [] commandStatus = "UNKNOWN" -> 4
    [] OTHER -> 5

CommandNeverGoesBack ==
  [][\A c \in Commands :
       cmd'[c] # cmd[c] => Progress(cmd[c]) < Progress(cmd'[c])]_dispensingVars

(* A rejected command was refused before the pump was switched on, and the *)
(* pump is never switched on for it later (mqtt.md, 6).                    *)
RejectedNeverSprays ==
  \A c \in Commands : cmd[c] = "REJECTED" => sprayed[c] = 0

(* A paid order does not stay in the queue or in service for ever: it ends,*)
(* or somebody is asked to look at it (failQueueTimeouts, sweepTimeouts).  *)
ServiceEnds ==
  \A o \in Orders :
    status[o] \in {"PAID", "DISPENSE_REQUESTED"} ~>
      status[o] \notin {"PAID", "DISPENSE_REQUESTED"} \/ o \in review

(* No command keeps the machine for ever, whatever is lost on the way to   *)
(* the device and back (sweepTimeouts).                                    *)
MachineIsFreed ==
  \A c \in Commands :
    cmd[c] \in ACTIVE_COMMAND_STATUSES ~> cmd[c] \notin ACTIVE_COMMAND_STATUSES

(* A spray the device reports is booked even if the command was given up   *)
(* as UNKNOWN before (CLOSABLE_STATUSES).                                  *)
SprayIsBooked ==
  \A o \in Orders :
    <<o, "OK">> \in reports ~> status[o] # "DISPENSE_REQUESTED"

-----------------------------------------------------------------------------
(* What documents and comments say, and the code does not keep.            *)

(* dsp.service.ts, sweepTimeouts: the device has certainly not received a  *)
(* command that expires unpublished.                                       *)
ExpiredCommandNeverReceived ==
  \A c \in Commands : cmd[c] = "EXPIRED" => c \notin seen

(* mqtt.md, 6: no second customer command while the lamp of the one before *)
(* is lit.                                                                 *)
NoSecondCommandWhileLit ==
  state = "WAITING" /\ held \in Orders => ActiveCustomerCommands \subseteq {held}

(* FR-INV-30: no command is made for a waiting order while the machine is  *)
(* open for a refill.                                                      *)
NoCommandDuringRefill ==
  [][\A o \in Orders :
       cmd[o] = "NONE" /\ cmd'[o] = "CREATED" => ~refill]_dispensingVars
=============================================================================
