------------------------------- MODULE Device -------------------------------
(***************************************************************************)
(* The firmware (ScentStationValveDevice.ino) and the broker between it    *)
(* and the API.  The broker delivers a command late, more than once or not *)
(* at all; the device's reports reach the API late, repeatedly, in any     *)
(* order or never: a report is kept in "reports" once it is made.          *)
(***************************************************************************)
EXTENDS MachineMode

CONSTANTS
  MaxCopies,        \* bound on the deliveries of one command to the device
  MaxReboots,       \* bound on the device's power losses
  AllowDiagnostics  \* ALLOW_DIAGNOSTIC_COMMANDS of the build

ASSUME DeviceAssumption ==
  /\ MaxCopies \in Nat
  /\ MaxReboots \in Nat
  /\ AllowDiagnostics \in BOOLEAN

VARIABLES
  state,      \* DeviceState, and RESTING for the gap after a spray
  held,       \* commandToken
  seen,       \* the tokens in /history, durable
  deviceMode, \* operatingMode, "NONE" before a configuration arrives
  config,     \* the mode in the retained configuration at the broker (external)
  wire,       \* the commands the broker has and may deliver (external)
  received,   \* deliveries of each command so far (bound only)
  expired,    \* the commands whose expires_at has passed
  reports,    \* the reports made, as <<command, report>>
  sprayed,    \* how often the pump was switched on for a command
  reboots     \* power losses so far (bound only)

brokerVars == <<config, wire, received>>
deviceVars == <<state, held, seen, deviceMode, brokerVars, expired, reports,
                sprayed, reboots>>

NoCommand == "none"
ASSUME NoCommandAssumption == NoCommand \notin Commands

DeviceTypeOK ==
  /\ state \in {"IDLE", "WAITING", "DISPENSING", "RESTING"}
  /\ held \in Commands \cup {NoCommand}
  /\ seen \subseteq Commands
  /\ {deviceMode, config} \subseteq {"NONE", "NORMAL", "MAINTENANCE", "DISABLED"}
  /\ wire \subseteq Commands
  /\ received \in [Commands -> 0..MaxCopies]
  /\ expired \subseteq Commands
  /\ reports \subseteq Commands \X Reports
  /\ sprayed \in [Commands -> Nat]
  /\ reboots \in 0..MaxReboots

DeviceInit ==
  /\ state = "IDLE"
  /\ held = NoCommand
  /\ seen = {}
  /\ deviceMode = "NONE"
  /\ config = "NORMAL"
  /\ wire = {}
  /\ received = [c \in Commands |-> 0]
  /\ expired = {}
  /\ reports = {}
  /\ sprayed = [c \in Commands |-> 0]
  /\ reboots = 0

(* clearCommand                                                            *)
Clear == state' = "IDLE" /\ held' = NoCommand

Report(c, report) == reports' = reports \cup {<<c, report>>}

-----------------------------------------------------------------------------
(* acceptCommand, on a delivered command.  The checks come in this order:  *)
(* expiry, duplicate, busy, build flag and safety.  While it sprays the    *)
(* device does not poll the network.                                       *)
Deliver(c) ==
  /\ c \in wire
  /\ received[c] < MaxCopies
  /\ state # "DISPENSING"
  /\ received' = [received EXCEPT ![c] = @ + 1]
  /\ UNCHANGED <<dbVars, deviceMode, config, wire, expired, reboots>>

IsDuplicate_HeldOnly(c) == c = held                              \* mutant
IsDuplicate(c) == c = held \/ c \in seen

RejectExpired(c) ==
  /\ Deliver(c)
  /\ c \in expired
  /\ Report(c, "REFUSED")
  /\ UNCHANGED <<state, held, seen, sprayed>>

RejectDuplicate(c) ==
  /\ Deliver(c)
  /\ c \notin expired
  /\ IsDuplicate(c)
  /\ Report(c, "DUPLICATE")
  /\ UNCHANGED <<state, held, seen, sprayed>>

Fresh(c) == c \notin expired /\ ~IsDuplicate(c)

IgnoreWhileBusy(c) ==
  /\ Deliver(c)
  /\ Fresh(c)
  /\ state # "IDLE"
  /\ UNCHANGED <<state, held, seen, reports, sprayed>>

(* The build, the mode, the door, the driver or the slot forbid it: the    *)
(* token stays unknown.                                                    *)
RejectUnsafe(c) ==
  /\ Deliver(c)
  /\ Fresh(c)
  /\ state = "IDLE"
  /\ Report(c, "REFUSED")
  /\ UNCHANGED <<state, held, seen, sprayed>>

(* Without storage the token may or may not have been written, and the     *)
(* rejection cannot be.                                                    *)
StorageFails(c) ==
  /\ Deliver(c)
  /\ Fresh(c)
  /\ state = "IDLE"
  /\ seen' \in {seen, seen \cup {c}}
  /\ UNCHANGED <<state, held, reports, sprayed>>

(* From here on the token is remembered.                                   *)
Remember(c) == seen' = seen \cup {c}

Accept(c) ==
  /\ Deliver(c)
  /\ Fresh(c)
  /\ state = "IDLE"
  /\ deviceMode = "NORMAL"
  /\ c \in Diags => AllowDiagnostics
  /\ Remember(c)

SwitchPumpOn(c) ==
  /\ state' = "DISPENSING"
  /\ held' = c
  /\ sprayed' = [sprayed EXCEPT ![c] = @ + 1]

(* The lamp is lit, and the broker has taken the ACK.                      *)
AcceptCustomer(c) ==
  /\ c \in Orders
  /\ Accept(c)
  /\ state' = "WAITING"
  /\ held' = c
  /\ Report(c, "ACK")
  /\ UNCHANGED sprayed

(* A diagnostic spray does not wait for a button.                          *)
AcceptDiagnostic(c) ==
  /\ c \in Diags
  /\ Accept(c)
  /\ \/ SwitchPumpOn(c) /\ Report(c, "ACK")
     \/ /\ reports' = reports \cup {<<c, "ACK">>, <<c, "REFUSED">>}
        /\ UNCHANGED <<state, held, sprayed>>

(* The valve driver fails, or publishing the ACK does; the ACK may have    *)
(* reached the broker all the same.  Nothing else is ever reported.        *)
AcceptFails(c) ==
  /\ Accept(c)
  /\ reports' \in {reports, reports \cup {<<c, "ACK">>}}
  /\ UNCHANGED <<state, held, sprayed>>

-----------------------------------------------------------------------------
bystanders == <<dbVars, seen, deviceMode, brokerVars, expired, reboots>>

(* updateButtons and startPump                                             *)
Press ==
  /\ state = "WAITING"
  /\ SwitchPumpOn(held)
  /\ UNCHANGED <<bystanders, reports>>

PressRefused ==
  /\ state = "WAITING"
  /\ Report(held, "REFUSED")
  /\ Clear
  /\ UNCHANGED <<bystanders, sprayed>>

PressTimeout_WhileSpraying ==                                    \* mutant
  /\ state \in {"WAITING", "DISPENSING"}
  /\ Report(held, "PRESS_TIMEOUT")
  /\ Clear
  /\ UNCHANGED <<bystanders, sprayed>>

PressTimeout ==
  /\ state = "WAITING"
  /\ Report(held, "PRESS_TIMEOUT")
  /\ Clear
  /\ UNCHANGED <<bystanders, sprayed>>

(* finishPump; queueing the result may fail.                               *)
FinishPump ==
  /\ state = "DISPENSING"
  /\ reports' \in {reports, reports \cup {<<held, "OK">>},
                   reports \cup {<<held, "FAULT">>}}
  /\ state' = "RESTING"
  /\ held' = NoCommand
  /\ UNCHANGED <<bystanders, sprayed>>

RestOver ==
  /\ state = "RESTING"
  /\ state' = "IDLE"
  /\ UNCHANGED <<bystanders, held, reports, sprayed>>

(* The API retains the machine's mode as the device's configuration; a     *)
(* DRAINING machine still serves.                                          *)
DeviceOperatingMode == IF mode = "DRAINING" THEN "NORMAL" ELSE mode

PublishConfiguration ==
  /\ config # DeviceOperatingMode
  /\ config' = DeviceOperatingMode
  /\ UNCHANGED <<dbVars, state, held, seen, deviceMode, wire, received,
                 expired, reports, sprayed, reboots>>

ApplyConfiguration ==
  /\ state # "DISPENSING"
  /\ deviceMode # config
  /\ deviceMode' = config
  /\ IF state = "WAITING" /\ config # "NORMAL"
     THEN Report(held, "REFUSED") /\ Clear
     ELSE UNCHANGED <<state, held, reports>>
  /\ UNCHANGED <<dbVars, seen, brokerVars, expired, sprayed, reboots>>

(* Power is lost and comes back: the history and the outbox survive, the   *)
(* armed command does not, and the clean session drops what the broker had.*)
Reboot ==
  /\ reboots < MaxReboots
  /\ reboots' = reboots + 1
  /\ Clear
  /\ deviceMode' = "NONE"
  /\ wire' = {}
  /\ UNCHANGED <<dbVars, seen, config, received, expired, reports, sprayed>>

(* DISPENSE_CMD_TTL_SEC has passed since the command was created.          *)
CommandExpires(c) ==
  /\ cmd[c] # "NONE"
  /\ c \notin expired
  /\ expired' = expired \cup {c}
  /\ UNCHANGED <<dbVars, state, held, seen, deviceMode, brokerVars, reports,
                 sprayed, reboots>>

DeviceNext ==
  \/ \E c \in Commands :
       \/ RejectExpired(c) \/ RejectDuplicate(c) \/ RejectUnsafe(c)
       \/ IgnoreWhileBusy(c) \/ StorageFails(c)
       \/ AcceptCustomer(c) \/ AcceptDiagnostic(c) \/ AcceptFails(c)
       \/ CommandExpires(c)
  \/ Press \/ PressRefused \/ PressTimeout
  \/ FinishPump \/ RestOver
  \/ PublishConfiguration \/ ApplyConfiguration
  \/ Reboot
=============================================================================
