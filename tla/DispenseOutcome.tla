-------------------------- MODULE DispenseOutcome --------------------------
(***************************************************************************)
(* What a report of the device means for a dispense command and its order: *)
(* dsp/dispense-outcome.ts.                                                *)
(***************************************************************************)

CommandStatuses ==
  {"CREATED", "SENT", "ACKNOWLEDGED", "SUCCEEDED", "FAILED", "REJECTED",
   "UNKNOWN", "EXPIRED"}
ACTIVE_COMMAND_STATUSES == {"CREATED", "SENT", "ACKNOWLEDGED"}
ACKNOWLEDGEABLE_STATUSES == {"CREATED", "SENT"}
CLOSABLE_STATUSES_ActiveOnly == ACTIVE_COMMAND_STATUSES          \* mutant
CLOSABLE_STATUSES == ACTIVE_COMMAND_STATUSES \cup {"UNKNOWN"}

(* Stages and failure codes that outcomeOf tells apart.  "REFUSED" is any  *)
(* REJECT that is neither PRESS_TIMEOUT nor CMD_DUPLICATE.                 *)
ClosingReports == {"OK", "FAULT", "PRESS_TIMEOUT", "REFUSED"}
Reports == ClosingReports \cup {"ACK", "DUPLICATE"}

Outcome(command, order, manualReview) ==
  [command |-> command, order |-> order, manualReview |-> manualReview]

Delivered == Outcome("SUCCEEDED", "DISPENSED", FALSE)
Broken == Outcome("FAILED", "FAILED", TRUE)
Refused == Outcome("REJECTED", "FAILED", TRUE)
NotPressed == Outcome("REJECTED", "FORFEITED", FALSE)

Outcomes == {Delivered, Broken, Refused, NotPressed}

(* A press timeout forfeits the spray only if the lamp is known to have    *)
(* been lit.                                                               *)
Forfeits(report, acknowledged) == report = "PRESS_TIMEOUT" /\ acknowledged

OutcomeOf(report, acknowledged) ==
  CASE report = "OK" -> Delivered
    [] report = "FAULT" -> Broken
    [] Forfeits(report, acknowledged) -> NotPressed
    [] OTHER -> Refused

(* The sweep of a command that could not be published in time.             *)
ExpiredCommand == Outcome("EXPIRED", "FAILED", TRUE)
=============================================================================
