------------------------------- MODULE Alerts -------------------------------
(***************************************************************************)
(* Alerts, notices and e-mail (alr, and the expiry notices of slt.jobs):   *)
(* what the platform tells people.                                         *)
(*                                                                         *)
(* An alert is raised where something goes wrong, or by a sweep, and       *)
(* handled by staff; the unique index on its key keeps one of them live.   *)
(* A notice is a row written with the business step it tells of; its       *)
(* e-mail is sent later by a job that locks the row, calls the provider    *)
(* and records the outcome in one transaction.                             *)
(*                                                                         *)
(* One slot; the rentals of one brand that end on the same day, which      *)
(* share a notice.                                                         *)
(***************************************************************************)
EXTENDS Naturals

CONSTANTS
  Records,      \* alerts of one key; a closed one is forgotten
  Rentals,      \* rentals of one brand that end on one day
  Workers,      \* processes that run the scheduler; a restart may overlap
  Writers,      \* bound: those whose notice jobs run
  Milestones,   \* noticeMilestones of sendExpiringNotices, in days
  FirstDay,     \* bound: the days left when the model starts
  MaxAttempts,  \* EMAIL_MAX_ATTEMPTS
  MaxRetries,   \* bound: times staff ask for another attempt
  MaxLost,      \* bound: e-mails the provider took and nobody recorded
  NoMail        \* nobody's row

(* The rows of channel EMAIL: what a process writes of a milestone, unless *)
(* it sees that of another.                                                *)
Mails == Milestones \X Writers
Milestone(m) == m[1]

ASSUME AlertsAssumption ==
  /\ Writers \subseteq Workers
  /\ Milestones \subseteq Nat /\ FirstDay \in Nat
  /\ MaxAttempts \in Nat \ {0} /\ MaxRetries \in Nat /\ MaxLost \in Nat
  /\ NoMail \notin Mails

VARIABLES
  empty,      \* the bottle of the slot is below the threshold
  swept,      \* the slot is on the list of a sweep that is going on
  alert,      \* alerts.status of each record, "NONE" if unused
  daysLeft,   \* until slot_rentals.ends_at
  rental,     \* whether each rental is ACTIVE or EXPIRING
  draft,      \* notices a job has decided to write, not yet written
  mail,       \* notifications.status of each row, "NONE" without one
  attempts,   \* notifications.delivery_attempts
  retries,    \* requests of staff to send it again
  due,        \* the rows each process has listed for this tick
  sending,    \* the row each process holds the lock of, and its outcome
  delivered,  \* how often the provider has taken each e-mail (history)
  lost        \* how often it did and that was not recorded (history)

stockVars == <<empty, swept, alert>>
noticeVars == <<daysLeft, rental, draft>>
mailVars == <<mail, attempts, retries, due, sending, delivered, lost>>
alertsVars == <<stockVars, noticeVars, mailVars>>

AlertStatuses == {"OPEN", "ACKNOWLEDGED", "RESOLVED", "CLOSED"}
MailStatuses == {"PENDING", "SENT", "FAILED"}
Idle == [mail |-> NoMail, taken |-> FALSE]

AlertsTypeOK ==
  /\ empty \in BOOLEAN /\ swept \in BOOLEAN
  /\ alert \in [Records -> AlertStatuses \cup {"NONE"}]
  /\ daysLeft \in 0..FirstDay
  /\ rental \in [Rentals -> {"later", "live", "gone"}]
  /\ draft \subseteq Mails
  /\ mail \in [Mails -> MailStatuses \cup {"NONE"}]
  /\ attempts \in [Mails -> Nat]
  /\ retries \in [Mails -> 0..MaxRetries]
  /\ due \in [Workers -> SUBSET Mails]
  /\ sending \in [Workers -> [mail : Mails \cup {NoMail}, taken : BOOLEAN]]
  /\ delivered \in [Mails -> Nat]
  /\ lost \in [Mails -> 0..MaxLost]

AlertsInit ==
  /\ empty = FALSE /\ swept = FALSE
  /\ alert = [a \in Records |-> "NONE"]
  /\ daysLeft = FirstDay
  /\ rental \in [Rentals -> {"later", "live"}]
  /\ draft = {}
  /\ mail = [m \in Mails |-> "NONE"]
  /\ attempts = [m \in Mails |-> 0]
  /\ retries = [m \in Mails |-> 0]
  /\ due = [w \in Workers |-> {}]
  /\ sending = [w \in Workers |-> Idle]
  /\ delivered = [m \in Mails |-> 0]
  /\ lost = [m \in Mails |-> 0]

-----------------------------------------------------------------------------
(* Alerts of an empty slot                                                 *)

Unresolved(a) == alert[a] \in {"OPEN", "ACKNOWLEDGED"}

(* A customer empties the bottle, or a refill replaces it.                 *)
BottleChanges ==
  /\ empty' = ~empty
  /\ UNCHANGED <<swept, alert, noticeVars, mailVars>>

(* sweepLowStockAlerts lists the slots, then inserts alert after alert.    *)
SweepLists ==
  /\ empty /\ ~swept
  /\ swept' = TRUE
  /\ UNCHANGED <<empty, alert, noticeVars, mailVars>>

(* uq_alert_dedup_unresolved: with an unresolved alert of the same key the *)
(* insert only counts.                                                     *)
RaisesNew_AfterClosing ==                                        \* mutant
  \A a \in Records : alert[a] \in {"NONE", "CLOSED"}
RaisesNew == \A a \in Records : ~Unresolved(a)

SweepRaises ==
  /\ swept
  /\ swept' = FALSE
  /\ IF RaisesNew
     THEN \E a \in Records :
            /\ alert[a] \in {"NONE", "CLOSED"}
            /\ alert' = [alert EXCEPT ![a] = "OPEN"]
     ELSE UNCHANGED alert
  /\ UNCHANGED <<empty, noticeVars, mailVars>>

(* acknowledgeAlert, and assignAlert of an open alert.  The index refuses  *)
(* to make a resolved alert live again next to another.                    *)
Acknowledge(a) ==
  /\ alert[a] \in {"OPEN", "RESOLVED"}
  /\ \A b \in Records \ {a} : ~Unresolved(b)
  /\ alert' = [alert EXCEPT ![a] = "ACKNOWLEDGED"]
  /\ UNCHANGED <<empty, swept, noticeVars, mailVars>>

(* Staff leave a record free for the next alert (bound).                   *)
Resolve(a) ==
  /\ Unresolved(a)
  /\ \E b \in Records \ {a} : alert[b] \in {"NONE", "CLOSED"}
  /\ alert' = [alert EXCEPT ![a] = "RESOLVED"]
  /\ UNCHANGED <<empty, swept, noticeVars, mailVars>>

Close(a) ==
  /\ alert[a] = "RESOLVED"
  /\ alert' = [alert EXCEPT ![a] = "CLOSED"]
  /\ UNCHANGED <<empty, swept, noticeVars, mailVars>>

-----------------------------------------------------------------------------
(* Notices of the end of a rental                                          *)

LiveRentals == {r \in Rentals : rental[r] = "live"}

DayPasses ==
  /\ daysLeft > 0
  /\ daysLeft' = daysLeft - 1
  /\ UNCHANGED <<stockVars, rental, draft, mailVars>>

(* A rental of the group is activated, or renewed, closed, liquidated.     *)
RentalChanges(r) ==
  /\ \/ rental[r] = "later" /\ daysLeft > 0 /\ rental' = [rental EXCEPT ![r] = "live"]
     \/ rental[r] = "live" /\ rental' = [rental EXCEPT ![r] = "gone"]
  /\ UNCHANGED <<stockVars, daysLeft, draft, mailVars>>

(* findDueNoticeRentals also finds those whose day was missed.             *)
IsDue_OnTheDay(d) == daysLeft = d                                \* mutant
IsDue(d) == daysLeft <= d

(* hasNoticeNotification                                                   *)
Noticed(d) == \E m \in Mails : Milestone(m) = d /\ mail[m] # "NONE"

(* The job lists the rentals and finds no notice of this milestone.        *)
DraftNotice(m) ==
  /\ m \notin draft
  /\ LiveRentals # {}
  /\ IsDue(Milestone(m))
  /\ ~Noticed(Milestone(m))
  /\ draft' = draft \cup {m}
  /\ UNCHANGED <<stockVars, daysLeft, rental, mailVars>>

(* queueForBrandAdmins, of a brand that has an active administrator.       *)
WriteNotice(m) ==
  /\ m \in draft
  /\ draft' = draft \ {m}
  /\ mail' = [mail EXCEPT ![m] = "PENDING"]
  /\ UNCHANGED <<stockVars, daysLeft, rental, attempts, retries, due, sending, delivered, lost>>

(* The transaction fails, or the process stops.                            *)
LoseDraft(m) ==
  /\ m \in draft
  /\ draft' = draft \ {m}
  /\ UNCHANGED <<stockVars, daysLeft, rental, mailVars>>

-----------------------------------------------------------------------------
(* dispatchDueEmails                                                       *)

IsSendable_AsListed(m) == TRUE                                   \* mutant
IsSendable(m) ==
  mail[m] = "PENDING" \/ (mail[m] = "FAILED" /\ attempts[m] < MaxAttempts)

Waiting == {m \in Mails : mail[m] = "PENDING"}
Failed == {m \in Mails : mail[m] = "FAILED" /\ attempts[m] < MaxAttempts}

(* Those that failed are listed when EMAIL_RETRY_INTERVAL_MIN has passed.  *)
ListDue(w, rested) ==
  /\ due[w] = {} /\ sending[w] = Idle
  /\ Waiting \cup rested # {}
  /\ due' = [due EXCEPT ![w] = Waiting \cup rested]
  /\ UNCHANGED <<stockVars, noticeVars, mail, attempts, retries, sending, delivered, lost>>

Locked(m) == \E w \in Workers : sending[w].mail = m

(* lockEmailForDispatch skips a row that another process holds, or that is *)
(* no longer to be sent.                                                   *)
TakeNext(w, m) ==
  /\ m \in due[w] /\ sending[w] = Idle
  /\ due' = [due EXCEPT ![w] = due[w] \ {m}]
  /\ sending' = IF ~Locked(m) /\ IsSendable(m)
                THEN [sending EXCEPT ![w] = [mail |-> m, taken |-> FALSE]]
                ELSE sending
  /\ UNCHANGED <<stockVars, noticeVars, mail, attempts, retries, delivered, lost>>

(* provider.send succeeds.                                                 *)
ProviderTakes(w) ==
  LET m == sending[w].mail IN
  /\ m # NoMail /\ ~sending[w].taken
  /\ sending' = [sending EXCEPT ![w] = [mail |-> m, taken |-> TRUE]]
  /\ delivered' = [delivered EXCEPT ![m] = delivered[m] + 1]
  /\ UNCHANGED <<stockVars, noticeVars, mail, attempts, retries, due, lost>>

(* recordDelivery and the commit.  The provider refuses, or its answer is  *)
(* lost, or it has taken the e-mail.                                       *)
Lose(m) == lost[m] < MaxLost /\ lost' = [lost EXCEPT ![m] = lost[m] + 1]

RecordDelivery(w) ==
  LET m == sending[w].mail IN
  /\ m # NoMail
  /\ \/ /\ sending[w].taken
        /\ mail' = [mail EXCEPT ![m] = "SENT"]
        /\ UNCHANGED lost
     \/ /\ mail' = [mail EXCEPT ![m] = "FAILED"]
        /\ IF sending[w].taken THEN Lose(m) ELSE UNCHANGED lost
  /\ attempts' = [attempts EXCEPT ![m] = attempts[m] + 1]
  /\ sending' = [sending EXCEPT ![w] = Idle]
  /\ UNCHANGED <<stockVars, noticeVars, retries, due, delivered>>

(* The process stops, or the connection to the database breaks.            *)
DispatchStops(w) ==
  /\ due[w] # {} \/ sending[w] # Idle
  /\ due' = [due EXCEPT ![w] = {}]
  /\ sending' = [sending EXCEPT ![w] = Idle]
  /\ IF sending[w].taken THEN Lose(sending[w].mail) ELSE UNCHANGED lost
  /\ UNCHANGED <<stockVars, noticeVars, mail, attempts, retries, delivered>>

(* retry waits for the lock of the row.                                    *)
RequestRetry(m) ==
  /\ ~Locked(m)
  /\ mail[m] = "FAILED"
  /\ retries[m] < MaxRetries
  /\ retries' = [retries EXCEPT ![m] = retries[m] + 1]
  /\ mail' = [mail EXCEPT ![m] = "PENDING"]
  /\ UNCHANGED <<stockVars, noticeVars, attempts, due, sending, delivered, lost>>

-----------------------------------------------------------------------------
AlertsNext ==
  \/ BottleChanges \/ SweepLists \/ SweepRaises
  \/ \E a \in Records : Acknowledge(a) \/ Resolve(a) \/ Close(a)
  \/ DayPasses
  \/ \E r \in Rentals : RentalChanges(r)
  \/ \E m \in Mails : DraftNotice(m) \/ WriteNotice(m) \/ LoseDraft(m) \/ RequestRetry(m)
  \/ \E w \in Workers :
       \/ \E rested \in SUBSET Failed : ListDue(w, rested)
       \/ \E m \in Mails : TakeNext(w, m)
       \/ ProviderTakes(w) \/ RecordDelivery(w) \/ DispatchStops(w)

AlertsSpec == AlertsInit /\ [][AlertsNext]_alertsVars

(* The ticks of the scheduler go on, a failed e-mail rests only so long,   *)
(* and a transaction is not lost each time it is tried.                    *)
AlertsFairness ==
  /\ WF_alertsVars(SweepLists)
  /\ WF_alertsVars(SweepRaises)
  /\ \A m \in Mails : WF_alertsVars(DraftNotice(m)) /\ SF_alertsVars(WriteNotice(m))
  /\ \A w \in Workers :
       /\ WF_alertsVars(ListDue(w, Failed))
       /\ \A m \in Mails : SF_alertsVars(TakeNext(w, m))
       /\ SF_alertsVars(RecordDelivery(w))

FairAlertsSpec == AlertsSpec /\ AlertsFairness

-----------------------------------------------------------------------------
Taken(m) == \E w \in Workers : sending[w].mail = m /\ sending[w].taken

(* An e-mail that is recorded as sent was taken by the provider, and taken *)
(* once: again only when nobody could know, because the answer or the      *)
(* commit was lost, whatever the number of processes that dispatch.  The   *)
(* record is the evidence of the delivery (FR-ALR-16 AC2).                 *)
DeliveryIsEvidence ==
  \A m \in Mails :
    delivered[m] = lost[m] + (IF mail[m] = "SENT" \/ Taken(m) THEN 1 ELSE 0)

(* A rental that comes within a milestone is announced, although the       *)
(* scheduler was down on that day, unless it ends otherwise.  The brand    *)
(* has an active administrator: WriteNotice queues nothing without one.    *)
NoticeGoesOut ==
  \A d \in Milestones :
    (LiveRentals # {} /\ daysLeft <= d) ~> (Noticed(d) \/ LiveRentals = {})

(* An e-mail is sent, or was tried EMAIL_MAX_ATTEMPTS times.               *)
MailIsDecided ==
  \A m \in Mails :
    mail[m] = "PENDING" ~> mail[m] = "SENT" \/ (mail[m] = "FAILED" /\ attempts[m] >= MaxAttempts)

(* The brand is told in time, or the failure is on record.                 *)
BrandIsTold == NoticeGoesOut /\ MailIsDecided

(* An empty slot has a live alert, whatever staff do with the last one.    *)
EmptyIsAlerted == empty ~> (\E a \in Records : Unresolved(a)) \/ ~empty
=============================================================================
