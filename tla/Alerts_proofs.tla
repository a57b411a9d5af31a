--------------------------- MODULE Alerts_proofs ---------------------------
(***************************************************************************)
(* What the e-mail outbox records is what the provider was given, for any  *)
(* number of processes, notices, attempts and failures.                    *)
(***************************************************************************)
EXTENDS Alerts, TLAPS

(* What a process may hold.                                                *)
Sends == [mail : Mails \cup {NoMail}, taken : BOOLEAN]

(* The lock of a row has one holder.                                       *)
OneSender ==
  \A v, w \in Workers :
    sending[v].mail # NoMail /\ sending[v].mail = sending[w].mail => v = w

(* A row that is locked for sending has not been recorded as sent, and a   *)
(* process that holds no row has had nothing taken.                        *)
SendingIsOpen ==
  \A w \in Workers :
    /\ sending[w].mail # NoMail => mail[sending[w].mail] \in {"PENDING", "FAILED"}
    /\ sending[w].mail = NoMail => ~sending[w].taken

(* A notice that a job has yet to write has no row.                        *)
DraftsAreUnwritten == \A m \in draft : mail[m] = "NONE"

AlertsInv ==
  /\ AlertsTypeOK
  /\ OneSender
  /\ SendingIsOpen
  /\ DraftsAreUnwritten
  /\ DeliveryIsEvidence

LEMMA InitAlertsInv == AlertsInit => AlertsInv
  <1> SUFFICES ASSUME AlertsInit PROVE AlertsInv
    OBVIOUS
  <1>1. AlertsTypeOK
    <2>1. rental \in [Rentals -> {"later", "live", "gone"}]
      BY DEF AlertsInit
    <2>2. sending \in [Workers -> Sends]
      BY DEF AlertsInit, Idle, Sends
    <2>3. daysLeft \in 0..FirstDay /\ 0 \in 0..MaxRetries /\ 0 \in 0..MaxLost
      BY AlertsAssumption DEF AlertsInit
    <2> QED
      BY <2>1, <2>2, <2>3 DEF AlertsInit, AlertsTypeOK, Sends
  <1>2. OneSender /\ SendingIsOpen /\ DraftsAreUnwritten
    BY DEF AlertsInit, OneSender, SendingIsOpen, DraftsAreUnwritten, Idle
  <1>3. DeliveryIsEvidence
    BY AlertsAssumption DEF AlertsInit, DeliveryIsEvidence, Taken, Idle
  <1> QED
    BY <1>1, <1>2, <1>3 DEF AlertsInv

-----------------------------------------------------------------------------
(* One step.                                                               *)

(* What a process holds changes without those of the others.               *)
LEMMA OneSends ==
  ASSUME AlertsTypeOK, NEW w \in Workers, NEW s \in Sends,
         sending' = [sending EXCEPT ![w] = s]
  PROVE  /\ sending' \in [Workers -> Sends]
         /\ sending'[w] = s
         /\ \A v \in Workers \ {w} : sending'[v] = sending[v]
  BY DEF AlertsTypeOK, Sends

(* Alerts, days and rentals have no part in the outbox.                    *)
LEMMA OthersKeepAlertsInv ==
  ASSUME AlertsInv,
         \/ BottleChanges \/ SweepLists \/ SweepRaises
         \/ \E a \in Records : Acknowledge(a) \/ Resolve(a) \/ Close(a)
         \/ DayPasses
         \/ \E r \in Rentals : RentalChanges(r)
  PROVE  AlertsInv'
  <1>1. UNCHANGED <<draft, mailVars>>
    BY DEF BottleChanges, SweepLists, SweepRaises, Acknowledge, Resolve, Close,
           DayPasses, RentalChanges, noticeVars
  <1>2. empty' \in BOOLEAN /\ swept' \in BOOLEAN
    BY DEF BottleChanges, SweepLists, SweepRaises, Acknowledge, Resolve, Close,
           DayPasses, RentalChanges, stockVars, AlertsInv, AlertsTypeOK
  <1>3. alert' \in [Records -> AlertStatuses \cup {"NONE"}]
    BY DEF BottleChanges, SweepLists, SweepRaises, Acknowledge, Resolve, Close,
           DayPasses, RentalChanges, stockVars, AlertsInv, AlertsTypeOK, AlertStatuses
  <1>4. daysLeft' \in 0..FirstDay /\ rental' \in [Rentals -> {"later", "live", "gone"}]
    BY AlertsAssumption
    DEF BottleChanges, SweepLists, SweepRaises, Acknowledge, Resolve, Close,
        DayPasses, RentalChanges, noticeVars, AlertsInv, AlertsTypeOK
  <1>5. AlertsTypeOK'
    BY <1>1, <1>2, <1>3, <1>4 DEF AlertsInv, AlertsTypeOK, mailVars
  <1> QED
    BY <1>1, <1>5
    DEF AlertsInv, OneSender, SendingIsOpen, DraftsAreUnwritten, DeliveryIsEvidence,
        Taken, mailVars

(* A row is written once, and nobody can have locked it before.            *)
LEMMA NoticesKeepAlertsInv ==
  ASSUME AlertsInv, NEW m \in Mails,
         DraftNotice(m) \/ WriteNotice(m) \/ LoseDraft(m) \/ RequestRetry(m)
  PROVE  AlertsInv'
  <1>1. UNCHANGED <<stockVars, daysLeft, rental, attempts, due, sending, delivered, lost>>
    BY DEF DraftNotice, WriteNotice, LoseDraft, RequestRetry, mailVars, noticeVars
  <1>2. draft' \subseteq Mails /\ retries' \in [Mails -> 0..MaxRetries]
    BY AlertsAssumption
    DEF DraftNotice, WriteNotice, LoseDraft, RequestRetry, mailVars, noticeVars,
        AlertsInv, AlertsTypeOK
  <1>3. \/ UNCHANGED mail
        \/ mail[m] # "SENT" /\ mail' = [mail EXCEPT ![m] = "PENDING"]
    BY DEF DraftNotice, WriteNotice, LoseDraft, RequestRetry, mailVars,
           AlertsInv, DraftsAreUnwritten
  <1>4. AlertsTypeOK'
    BY <1>1, <1>2, <1>3
    DEF AlertsInv, AlertsTypeOK, MailStatuses, stockVars
  <1>5. DraftsAreUnwritten'
    <2>1. CASE DraftNotice(m)
      BY <2>1
      DEF DraftNotice, Noticed, AlertsInv, DraftsAreUnwritten, mailVars
    <2>2. CASE WriteNotice(m) \/ LoseDraft(m) \/ RequestRetry(m)
      BY <2>2
      DEF WriteNotice, LoseDraft, RequestRetry, AlertsInv, AlertsTypeOK,
          DraftsAreUnwritten, mailVars, noticeVars
    <2> QED
      BY <2>1, <2>2
  <1>6. OneSender' /\ SendingIsOpen'
    BY <1>1, <1>3 DEF AlertsInv, AlertsTypeOK, OneSender, SendingIsOpen
  <1>7. DeliveryIsEvidence'
    BY <1>1, <1>3 DEF AlertsInv, AlertsTypeOK, DeliveryIsEvidence, Taken
  <1> QED
    BY <1>4, <1>5, <1>6, <1>7 DEF AlertsInv

(* Listing what is due decides nothing; the lock is what counts.           *)
LEMMA TakingKeepsAlertsInv ==
  ASSUME AlertsInv, NEW w \in Workers,
         (\E rested \in SUBSET Failed : ListDue(w, rested)) \/ (\E m \in Mails : TakeNext(w, m))
  PROVE  AlertsInv'
  <1>1. UNCHANGED <<stockVars, noticeVars, mail, attempts, retries, delivered, lost>>
    BY DEF ListDue, TakeNext
  <1>2. due' \in [Workers -> SUBSET Mails]
    BY DEF ListDue, TakeNext, Waiting, Failed, AlertsInv, AlertsTypeOK
  <1>3. \/ UNCHANGED sending
        \/ \E m \in Mails :
             /\ sending[w] = Idle /\ ~Locked(m) /\ mail[m] \in {"PENDING", "FAILED"}
             /\ sending' = [sending EXCEPT ![w] = [mail |-> m, taken |-> FALSE]]
    BY DEF ListDue, TakeNext, IsSendable
  <1>4. CASE UNCHANGED sending
    BY <1>1, <1>2, <1>4
    DEF AlertsInv, AlertsTypeOK, OneSender, SendingIsOpen, DraftsAreUnwritten,
        DeliveryIsEvidence, Taken, stockVars, noticeVars
  <1>5. ASSUME NEW m \in Mails,
               sending[w] = Idle, ~Locked(m), mail[m] \in {"PENDING", "FAILED"},
               sending' = [sending EXCEPT ![w] = [mail |-> m, taken |-> FALSE]]
        PROVE  AlertsInv'
    <2>1. [mail |-> m, taken |-> FALSE] \in Sends /\ m # NoMail
      BY AlertsAssumption DEF Sends
    <2>2. /\ sending' \in [Workers -> Sends]
          /\ sending'[w] = [mail |-> m, taken |-> FALSE]
          /\ \A v \in Workers \ {w} : sending'[v] = sending[v]
      BY <1>5, <2>1, OneSends DEF AlertsInv
    <2>3. AlertsTypeOK'
      BY <1>1, <1>2, <2>2 DEF AlertsInv, AlertsTypeOK, Sends, stockVars, noticeVars
    <2>4. OneSender' /\ SendingIsOpen'
      <3>1. \A v \in Workers : sending[v].mail # m
        BY <1>5 DEF Locked
      <3>2. OneSender'
        BY <2>2, <3>1 DEF AlertsInv, OneSender
      <3>3. SendingIsOpen'
        BY <1>1, <1>5, <2>1, <2>2 DEF AlertsInv, SendingIsOpen
      <3> QED
        BY <3>2, <3>3
    <2>5. \A n \in Mails : Taken(n)' <=> Taken(n)
      <3>1. ~sending[w].taken /\ ~sending'[w].taken
        BY <1>5, <2>2 DEF Idle
      <3> QED
        BY <2>2, <3>1 DEF Taken
    <2>6. DeliveryIsEvidence'
      BY <1>1, <2>5 DEF AlertsInv, DeliveryIsEvidence
    <2> QED
      BY <1>1, <2>3, <2>4, <2>6 DEF AlertsInv, DraftsAreUnwritten, noticeVars
  <1> QED
    BY <1>3, <1>4, <1>5

(* The process that holds the row is the only one that sends it.           *)
LEMMA ProviderKeepsAlertsInv ==
  ASSUME AlertsInv, NEW w \in Workers, ProviderTakes(w)
  PROVE  AlertsInv'
  <1>1. PICK m : m = sending[w].mail
    OBVIOUS
  <1> USE <1>1
  <1>2. m \in Mails /\ ~sending[w].taken /\ mail[m] # "SENT"
    BY DEF AlertsInv, AlertsTypeOK, SendingIsOpen, ProviderTakes
  <1>3. UNCHANGED <<stockVars, noticeVars, mail, attempts, retries, due, lost>>
    BY DEF ProviderTakes
  <1>4. sending' = [sending EXCEPT ![w] = [mail |-> m, taken |-> TRUE]]
    BY DEF ProviderTakes
  <1>5. delivered' = [delivered EXCEPT ![m] = delivered[m] + 1]
    BY DEF ProviderTakes
  <1>6. [mail |-> m, taken |-> TRUE] \in Sends
    BY <1>2 DEF Sends
  <1>7. /\ sending' \in [Workers -> Sends]
        /\ sending'[w] = [mail |-> m, taken |-> TRUE]
        /\ \A v \in Workers \ {w} : sending'[v] = sending[v]
    BY <1>4, <1>6, OneSends DEF AlertsInv
  <1>8. AlertsTypeOK'
    BY <1>2, <1>3, <1>5, <1>7 DEF AlertsInv, AlertsTypeOK, Sends, stockVars, noticeVars
  <1>9. \A v \in Workers : sending'[v].mail = sending[v].mail
    BY <1>7
  <1>10. OneSender' /\ SendingIsOpen'
    <2>1. OneSender'
      BY <1>9 DEF AlertsInv, OneSender
    <2>2. SendingIsOpen'
      BY <1>2, <1>3, <1>7, AlertsAssumption DEF AlertsInv, SendingIsOpen
    <2> QED
      BY <2>1, <2>2
  <1>11. ~Taken(m) /\ Taken(m)'
    <2>1. m # NoMail
      BY <1>2, AlertsAssumption
    <2>2. \A v \in Workers : sending[v].mail = m => v = w
      BY <2>1 DEF AlertsInv, OneSender
    <2>3. ~Taken(m)
      BY <1>2, <2>2 DEF Taken
    <2> QED
      BY <1>7, <2>3 DEF Taken
  <1>12. \A n \in Mails : n # m => (Taken(n)' <=> Taken(n))
    <2>1. sending'[w].mail = m /\ sending[w].mail = m
      BY <1>7
    <2> QED
      BY <1>7, <2>1 DEF Taken
  <1>13. DeliveryIsEvidence'
    <2>1. delivered'[m] = delivered[m] + 1 /\ \A n \in Mails : n # m => delivered'[n] = delivered[n]
      BY <1>2, <1>5 DEF AlertsInv, AlertsTypeOK
    <2>2. delivered[m] = lost[m]
      BY <1>2, <1>11 DEF AlertsInv, AlertsTypeOK, DeliveryIsEvidence
    <2>3. lost[m] \in Nat
      BY <1>2, AlertsAssumption DEF AlertsInv, AlertsTypeOK
    <2>4. delivered'[m] = lost'[m] + 1
      BY <1>3, <2>1, <2>2
    <2> QED
      BY <1>2, <1>3, <1>11, <1>12, <2>1, <2>4 DEF AlertsInv, DeliveryIsEvidence
  <1> QED
    BY <1>3, <1>8, <1>10, <1>13 DEF AlertsInv, DraftsAreUnwritten, noticeVars

(* Letting go of a row accounts for what the provider took: it is recorded *)
(* or it is lost.                                                          *)
LEMMA LettingGoKeepsAlertsInv ==
  ASSUME AlertsInv, NEW w \in Workers, RecordDelivery(w) \/ DispatchStops(w)
  PROVE  AlertsInv'
  <1>1. PICK m : m = sending[w].mail
    OBVIOUS
  <1> USE <1>1
  <1>2. UNCHANGED <<stockVars, noticeVars, retries, delivered>>
    BY DEF RecordDelivery, DispatchStops
  <1>3. sending' = [sending EXCEPT ![w] = Idle]
    BY DEF RecordDelivery, DispatchStops
  <1>4. /\ sending' \in [Workers -> Sends]
        /\ sending'[w] = Idle
        /\ \A v \in Workers \ {w} : sending'[v] = sending[v]
    <2>1. Idle \in Sends
      BY DEF Idle, Sends
    <2> QED
      BY <1>3, <2>1, OneSends DEF AlertsInv
  <1>5. Idle.mail = NoMail /\ Idle.taken = FALSE
    BY DEF Idle
  <1>6. attempts' \in [Mails -> Nat] /\ due' \in [Workers -> SUBSET Mails]
    <2>1. m \in Mails \cup {NoMail}
      BY DEF AlertsInv, AlertsTypeOK
    <2>2. attempts' = attempts \/ (m \in Mails /\ attempts' = [attempts EXCEPT ![m] = attempts[m] + 1])
      BY <2>1 DEF RecordDelivery, DispatchStops
    <2>3. attempts' \in [Mails -> Nat]
      BY <2>2 DEF AlertsInv, AlertsTypeOK
    <2>4. due' \in [Workers -> SUBSET Mails]
      BY DEF RecordDelivery, DispatchStops, AlertsInv, AlertsTypeOK
    <2> QED
      BY <2>3, <2>4
  <1>7. CASE m = NoMail
    <2>1. UNCHANGED <<mail, lost>>
      BY <1>7 DEF RecordDelivery, DispatchStops, AlertsInv, SendingIsOpen
    <2>2. UNCHANGED sending
      <3>1. sending[w] \in Sends /\ ~sending[w].taken
        BY <1>7 DEF AlertsInv, AlertsTypeOK, SendingIsOpen, Sends
      <3>2. sending[w] = Idle
        BY <1>7, <3>1 DEF Sends, Idle
      <3> QED
        BY <1>3, <3>2 DEF AlertsInv, AlertsTypeOK
    <2> QED
      BY <1>2, <1>6, <2>1, <2>2
      DEF AlertsInv, AlertsTypeOK, OneSender, SendingIsOpen, DraftsAreUnwritten,
          DeliveryIsEvidence, Taken, stockVars, noticeVars
  <1>8. CASE m # NoMail
    <2>1. m \in Mails /\ mail[m] \in {"PENDING", "FAILED"}
      BY <1>8 DEF AlertsInv, AlertsTypeOK, SendingIsOpen
    <2>2. \/ mail' = [mail EXCEPT ![m] = "SENT"] /\ sending[w].taken /\ UNCHANGED lost
          \/ /\ UNCHANGED mail \/ mail' = [mail EXCEPT ![m] = "FAILED"]
             /\ IF sending[w].taken THEN Lose(m) ELSE UNCHANGED lost
      BY DEF RecordDelivery, DispatchStops
    <2>3. AlertsTypeOK'
      <3>1. mail' \in [Mails -> MailStatuses \cup {"NONE"}]
        BY <2>2 DEF AlertsInv, AlertsTypeOK, MailStatuses
      <3>2. lost' \in [Mails -> 0..MaxLost]
        BY <2>2, AlertsAssumption DEF AlertsInv, AlertsTypeOK, Lose
      <3> QED
        BY <1>2, <1>6, <1>4, <3>1, <3>2
        DEF AlertsInv, AlertsTypeOK, Sends, stockVars, noticeVars
    <2>4. \A v \in Workers \ {w} : sending[v].mail # m
      BY <1>8 DEF AlertsInv, OneSender
    <2>5. OneSender'
      BY <1>4, <1>5 DEF AlertsInv, OneSender
    <2>6. SendingIsOpen'
      <3>1. \A n \in Mails : n # m => mail'[n] = mail[n]
        BY <2>2 DEF AlertsInv, AlertsTypeOK
      <3>2. \A v \in Workers : sending[v].mail \in Mails \cup {NoMail}
        BY DEF AlertsInv, AlertsTypeOK
      <3> QED
        BY <1>4, <1>5, <2>4, <3>1, <3>2 DEF AlertsInv, SendingIsOpen
    <2>7. DraftsAreUnwritten'
      BY <1>2, <2>1, <2>2
      DEF AlertsInv, AlertsTypeOK, DraftsAreUnwritten, noticeVars
    <2>8. (Taken(m) <=> sending[w].taken) /\ ~Taken(m)'
      <3>1. Taken(m) <=> sending[w].taken
        BY <2>4 DEF Taken
      <3>2. ~Taken(m)'
        <4>1. sending'[w].mail # m
          BY <1>8, <1>4, <1>5
        <4> QED
          BY <1>4, <2>4, <4>1 DEF Taken
      <3> QED
        BY <3>1, <3>2
    <2>9. \A n \in Mails : n # m => (Taken(n)' <=> Taken(n))
      <3>1. ~sending'[w].taken /\ sending[w].mail = m
        BY <1>4, <1>5
      <3> QED
        BY <1>4, <3>1 DEF Taken
    <2>10. DeliveryIsEvidence'
      <3>1. CASE mail' = [mail EXCEPT ![m] = "SENT"] /\ sending[w].taken /\ UNCHANGED lost
        BY <1>2, <2>1, <2>8, <2>9, <3>1
        DEF AlertsInv, AlertsTypeOK, DeliveryIsEvidence
      <3>2. CASE UNCHANGED mail \/ mail' = [mail EXCEPT ![m] = "FAILED"]
        <4>1. \A n \in Mails : (mail'[n] = "SENT" <=> mail[n] = "SENT") /\ mail[m] # "SENT"
          BY <2>1, <3>2 DEF AlertsInv, AlertsTypeOK
        <4>2. CASE sending[w].taken
          <5>1. lost' = [lost EXCEPT ![m] = lost[m] + 1]
            BY <2>2, <3>2, <4>1, <4>2, <2>1 DEF Lose, AlertsInv, AlertsTypeOK
          <5> QED
            BY <1>2, <2>1, <2>8, <2>9, <4>1, <4>2, <5>1, AlertsAssumption
            DEF AlertsInv, AlertsTypeOK, DeliveryIsEvidence
        <4>3. CASE ~sending[w].taken
          BY <1>2, <2>1, <2>2, <2>8, <2>9, <4>1, <4>3
          DEF AlertsInv, AlertsTypeOK, DeliveryIsEvidence
        <4> QED
          BY <4>2, <4>3
      <3> QED
        BY <2>2, <3>1, <3>2
    <2> QED
      BY <2>3, <2>5, <2>6, <2>7, <2>10 DEF AlertsInv
  <1> QED
    BY <1>7, <1>8

LEMMA StepKeepsAlertsInv == AlertsInv /\ [AlertsNext]_alertsVars => AlertsInv'
  <1> SUFFICES ASSUME AlertsInv, [AlertsNext]_alertsVars PROVE AlertsInv'
    OBVIOUS
  <1>1. CASE UNCHANGED alertsVars
    BY <1>1
    DEF alertsVars, stockVars, noticeVars, mailVars, AlertsInv, AlertsTypeOK,
        OneSender, SendingIsOpen, DraftsAreUnwritten, DeliveryIsEvidence, Taken
  <1>2. CASE AlertsNext
    BY <1>2, OthersKeepAlertsInv, NoticesKeepAlertsInv, TakingKeepsAlertsInv,
       ProviderKeepsAlertsInv, LettingGoKeepsAlertsInv
    DEF AlertsNext
  <1> QED
    BY <1>1, <1>2

-----------------------------------------------------------------------------
(* The theorems.                                                           *)

(* The outbox keeps AlertsInv, whichever processes dispatch it.            *)
THEOREM AlertsSafety == AlertsSpec => []AlertsInv
  <1> QED
    BY InitAlertsInv, StepKeepsAlertsInv, PTL DEF AlertsSpec

(* Alerts, notices and e-mails keep their types.                           *)
THEOREM AlertsTypeCorrect == AlertsSpec => []AlertsTypeOK
  <1>1. AlertsInv => AlertsTypeOK
    BY DEF AlertsInv
  <1> QED
    BY <1>1, AlertsSafety, PTL

(* What is recorded as sent was taken once by the provider, save for what  *)
(* was taken and never recorded, in every history of sends and failures.   *)
THEOREM AlertsDeliveryIsEvidence == AlertsSpec => []DeliveryIsEvidence
  <1>1. AlertsInv => DeliveryIsEvidence
    BY DEF AlertsInv
  <1> QED
    BY <1>1, AlertsSafety, PTL
=============================================================================
