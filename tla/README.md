# Specifications of the perfume vending platform

TLA+ specifications of the platform in `src/`: a network of kiosks that sell single perfume sprays
paid for through a QR code, the API behind them, and the firmware that switches the pump on.  The
specifications are written from the code; the documents under `src/spec` are quoted where the code
and they disagree.  TLC checks them on small instances, and TLAPS proves their safety properties
for any number of orders, slots, bank transfers, deliveries and power losses.

Line numbers and every correspondence between a definition and the code are in `PROJECT.json`
(`map`); this file explains the shape of the whole.

## 1. Inventory

The API (`src/apps/api/src`) is one process: its HTTP server, its MQTT consumer and its scheduler
(`entrypoints/scheduler.ts:2`) share the database and nothing else, and a deployment may have two
such processes alive for a while.  Below, "keeps" names the state, and "correct when"
what has to hold of it.

| component | keeps | operations | correct when |
|---|---|---|---|
| ORD orders (`modules/ord/ord.service.ts`) | `orders`: status, `paid_at`, `expires_at`, `needs_manual_review` | create, cancel, expire, settle, queue, start and finish a dispense, time out, flag, record a refund | one order at a time waits for payment on a machine; every owed customer is on the staff's list; nobody is served unpaid |
| ORD payments (`ord/payment`) | `payments`, `payment_events` | open a link, cancel or expire it, handle a webhook | each transfer is booked once or shown to staff; order and payment agree |
| payment gateway (payOS, external) | links, transfers | create, query, cancel a link; send webhooks | — (an environment) |
| DSP (`modules/dsp`) | `dispense_commands` | arm, publish, mark sent, acknowledge, close, sweep, diagnose | one spray per paid order; no inferred success; the machine is always freed |
| MCH (`modules/mch`) | `machines.operating_mode`, `machine_slots.status` | set mode, force maintenance, enable and disable slots | a stopping machine takes no new customer, and does stop |
| INV (`modules/inv`) | refill sessions, batches, shipments, bottles, millilitres left | open and close a refill, ship, receive, consume a dose | no customer is in hand while the door is open; bottles are where the books say |
| IOT (`modules/iot`) | `machines.status`, configuration versions, telemetry | heartbeat, connection sweep, publish configuration | the device ends up with the configuration of the database |
| device (`arduino/ScentStationValveDevice`) | state machine, armed token, history and outbox in flash | accept, press, spray, report, configure | at most one spray per token, whatever the network and the power do |
| refund claims (`ord/refund-claims`) | claims, ciphertexts | open, decide, pay out | nobody is refunded twice, no owed customer is forgotten |
| SLT rentals (`modules/slt`) | rentals, checkouts, grace fees, compensations | checkout, settle, renew, end, daily jobs | a slot has one tenant; a paid checkout becomes one rental |
| EXP returns (`modules/exp`), storage compensation (`slt/compensation*`) | bottle returns, compensations | list, hand over, compensate a damaged bottle | goods change hands once; a cap is kept |
| RFQ refill requests (`modules/rfq`) | requests and their session | submit, answer, link, complete | a request follows the session that serves it |
| REV payouts (`modules/rev`) | monthly payouts, disputes | recalculate, close, pay, dispute, answer | an order is paid out once; closed figures stay |
| ALR (`modules/alr`) | alerts, the e-mail outbox | raise, sweep, handle; queue, dispatch, retry | what is recorded as sent was sent, once; nobody is left untold |
| MNT | tickets, the post-maintenance test | assign, resolve, test | a machine is not sold from before its test |
| AUTH, USR | accounts, refresh tokens | log in, rotate, revoke | access control |
| PRD, BND, AUD, RPT | catalogue, audit log, reports | edit, append, read | — (no protocol) |
| scheduler (`entrypoints/scheduler.ts`) | nothing of its own | ticks: device, order expiry, rental, claim, payout, e-mail, alert | a tick that stops half-way is made good by a later one |
| kiosk (`apps/kiosk`) | the checkout on screen, one order to cancel | create, poll, cancel, time out, reload | the code on screen is for the product on screen; a paid customer keeps the screen |
| admin web | forms and tables | API calls | — |

**How they meet.**  ORD, DSP, MCH and INV read and write the same rows of a machine, each inside
transactions that lock what they test; ORD calls the gateway, which calls back by webhook; DSP and
IOT talk to the device through an MQTT broker (commands not retained, the configuration retained,
results repeated by the device until published); MCH ends DRAINING with the help of DSP, and a forced
maintenance cancels orders through ORD; the scheduler drives what nobody calls.  Refund claims read
orders and payments and write orders back.  SLT shares the payment handler with ORD, and bottles and
slots with INV, RFQ, EXP and the doses of DSP; REV reads orders; ALR is written to, in the transactions
of all the others, and sends later.  The kiosk is a client: it polls, and hears of nothing by itself.

**What is hard.**  The gateway and the broker are called outside the transactions that act on their
answers.  A webhook may come during a cancellation, after an expiry, twice, or under a new event id.
A job lists its work outside a transaction and does it one transaction at a time, and may stop
anywhere.  The broker may lose, delay and repeat a command, the device may lose its power between
any two steps, and its report may arrive before the API has noted that the command was sent or
after it has given the command up.  What a refund claim pays back is decided when it is filed and acted
on days later.  A renewal is settled while the jobs end the rental it renews.  A machine can be drained,
forced into maintenance, opened for a refill or disconnected at any point of all this.  `PROJECT.json`
lists the hazards at their lines.

## 2. How the models are divided

**The machine.**  The detailed models of the shop front and of dispensing, composed, are too large to
check with liveness, repeated deliveries or diagnostics, and most of the product tells nothing: each needs
little of the other.  So the parts are checked separately against a contract on the rows they share, and
composed in `Station`, whose theorems are proved from those of the parts.

```
             OrderLifecycle            what is promised of each order
                   ^  implements
            StationContract            what ORD may do to the shared rows, what DSP may do
              ^          ^  implement
          Sales        Dispensing
     ORD + payments    DSP + broker + device          MoneyTrail    what is promised of each transfer
     in detail; DSP    in detail; ORD                     ^  implements
     by its contract   by its contract                 Refunds      Sales + refund claims
              ^          ^  implements both
                Station                Checkout, DSP and the device, all in detail

        MachineMode, StationDb         the shared rows, the machine's mode, slots, refills
```

`StationContract` alone implies the invariants on the shared rows and `OrderLifecycle`; `Sales`
implements `StationContract` although its dispense service does anything the contract allows;
`Dispensing` implements it although its shop front does anything the contract allows.  A step of `Station`
is a step of one of the two, in detail, and within the contract for the other.  That the two assumptions do
not support only each other is not left to argument: `StationImplementsParts` proves it (section 5).

**Around it.**  The rest of the platform meets the machine in few rows, and each other in fewer, so
each business has a model of its own, in which what the others do to those rows is any step they may
take:

```
   Tenancy               who may have a slot, and whose goods are in it
      ^  implements
   Rentals    Stock    Payouts    Alerts    Kiosk
```

| module | models | state and actions |
|---|---|---|
| `OrderStatus` | `ord/order-status.ts` | the transition table |
| `DispenseOutcome` | `dsp/dispense-outcome.ts` | what each report means for a command and its order |
| `OrderLifecycle` | the promise to customers (abstract) | `status`, `review` |
| `StationDb` | the rows of one machine, the queries on them, and what ORD does for its callers | `status`, `review`, `paidAt`, `cmd`, `slot`, `mode`, `online`, `refill`; `FailBeforeDispense`, `StartDispense`, `FinishDispense` |
| `MachineMode` | MCH mode and slots, refill sessions, connection | `SetMode`, `CompleteDraining`, `ForceMaintenance`, `OpenRefill`, `EnableSlot`, ... |
| `StationContract` | the contract (abstract) | `CheckoutContract`, `DispenseContract`, both on the shared rows only |
| `Checkout` | `ord.service.ts`, `ord/payment`, and the gateway | `pay`, `payTxn`, `claimed`, `failed`, `link`, `closing`, ...; one action per call, webhook, and half of a cancellation |
| `Sales` | Checkout with an open dispense service | |
| `Device` | the firmware and the broker | `state`, `held`, `seen`, `deviceMode`, `wire`, `reports`, ...; one action per way through `acceptCommand`, per button, timer and power event |
| `Dispensing` | `dsp.service.ts`, `dsp.queries.ts`, `dsp.jobs.ts` with Device, and an open shop front | `candidate`, `outgoing`, `published`, `acknowledged`; one action per job step, report and sweep |
| `Station` | Checkout, DSP, broker and device together | the variables and the actions of both; no new ones |
| `MoneyTrail` | the promise about each bank transfer (abstract) | `fate` |
| `Refunds` | Sales with `ord/refund-claims` | `claim`, `units`, `filing`; `ReadClaimable` and `FileClaim`, `MarkRefunded`, rejecting, closing |
| `Tenancy` | the promise about each slot (abstract) | `tenant`, `goods` |
| `Rentals` | `modules/slt`, `modules/exp`, and what a refill does to a rental | `status`, `prev`, `declined`, `checkout`, `pay`, `bottle`, ...; a webhook is `BeginSettle` and `CommitSettle`, the job that ends a period `HandOver` or `BeginGrace` and `CommitGrace`; `AskRenewal`, `AskLiquidation`, ... read before their transaction; one action per job |
| `Stock` | `modules/inv`, `modules/rfq`, compensation, returns, doses | `batch`, `status`, `ml`, `active`, `sprays`, `request`, ...; one action per operation |
| `Payouts` | `modules/rev` | `payout`, `counted`, `dispute`, `job`; the two statements of the job, and payment, dispute, answer |
| `Alerts` | `modules/alr`, the notices of `slt.jobs.ts` | `alert`, `mail`, `draft`, `due`, `sending`; list, lock, send and record, each of them a step |
| `Kiosk` | `apps/kiosk/src/screens/checkout`, the shell around it | `screen`, `create`, `shown`, `view`, `cancel`, `stored`, and the calls under way |

### Modelling decisions

- **One machine.**  Orders, commands, slots, refill sessions and locks belong to a machine; machines
  share none of them.  `Stock`, `Payouts` and `Alerts` also take one brand: no row of theirs belongs
  to two.
- **A transaction is one step.**  Each locks the rows it tests: orders, payments and commands by
  `FOR UPDATE`, the machine row before an order is inserted or a refill opened.  Reads made before a
  transaction, and calls of the gateway, the broker or the e-mail provider, are steps of their own:
  `AskCancel` and `CommitCancel`, `ReadCandidate` and `ArmCandidate`, `ListOutgoing`, `Publish` and
  `MarkSent`, `ReadClaimable` and `FileClaim`, `ListDue`, `TakeNext`, `ProviderTakes` and
  `RecordDelivery`.  A transaction that fails is a step that does not happen; the calls before it
  remain (`LoseClosing`, `TickFails`, `LoseRequest`, `LoseDraft`, `DispatchStops`).  Where one transaction
  reads what another may change between two of its statements, it is more steps than one:
  `BeginSettle` and `CommitSettle` of a rental's webhook, `BeginGrace` and `CommitGrace` of the grace job, the two
  statements of `refreshPayouts`.
- **`closing`** is the set of cancellations whose gateway call has been answered and whose
  transaction has not run; `ForcedMachine` in it stands for a forced maintenance that has committed
  the mode and not listed the unpaid orders.
- **`review`** is `needs_manual_review`, the work list of the staff.
- **Time** is a fact about each thing that has a deadline: `late` (an order's `expires_at`),
  `onTime` (the transfers made before it, by the gateway's clock), `expired` (a command's
  `expires_at`), `overdue` (a hold, a period, a grace).  `Payouts` counts months and `Alerts` days.
  Clocks of API and device are taken to agree; the firmware refuses commands until it has the time
  from NTP.  A sent command is swept only when it has expired: the result timeout and the TTL are both
  60 s and the first starts later.  An acknowledged command is swept only when the device no longer
  holds it: 60 s after the end of a press window of 60 s, and a spray lasts seconds.
- **A report is kept once made**, and the API may handle it at any later time, in any order, any
  number of times; handling it again does nothing because the command's status no longer admits it.
  A report `DUPLICATE` is ignored by `handleDeviceResult` and so has no action there.
- **A broker delivery** is possible while a command is in `wire`; a device that restarts has a clean
  session, so `Reboot` empties it.  The mode is the only part of the configuration that is kept.
- **Money and amounts** are the transfers or orders they add up to (`units`, `counted`): two sums are
  compared by what is in them.  Perfume is counted in parts of a dose.
- **A rental** is the pair of its checkout and the slot it was bought for; `place` is where a swap has
  moved it.  Periods are not numbers: `excl_slot_rental_overlap` is modelled by the pairs of rentals it may let stand
  on one slot (`MayFollow`): a rental and its renewal, one whose period was over when it was liquidated and any
  other, and two renewals of a rental that is past its period.  It may refuse some of these too, by dates the model
  does not have; the transaction is then lost, as any may be.  No request is under way
  for longer than a rental lasts: a renewal that was asked for before the slot was let to another is refused, since
  its period, which begins when the old one ended, overlaps the new tenant's.
- **A React effect** that follows from a change of state is part of the action that makes the change;
  calls under way are kept until they are answered, whoever has left the screen meanwhile.
- **Choices left open**, because another component decides them: whether the device's door, driver
  or slot lets it accept (`RejectUnsafe`), whether its storage works (`StorageFails`, `AcceptFails`),
  which failures take a slot out of sale (`SlotMayStop`), whether a slot is calibrated
  (`ArmCandidate`), whether the gateway answers (`GatewayCloses`) and whether the amount is right.
- **One payment per order**, as the code creates them; a rental checkout may have several.  One
  scheduler process for the device tick, which does not overlap itself, as `scheduler.ts` runs it;
  `Alerts` has two that dispatch e-mail, since the code takes care that two may.  `/history` on the
  device is unbounded here and has 500 entries in the code: a command expires after 60 s, long before
  500 newer ones have displaced it, and an expired command is refused before the history is asked.
  The test mode of the firmware ignores commands, which is a broker that does not deliver.

## 3. The runs

| run | instance | distinct states | question |
|---|---|---|---|
| `contract` | 2 orders, 1 diagnostic, 2 transfers, all six ways of stopping the machine | 177,408 | is the contract enough for the promises? |
| `sales` | 1 order, 2 transfers, drain and force | 151,140 | do order, payment and money stay in step, is everybody answered, does draining end, is the contract kept? |
| `dispensing` | 1 order, 2 deliveries of a command, 1 power loss, drain and force | 123,510 | one spray per command, no invented result, an end to every service, and a machine that is freed? |
| `dispensing_once` | 1 order, 1 diagnostic, 1 delivery, 1 power loss | 1,261,838 | are rejected commands harmless when nothing is delivered twice? |
| `dispensing_rejected` | the same with two deliveries | | they are not (a violation: see below) |
| `refunds` | 1 order, 2 transfers, several claims filed at once | 91,714 | is money paid back once, and nobody who is owed it forgotten? |
| `rentals` | 3 checkouts of 2 brands, 2 slots, 2 payments of a checkout | 400,144 | has a slot one paid tenant at a time, and are renewals kept? |
| `rentals_live` | 2 checkouts, 1 slot, 2 requests under way | 38,349 | does every hold, period and grace end, and what has ended stay ended? |
| `stock` | 2 slots, 2 bottles, any return list | 2,029,202 | do bottles, slots, requests, returns and compensations agree? |
| `payouts` | 2 orders, 3 months | 16,086 | is a brand paid once for each order, in figures that stay? |
| `alerts` | 2 records, 1 slot, 1 notice, 2 processes, 2 attempts | 45,200 | is what is recorded as sent sent once, and is everybody told? |
| `kiosk` | 2 orders, 2 products, 1 cancellation under way at a time | 327,552 | is the right code shown, does a paid customer keep the screen, is the kiosk freed? |

**Why these bounds.**  Two orders are what the properties of the shared rows relate: one in service
and one that waits, or one that is overdue and the one that replaces it; they are in `contract`, and
for any number of orders in the proofs.  Two transfers give an extra transfer on an order.  In `sales`
one order suffices because orders of a machine meet only in the shared rows; that a second order cannot be
paid with the transfer of the first is part of the proof of `SalesMoneyAccounted`.  Two deliveries, with
one power loss between them, give every kind of repetition: while the lamp is lit, after the spray, after a
restart.  Three checkouts give a tenant, its renewal and a rival brand, two slots give a swap.  Two
bottles and two slots give a replacement, and a return that lists what is in the other slot; a bottle of two
doses is full, low and empty (`MCStockTexts` has one of two and a half, with a remainder).  Three months give
one that is open, one that is being closed and one that was missed.  Two processes give every race for the lock of an e-mail,
one day beyond the milestone a scheduler that was down on that day.  Two orders of a kiosk give an answer that
belongs to the customer before.
`MaxTransfers`, `MaxCopies`, `MaxReboots`, `MaxPayments`, `MaxRequests`, `MaxRetries`, `MaxLost`, `CallsAtOnce`,
`Stages`, `Asking`, `Tended`, `Writers` bound what would repeat; `StopKinds` selects the ways in which the machine may
stop in a run.

`SYMMETRY` permutes orders (`contract`) and bottles (`stock`), in runs of invariants and
action properties only.  Deadlock is not checked: with all orders, checkouts or months used the system has
nothing left to do.

### The properties

*On the shared rows* (`StationContract`): `OpenOrdersInTurn`, `OwedIsOnTheList`, `ServedHasCommand`, and the
action property `StoppedOnlyShrinks` (a machine that is draining or stopped takes no customer in hand).
`ImplementsLifecycle` is the refinement of `OrderLifecycle`.

*On money* (`Sales`): `PaymentFollowsOrder`, `ServedMeansPaid`, `MoneyAccounted`; `ImplementsContract` is
the refinement; liveness is `PaymentsAreAnswered` (a wait for a payment ends, a transfer in full is answered)
and `DrainingEnds`.  `PaymentsAreAnswered` and `DrainingEnds` except orders under review, because the code does:
an order with a wrong amount on its link waits for staff.  A
transfer that was reported as failed first under the same event id (`failed`) is not claimed, and is the exception of
`MoneyAccounted` and `PaymentsAreAnswered`: see `LateSuccessIsTaken` below.

*On sprays* (`Dispensing`): `OneSprayPerCommand`, `ResultsAreTrue` (SUCCEEDED was sprayed, FORFEITED was
offered and not sprayed), `RejectedNeverSprays` (when nothing is delivered twice); liveness is `ServiceEnds`,
`MachineIsFreed`, `SprayIsBooked`.

*On the whole machine* (`Station`): `SoldAsPaid` (the pump ran for an order only if a transfer of its price, in
time and for that order, is recorded on it; a DISPENSED order was sprayed once and its payment stands).  No
component sees the transfer, the spray and the books.  It is proved, and TLC checks it under `MCStation.cfg` (1
order, 1 transfer, 1 power loss, draining: 362,952 states), which is not one of the runs: with diagnostics or
a second transfer it takes too long for one.

*On refunds* (`Refunds`): `ClaimsPayOnce`, `OwedOrClaimed`, and the refinement `ImplementsTrail` of
`MoneyTrail`: the money of a transfer is held, earned, owed, or paid back, and never paid back after it
was earned.

*On rentals* (`Rentals`): `HoldsArePaidFor`, `RenewalIsKept`, `SlotHasOneOwner`, the refinement
`ImplementsTenancy` of `Tenancy`; liveness is `CheckoutsEnd` and `PeriodIsFollowed`; with them `rentals_live`
checks the action property `EndsAsAgreed` (a rental that was renewed before the grace job looked does not enter
grace; one that has ended comes back only as LIQUIDATED, by a liquidation that was asked for before, with nobody
else in force in its slot).  The job reads the renewal without a lock (`BeginGrace`) and writes later
(`CommitGrace`), so that one that is paid in between does not keep its rental out of grace: if its webhook
had still read the rental as in force, no job takes the renewal up again, and it stays a DRAFT that was paid for
(`PaidRenewalNeverGrace`, below).  `SlotHasOneOwner` allows two brands on a slot in one case, which the
code has: `liquidateRentalTx` writes whatever its rental has become, so that one that was closed after it was read is
LIQUIDATED beside the DRAFT of the brand the slot was let to since; `excl_slot_rental_overlap` compares periods, and
those are disjoint.  The rental that waits begins when the liquidated one is closed, and `Tenancy` sees the slot
stay with the brand that has it.  `PeriodIsFollowed` has an exception for a renewal that was swapped to a slot
liquidated late; one slot, as in `rentals_live`, does not reach it.

*On stock* (`Stock`): `SlotHoldsGoods` (what a slot sells is in it, in the amount shown, from an approved
batch), `CompensationIsDue`, `RequestFollowsSession` and the action property `GoodsChangeHandsOnce`.  A return may list
any bottles of the brand (`MayList`), in this slot, in another, sold, damaged or returned before, because
`createBottleReturn` looks only at whose they are.  So the properties say what holds then, and not more: a
bottle in a slot may be RETURNED_TO_BRAND if the return of another slot listed it; each return may leave one bottle
INSTALLED in no slot, the one it did not list; what was paid for is damaged, or given back though it was; what was
handed over is left alone until another return lists it.  What is listed without right never comes back to stock, is
never installed again and never taken over.

*On payouts* (`Payouts`): `PaidForWhatWasEarned`, the action property `ClosedFiguresStay`, liveness
`MonthsAreClosed`.

*On notices* (`Alerts`): `DeliveryIsEvidence` (the count of deliveries is the record plus what nobody could
know of), liveness `BrandIsTold` and `EmptyIsAlerted`.  The brand of `BrandIsTold` has an active administrator:
`queueForBrandAdmins` writes no row for one that has none, and then nobody is told.

*On the screen* (`Kiosk`): `ShownIsChosen`, the action property `PaidCustomerStays`, liveness `KioskIsFreed` (the
screen is given back; the machine may still be held by an order nobody cancelled, until that expires).

### Where code and documents differ

`dispensing_rejected` is a finding in `PROJECT.json`: a command rejected before its token is stored can be
delivered again and spray, though `spec/contracts/mqtt.md:343-344` says a rejected command has not run.  The
following differences are stated as properties too; each is violated under the configuration named, which is
kept for that purpose and is not one of the runs.  A configuration named more than once has one of its
properties in force, and the others as comments to put in its place.

| configuration | property | the code | the text |
|---|---|---|---|
| `MCSalesTexts` | `OverdueOrdersExpire` | an overpaid link makes the gateway say ALREADY_PAID for ever, and the order never expires | FR-ORD-16 AC1 (`spec/modules/ORD.md`) |
| `MCSalesTexts` | `LateSuccessIsTaken` | a failed and a successful report of a transfer have one event id (`payos-gateway.ts:260`), which is claimed before the status is looked at: the success is a DUPLICATE and its money is not booked | `payment-webhook.service.ts:165-166` |
| `MCDispensingExpired` | `ExpiredCommandNeverReceived` | a command closed as never published may have been published | `dsp.service.ts:375-376` |
| `MCDispensingLit` | `NoSecondCommandWhileLit` | the machine is freed for the next customer while the lamp of the last is lit | `spec/contracts/mqtt.md:362` |
| `MCDispensingRefill` | `NoCommandDuringRefill` | the list of orders to arm is read before a refill opens | FR-INV-30 (`spec/modules/INV.md:390`) |
| `MCRentalsTexts` | `PaidRenewalNeverGrace` | the grace job reads the renewal, and its webhook the old rental, before the other writes | FR-EXP AC1b (`spec/modules/EXP.md:195-197`) |
| `MCRentalsTexts` | `FollowsDiagram` | the webhook of a renewal that read the old rental in GRACE commits after its liquidation and makes LIQUIDATED RENEWED; a liquidation asked for before makes CLOSED LIQUIDATED | FR-SLT-06 AC1-AC3 (`spec/modules/SLT.md:108-115`) |
| `MCRentalsTexts` | `NeverTwoBrands` | a liquidation that was asked for before the rental was closed commits beside the DRAFT of another brand, whose period does not overlap | `spec/contracts/schema.sql:1489-1491` |
| `MCRentalsTexts` | `OpenRefillCloses` | a refill may be opened for a rental that is EXPIRING or in GRACE, and then cannot be closed, nor cancelled | `inv.queries.ts:951` |
| `MCStockTexts` | `OfferedHasBottle` | a slot whose rental was activated without a bottle is AVAILABLE | `mch.queries.ts:602-604` |
| `MCStockTexts` | `SoldOutCloses` | a liquidated slot whose last remainder is less than a dose cannot be closed | `spec/modules/SLT.md:253` |
| `MCPayoutsForgotten` | `NoRevenueForgotten` | a spray reported after its month was closed is in no payout, and in the settlement of that month | `rev.queries.ts:5-6` |
| `MCKioskNoAnswer` | `PaidCustomerStays` | `confirmCancel` leaves on an error of the network though a poll has shown PAID | `useKioskOrderFlow.ts:182-184` closes on purpose (FR-ORD-33): the exception to the property that run `kiosk` checks with `CancelMayFail = FALSE` |

Read in the code while modelling it, and not stated as properties: a forfeit after UNKNOWN clears the review flag
that an extra transfer had set (`ord.service.ts:728`); a kiosk that retries `createOrder` uses a new
idempotency key (`orders.ts:28` says one for each purchase), and the `finally` of `cancelOrphanedOrder` may
forget an order stored meanwhile; the dose handler raises `SLOT_EMPTY:<slot>` and the sweep
`slot-empty:<slot>`, so that two alerts of one type are live (FR-ALR-07 AC1); `slt.sendExpiringNotices` and
`alr.sweepExpiringRentals` both run (`scheduler.ts:118` and `:208`) under different references, so that a
brand is told twice (FR-EXP-03 AC1), and the second only on the exact day; a rental that joins its group after
the notice was written is named in none; a brand without an active administrator gets the audit entry of the
notice at each tick.

Whether payOS ever reports one transfer as failed and then as paid is not in this repository; the comment in `settle`
says that some gateways do.  `FailureEvent` lets a failure have an event id of its own or that of a transfer to come.

## 4. Fairness

Liveness assumes that

- time passes: deadlines, the device's press window and run time, the queue timeout (weak fairness of
  `PaymentDeadline`, `CommandExpires`, `PressTimeout \/ FinishPump`, `QueueTimeout`), the kiosk's timers
  (`IdleReset`, `Leave`), and a failed e-mail rests no longer than its interval (`ListDue(w, Failed)`);
- the scheduler goes on ticking, as `scheduler.ts` does for as long as it runs: weak fairness of the
  steps of a tick, strong fairness of what is enabled between ticks only, or while no webhook holds its
  rows (`CancelExpiredCheckout`, `AskLiquidation`, `Liquidate`);
- a transaction is not lost each time it is tried: strong fairness of the two commits in `Checkout`, of
  `ConfirmEndedPeriods`, of `WriteNotice`, `TakeNext` and `RecordDelivery`;
- the gateway sends a webhook until it is accepted, which the endpoint relies on by answering with an
  error when it could not record it (`WebhookPaid`, `WebhookUnusable`);
- a result the device has stored arrives: the firmware repeats its outbox until the broker has it, the
  API's session is persistent (`clean: false`) and it acknowledges a message only after its
  transaction (`adapters/mqtt/mqtt.client.ts`);
- a call of the kiosk gets an answer or an error, its poll goes on, and the server ends what it has begun
  (`Settle \/ Expire`, `Serve`: what `Sales` and `Dispensing` show).

Nothing is assumed of customers, of staff, of the delivery of commands, of the connection or of the
configuration.  In particular a customer need not press, a refill need not be closed, an alert need not be
handled, a brand need not renew or stock, a power loss may come at any time, and the gateway may fail to answer.

In `Sales`, whose dispense service is only a contract, `Sweep` is fair: that DSP does free the machine
is what `MachineIsFreed` says of `Dispensing`.

## 5. What is proved

TLAPS proves the theorems below for all values of the constants that meet the named assumptions
(`DbAssumption`, `NoOrderAssumption`, `DeviceAssumption`, `NoCommandAssumption`,
`PayoutsAssumption`, `AlertsAssumption`, `StockAssumptions`, `RentalAssumptions`: sets are disjoint where ids
are, bounds are naturals, "none" is nobody's id, and there are finitely many bottles).  Every invariant, action
property and refinement of a run that passes is stated by a theorem.

**`StationContract_proofs`.**  `ContractInv` is inductive: types, one open order, `OwedIsOnTheList`,
`ServedHasCommand`, no open order during a refill.  They need each other less than one expects — each
action locks what it must — except that `ServedHasCommand` has to say both that the active command is unique and
that an order without one has a lost one and is on the list: a report that resolves a lost command
closes an order that is still in service.  `ContractOpenOrdersInTurn`, `ContractOwedIsOnTheList`,
`ContractServedHasCommand` and `ContractStoppedOnlyShrinks` follow, and `ContractImplementsLifecycle`:
every step of the contract is a step of `OrderLifecycle` or leaves the order alone.

**`Sales_proofs`.**  `SalesInv` adds to the properties of section 3 what makes them inductive:
`PlacedTogether` (an order has a payment as soon as it has a status), `SettledOnce` (a payment that
can still be settled has no transfer recorded) and `PaidByClaimed` (the event of a recorded
transfer is claimed).  The last is why a second order cannot be paid with the same transfer.
It holds `RefundsFollow`, which is weaker than `RefundsAgree` and still true once staff refund orders;
`RefundsAgree` follows because no step of `Sales` does (`NeverRefunded`).  `GoesOn` bounds what a step may do to an
order, its money and a transfer.  The refund claims build on both.
`MoneyInv` adds `MoneyAccounted`, whatever the event ids of failures: a transfer whose id a failure has taken is never
claimed, and the rest of the argument does not see it.
`SalesImplementsContract` is the refinement: each action of `Checkout` is a step of
`CheckoutContract`, a step of the machine's mode, or a stutter.  `SalesKeepsPromises` puts the
contract's theorems on top of it.

A claim is drawn up from what was read before, and paid days later.  `RefundsInv` says
that this does no harm: the transfers of a claim are money its own order took (`ClaimsPayOwn`), the one recorded
on the order is among them only in a claim that refunds the order, and what was paid back was paid by a claim
(`PaidByClaim`, `RefundedByClaim`).  It is stable because a recorded transfer is never replaced and a claimed
event is never unclaimed (`GoesOn`).  `RefundsClaimsPayOnce` and `RefundsOwedOrClaimed` follow, and
`RefundsImplementsTrail`: whatever Sales and claims do, the fate of each transfer turns as `MoneyTrail` allows.

**`Station_proofs`.**  First dispensing alone.  `DispensingInv` has three parts: `SprayOnce` (a token that has been
sprayed for is in the durable history and is not the one of a lit lamp), `ReportsTrue` (OK and FAULT are
reported only of a token that was sprayed for, a press timeout only of a remembered token that never
was) and `BelievedWasReported` (what the database says of a command was reported).  The three
together carry a fact from the pump through the broker to the row.  `DispensingOneSpray`,
`DispensingResultsAreTrue` and `DispensingCommandNeverGoesBack` follow; `DispensingImplementsContract` and
`DispensingKeepsPromises` are as for `Sales`.  `DispensingRejectedNeverSprays` needs more
(`RefusedIsUnsprayed`): of a command not delivered yet the device knows and reports nothing, a refused one it has
not sprayed for and does not hold, and REJECTED is only what was refused.  With a second delivery the first of
these no longer protects the second, and the property fails.

Then the machine.  `StationInv` is `SalesInv` and `DispensingInv`: each part keeps its own under the steps of the
other, because those, in detail, do on the rows only what the contract allows (`CheckoutRefines`, `DspRefines`).  From
it follows `StationImplementsParts`: a behaviour of the machine is one of `Sales` and one of `Dispensing`, so all
that is proved of them holds of it.  `StationSoldAsPaid` then joins one fact of each: the pump runs only for what
was made a command (`KnownWasMade`, of the device), a command is made only for an order that was paid
(`CommandFollowsOrder`, of the contract), and such an order has its own transfer (`ServedMeansPaid`, of the payments).

**`Payouts_proofs`.**  The hard part is the job: what it has written it read before it can know of what
commits meanwhile.  `JobIsRight` says that its uncommitted figures hold only orders that are earned, in the
month they were paid in, and leave closed months alone; it stays true because nothing leads out of
DISPENSED and FORFEITED (`EarnedIsFinal`) and because a closed month is not counted again.
`PayoutsPaidForWhatWasEarned`, `PayoutsDisputeHoldsPayment` and `PayoutsClosedFiguresStay` follow.

**`Kiosk_proofs`.**  `KioskInv` adds to `KioskTypeOK` what the calls left behind cannot do: `MutationOfScreen`
(the call that is still listened to, and the order on screen, are for the product on screen) gives
`KioskShownIsChosen`, and `PaidOrCancelled` (an order the page has seen paid is past every status a cancellation
accepts, and an order a cancellation did close was never seen paid) gives `KioskPaidCustomerStays`,
under the hypothesis `~CancelMayFail`.

**`Alerts_proofs`.**  `AlertsInv` adds to `DeliveryIsEvidence` that the lock of a row has one holder
(`OneSender`), that a locked row is not recorded as sent (`SendingIsOpen`) and that a notice yet to be written
has no row (`DraftsAreUnwritten`).  With two holders, or a row that is sent again after `TakeNext`, the equation
between deliveries and records would break; `AlertsDeliveryIsEvidence` is for any number of processes.

**`Rentals_proofs`.**  `RentalsInv` says why jobs, webhooks and staff that decide from what they read earlier do no
harm.  Where the code locks or has an index, an invariant states what that keeps: `IndexesHold` (the unique index, and
of the exclusion constraint what is certain), `LockedIsHeld` (a payment being settled keeps its checkout as it was),
`EndingIsDue` (a rental the job has locked stays due).  Where it does not, `ReadRemainsTrue` says how little of what
was read is still needed when it is used: a renewal needs a rental that has begun to end, a liquidation one whose
grace has begun, for its period is over then.
`RenewsLapsing` (who is renewed has begun, and is of the same brand), `StockIsOwned` and `SwappedLeavesEmpty` (the
bottle of a brand in a slot has a rental of that brand, wherever a swap has moved it), `HoldsAreDrafts`,
`HoldsArePaidFor` and `RenewalIsKept` support each other: a renewal may only take over because its
predecessor is of the same brand, and the slot of the next tenant is only empty because what lay there was the
brand's.  `RentalsSlotHasOneOwner`, `RentalsHoldsArePaidFor`, `RentalsRenewalIsKept` and `RentalsEndsAsAgreed` follow,
and `RentalsImplementsTenancy`: in each slot, tenants follow each other as `Tenancy` allows.  None has a hypothesis.
Three stronger statements are false, and are in section 3: that an ended rental stays as it ended (`FollowsDiagram`),
that two brands never block a slot (`NeverTwoBrands`), that a paid renewal is never in grace (`PaidRenewalNeverGrace`).

**`Stock_proofs`.**  `StockInv` adds to `SlotHoldsGoods` who owns a bottle in a slot: one that was taken over is the
platform's and in a rental that was liquidated (`PlatformsAreSold`), what a return lists never comes back to stock and
its rental is over (`ListedIsOut`, `ReturnedIsListed`), and what was compensated is lost (`CompensatedIsLost`).
`InstalledIsInSlot` counts: the bottles left behind are no more than the returns, since only a return empties a slot
without a word to its bottle, and each does so once (`BehindIsFinite` and the lemmas after it).
`StockSlotHoldsGoods`, `StockCompensatedIsLost` and `StockGoodsChangeHandsOnce` follow, whatever a return lists; each
step is shown to keep the invariant and the hands goods are in (`HandsKept`) together.
`StockRequestFollowsSession` needs only that a request is linked to a session after it was accepted (`RequestInv`).
`StockCoverageWithinCap`
bounds a sum over the bottles of a rental.  That a sum grows by what one member grows is an induction on the
set; the proof takes a counterexample with fewest bottles instead (`SmallestSet`, from the well-foundedness of
the naturals), and removes one (`TotalStep`, `TotalWithout`).  `StockCompensationIsDue` puts both halves together.

**Only model-checked:** the liveness properties, since liveness under fairness is outside the prover.  Each theorem
that needs a hypothesis has it in its statement: at most one delivery of a command
(`DispensingRejectedNeverSprays`), and `~CancelMayFail` (`KioskPaidCustomerStays`).  The runs of these properties
take the same values.  No module uses recursive operators.

## 6. What is not modelled

- **Maintenance tickets (MNT).**  `assign`, `resolve` and `submitPostTest` each read a ticket and update it in
  separate statements without a lock; the gate on NORMAL (`machine-mode.service.ts:60`) reads the test outside the
  transaction of the mode; a PASS stays when the ticket is resolved again, and `CLOSED` and `WAITING_PART` are
  never set.  So nothing these handlers promise together holds for a model to show.  `SetMode("NORMAL")` is
  always allowed in `MachineMode`.
- **Accounts, sessions and access (AUTH, USR).**  Checks of one request against one row.  Staff and brand
  calls are free in every model.
- **Products, brands, audit, reports, admin web.**  Editing of single rows, appending, reading: no protocol.
- **In modelled components:** the idempotent replay of `createOrder`; manual contracts, prices and the
  arithmetic of periods in SLT (a period is a deadline that passes); shipments and corrections of a count in INV;
  the lines of a refill request; configuration versions, slot configuration, telemetry and events in IOT; door,
  offline, streak, dose and SLA alerts; the catalogue of the kiosk.  An empty bottle and a failure streak are free
  choices for `MachineMode`, and a slot's bottle is so for `Rentals`; `Stock` is where they follow from doses.
- **Jobs that are never scheduled** (`exp.jobs.ts`): no step of the program takes them.
- **Locks** below transactions: a webhook locks payment then order, a cancellation order then
  payment; the database aborts one of two that meet, which the models allow as a lost commit or a
  webhook to come again.
- **The valve driver** (its cutoff timer, sensor checks) and the test mode of the firmware.
- Layout, signatures, password hashing, access scopes: no protocol, or checks of one value.

## 7. Plan

Done: the contract and its lifecycle, the shop front, dispensing with the device, refund claims, rentals,
stock, payouts, alerts, the kiosk; their liveness, five refinements, the whole machine, and the safety proofs of
section 5.  Next:

1. `Station` with refund claims: a transfer that was paid back did not buy a spray that the books count as sold.
2. `ConfigSync` (`modules/iot`): versions, retained publication, the device's report of what it
   applied; refinement of the abstract "the device eventually has the newest version".
3. Shipments and corrections in `Stock`; the failure streak of DSP, which would replace the free choice in
   `SlotMayStop`.
4. `ValveDriver`: the pump and its cutoff timer, implementing `Press`, `FinishPump` and `PressRefused`.
