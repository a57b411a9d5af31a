------------------------------- MODULE Kiosk -------------------------------
(***************************************************************************)
(* The kiosk's checkout: useKioskOrderFlow, the screens around it and the  *)
(* calls it makes.  Answers arrive late, out of order or not at all; the   *)
(* customer, the timers and a page reload do not wait for them.            *)
(*                                                                         *)
(* The server is what the kiosk can see of it: orders that move along      *)
(* OrderStatus, one open order per machine.  A React effect that follows   *)
(* from a change of state is part of the action that makes the change.     *)
(***************************************************************************)
EXTENDS OrderStatus, FiniteSets, Naturals

CONSTANTS
  Purchases,      \* bound: the orders this machine can make
  Scents,         \* slots on sale
  Stages,         \* bound: what becomes of a paid order
  CallsAtOnce,    \* bound: cancel calls and answers under way
  None,
  CancelMayFail   \* whether a cancellation the customer asks for may get no answer

VARIABLES
  screen,    \* route: "home", "catalog", "product" or "checkout"
  item,      \* the product on screen
  create,    \* the create mutation: "idle", "sent", "made", "error", "ok"
  made,      \* the order an answer on its way to the kiosk is about
  shown,     \* createOrder.data: the order on screen
  view,      \* the status the last poll read, or "NONE"
  clockOut,  \* the countdown of the order on screen is over
  asking,    \* confirmingCancel
  cancel,    \* the cancel mutation: "idle", "customer" or "timeout" asked last
  stored,    \* localStorage: the order to cancel after a reload
  left,      \* products whose create call the kiosk no longer waits for
  cancels,   \* cancel calls and answers under way
  order,     \* orders.status
  scent,     \* the slot of each order
  scanned,   \* orders whose code a customer has scanned
  money      \* orders paid for at the gateway

screenVars == <<screen, item, create, made, shown, view, clockOut, asking, cancel, stored>>
callVars == <<left, cancels>>
serverVars == <<order, scent, scanned, money>>
kioskVars == <<screenVars, callVars, serverVars>>

Answers == {"none", "ok", "refused"}
Cancels == [order : Purchases, by : {"customer", "timeout", "orphan"}, answer : Answers]

KioskTypeOK ==
  /\ screen \in {"home", "catalog", "product", "checkout"}
  /\ item \in Scents \cup {None}
  /\ create \in {"idle", "sent", "made", "error", "ok"}
  /\ {made, shown, stored} \subseteq Purchases \cup {None}
  /\ view \in OrderStatuses \cup {"NONE"}
  /\ clockOut \in BOOLEAN /\ asking \in BOOLEAN
  /\ cancel \in {"idle", "customer", "timeout"}
  /\ left \subseteq Scents /\ cancels \subseteq Cancels
  /\ order \in [Purchases -> OrderStatuses \cup {"NONE"}]
  /\ scent \in [Purchases -> Scents \cup {None}]
  /\ scanned \subseteq Purchases /\ money \subseteq scanned

KioskInit ==
  /\ screen = "home" /\ item = None
  /\ create = "idle" /\ made = None /\ shown = None /\ view = "NONE"
  /\ clockOut = FALSE /\ asking = FALSE /\ cancel = "idle"
  /\ stored = None /\ left = {} /\ cancels = {}
  /\ order = [o \in Purchases |-> "NONE"]
  /\ scent = [o \in Purchases |-> None]
  /\ scanned = {} /\ money = {}

-----------------------------------------------------------------------------
(* phaseOf, as far as the flow depends on it.                              *)
Paying == shown # None /\ view \in {"NONE", "CREATED", "PENDING_PAYMENT"}
QrExpired == shown # None /\ (view = "EXPIRED" \/ (Paying /\ clockOut))
QrVisible == Paying /\ ~clockOut
SETTLED_STATUSES ==
  {"DISPENSED", "FORFEITED", "EXPIRED", "FAILED", "REFUND_PENDING", "REFUNDED"}
Settled == shown # None /\ view \in SETTLED_STATUSES
PostPayment == shown # None /\ ~Paying /\ view # "EXPIRED"

-----------------------------------------------------------------------------
(* Leaving the flow                                                        *)

Abandoned == IF create = "sent" THEN left \cup {item} ELSE left

Discard_KeepsCall ==                                             \* mutant
  /\ create' = IF create \in {"sent", "made"} THEN create ELSE "idle"
  /\ made' = made /\ shown' = None /\ view' = "NONE"
  /\ clockOut' = FALSE /\ asking' = FALSE /\ cancel' = "idle"
  /\ left' = left

(* discard: a call that is still under way goes on without the kiosk.      *)
Discard ==
  /\ create' = "idle" /\ made' = None /\ shown' = None /\ view' = "NONE"
  /\ clockOut' = FALSE /\ asking' = FALSE /\ cancel' = "idle"
  /\ left' = Abandoned

CanCall == Cardinality(cancels) < CallsAtOnce

(* exit.  The effect that forgets the order runs unless the screen is      *)
(* taken down first.                                                       *)
Exit(to) ==
  /\ Discard
  /\ screen' = to /\ item' = None
  /\ \/ stored' = None
     \/ to = "home" /\ UNCHANGED stored
  /\ UNCHANGED <<cancels, serverVars>>

(* The effects of a mount: what is stored is cancelled, and forgotten.     *)
Mount ==
  /\ stored' = None
  /\ IF stored = None THEN UNCHANGED cancels
     ELSE /\ CanCall
          /\ cancels' = cancels \cup {[order |-> stored, by |-> "orphan", answer |-> "none"]}

-----------------------------------------------------------------------------
(* The customer                                                            *)

Touch ==
  /\ screen = "home"
  /\ screen' = "catalog"
  /\ Mount
  /\ UNCHANGED <<item, create, made, shown, view, clockOut, asking, cancel, left, serverVars>>

BackToHome ==
  /\ screen = "catalog"
  /\ screen' = "home"
  /\ UNCHANGED <<item, create, made, shown, view, clockOut, asking, cancel, stored,
                 callVars, serverVars>>

Select(s) ==
  /\ screen = "catalog"
  /\ Discard
  /\ screen' = "product" /\ item' = s /\ stored' = None
  /\ UNCHANGED <<cancels, serverVars>>

Back == screen = "product" /\ Exit("catalog")

(* startPayment and the effect that creates the order, under a new key.    *)
Pay ==
  /\ screen = "product"
  /\ screen' = "checkout" /\ create' = "sent"
  /\ UNCHANGED <<item, made, shown, view, clockOut, asking, cancel, stored, callVars, serverVars>>

(* retryCreate, by the customer, or by its timer when the machine is busy. *)
Retry ==
  /\ create = "error"
  /\ create' = "sent"
  /\ UNCHANGED <<screen, item, made, shown, view, clockOut, asking, cancel, stored,
                 callVars, serverVars>>

RequestCancel ==
  /\ screen = "checkout" /\ ~PostPayment /\ ~asking
  /\ IF shown # None /\ ~QrExpired
     THEN /\ asking' = TRUE
          /\ UNCHANGED <<screen, item, create, made, shown, view, clockOut, cancel, stored,
                         callVars, serverVars>>
     ELSE Exit(IF QrExpired THEN "home" ELSE "catalog")

DismissCancel ==
  /\ asking
  /\ asking' = FALSE
  /\ UNCHANGED <<screen, item, create, made, shown, view, clockOut, cancel, stored,
                 callVars, serverVars>>

ConfirmCancel ==
  /\ CanCall
  /\ asking /\ ~PostPayment /\ cancel = "idle"
  /\ cancel' = "customer"
  /\ cancels' = cancels \cup {[order |-> shown, by |-> "customer", answer |-> "none"]}
  /\ UNCHANGED <<screen, item, create, made, shown, view, clockOut, asking, stored,
                 left, serverVars>>

(* The button of the last screen, or KIOSK_IDLE_TIMEOUT_SEC later.         *)
Leave_NotExpired == PostPayment /\ Settled /\ Exit("home")       \* mutant
Leave == Settled /\ Exit("home")

(* A code that has been scanned can be paid after the screen has gone, and *)
(* after the order expired if the gateway could not be told.               *)
Scan ==
  /\ QrVisible
  /\ scanned' = scanned \cup {shown}
  /\ UNCHANGED <<screenVars, callVars, order, scent, money>>

Transfer(o) ==
  /\ o \in scanned \ money
  /\ order[o] \in {"PENDING_PAYMENT", "EXPIRED"}
  /\ money' = money \cup {o}
  /\ UNCHANGED <<screenVars, callVars, order, scent, scanned>>

-----------------------------------------------------------------------------
(* Timers, polls and reloads                                               *)

(* KioskShell.resetSession: keepAwake only holds when there is an order.   *)
IdleReset ==
  /\ screen # "home" /\ shown = None
  /\ screen' = "home" /\ item' = None
  /\ create' = "idle" /\ made' = None
  /\ left' = Abandoned
  /\ UNCHANGED <<shown, view, clockOut, asking, cancel, stored, cancels, serverVars>>

(* The countdown ends; the kiosk cancels an order that is not paid, once.  *)
CodeExpires ==
  /\ shown # None /\ ~clockOut
  /\ clockOut' = TRUE
  /\ CanCall
  /\ IF Paying
     THEN /\ cancel' = "timeout"
          /\ cancels' = cancels \cup {[order |-> shown, by |-> "timeout", answer |-> "none"]}
     ELSE UNCHANGED <<cancel, cancels>>
  /\ UNCHANGED <<screen, item, create, made, shown, view, asking, stored, left,
                 serverVars>>

(* useOrderStatus, and the effect that keeps the stored order up to date.  *)
Poll ==
  /\ shown # None
  /\ view \notin SETTLED_STATUSES \ {"EXPIRED"}
  /\ view' = order[shown]
  /\ stored' = IF order[shown] = "PENDING_PAYMENT" THEN stored ELSE None
  /\ UNCHANGED <<screen, item, create, made, shown, clockOut, asking, cancel,
                 callVars, serverVars>>

(* The route is kept; everything in the page's memory is gone.             *)
Reload ==
  /\ screen # "home"
  /\ Discard
  /\ screen' = (IF item = None THEN "catalog" ELSE "product")
  /\ Mount
  /\ UNCHANGED <<item, serverVars>>

-----------------------------------------------------------------------------
(* The server                                                              *)

OpenOrder == \E o \in Purchases : order[o] = "PENDING_PAYMENT"

(* createOrder: MACHINE_BUSY while another order is open (an overdue one   *)
(* is expired instead), or while somebody is being served.                 *)
MakesOrder(o, s) ==
  /\ ~OpenOrder
  /\ order[o] = "NONE"
  /\ order' = [order EXCEPT ![o] = "PENDING_PAYMENT"]
  /\ scent' = [scent EXCEPT ![o] = s]
  /\ UNCHANGED <<scanned, money>>

HandleCreate(o) ==
  /\ create = "sent"
  /\ MakesOrder(o, item)
  /\ create' = "made" /\ made' = o
  /\ UNCHANGED <<screen, item, shown, view, clockOut, asking, cancel, stored, callVars>>

(* Refused (MACHINE_BUSY), or lost on the way there or back.                            *)
CreateFails ==
  /\ create \in {"sent", "made"}
  /\ create' = "error" /\ made' = None
  /\ UNCHANGED <<screen, item, shown, view, clockOut, asking, cancel, stored, callVars, serverVars>>

CreateAnswered ==
  /\ create = "made"
  /\ create' = "ok" /\ shown' = made /\ stored' = made /\ made' = None
  /\ UNCHANGED <<screen, item, view, clockOut, asking, cancel, callVars, serverVars>>

(* A call nobody waits for is handled, refused or lost.                    *)
HandleLeft(s) ==
  /\ s \in left
  /\ left' = left \ {s}
  /\ \/ \E o \in Purchases : MakesOrder(o, s)
     \/ UNCHANGED serverVars
  /\ UNCHANGED <<screenVars, cancels>>

(* cancelKioskOrder closes an order the gateway has no money for; an order *)
(* that is already EXPIRED gives the same answer, any other a refusal.     *)
Cancellable(o) == order[o] = "EXPIRED" \/ (order[o] = "PENDING_PAYMENT" /\ o \notin money)

HandleCancel(c) ==
  /\ c.answer = "none"
  /\ IF Cancellable(c.order)
     THEN /\ order' = [order EXCEPT ![c.order] = "EXPIRED"]
          /\ cancels' = (cancels \ {c}) \cup {[c EXCEPT !.answer = "ok"]}
     ELSE /\ cancels' = (cancels \ {c}) \cup {[c EXCEPT !.answer = "refused"]}
          /\ UNCHANGED order
  /\ UNCHANGED <<screenVars, left, scent, scanned, money>>

AnswerRefused_Leaves ==                                          \* mutant
  /\ Discard
  /\ screen' = "catalog" /\ item' = None /\ stored' = None
AnswerRefused ==
  /\ asking' = FALSE /\ cancel' = "idle"
  /\ UNCHANGED <<screen, item, create, made, shown, view, clockOut, stored, left>>

(* Only the last call of the mutation still has its callbacks.             *)
Heeded(c) == c.order = shown /\ c.by = cancel

(* The answer, or "none" when the call ends in an error of the network.    *)
CancelEnds(c, answer) ==
  /\ cancels' = cancels \ {c}
  /\ UNCHANGED serverVars
  /\ \/ /\ c.by = "orphan"
        /\ stored' = None
        /\ UNCHANGED <<screen, item, create, made, shown, view, clockOut, asking, cancel, left>>
     \/ /\ c.by # "orphan" /\ ~Heeded(c)
        /\ UNCHANGED <<screenVars, left>>
     \/ /\ c.by = "timeout" /\ Heeded(c)
        /\ cancel' = "idle"
        /\ UNCHANGED <<screen, item, create, made, shown, view, clockOut, asking, stored,
                       left>>
     \/ /\ c.by = "customer" /\ Heeded(c) /\ answer = "refused"
        /\ AnswerRefused
     \/ /\ c.by = "customer" /\ Heeded(c) /\ answer # "refused"
        /\ Discard
        /\ screen' = "catalog" /\ item' = None /\ stored' = None

CancelAnswered(c) == c.answer # "none" /\ CancelEnds(c, c.answer)

CancelLost(c) == (c.by = "customer" => CancelMayFail) /\ CancelEnds(c, "none")

(* The webhook, the expiry job and the machine, as OrderStatus has it.     *)
Settle(o) ==
  /\ o \in money
  /\ \/ order[o] = "PENDING_PAYMENT" /\ order' = [order EXCEPT ![o] = "PAID"]
     \/ order[o] = "EXPIRED" /\ order' = [order EXCEPT ![o] = "REFUND_PENDING"]
  /\ UNCHANGED <<screenVars, callVars, scent, scanned, money>>

Expire(o) ==
  /\ order[o] = "PENDING_PAYMENT" /\ o \notin money
  /\ order' = [order EXCEPT ![o] = "EXPIRED"]
  /\ UNCHANGED <<screenVars, callVars, scent, scanned, money>>

Serve(o) ==
  /\ order[o] \in {"PAID", "DISPENSE_REQUESTED"}
  /\ \E to \in OrderStatuses :
       /\ CanTransition(order[o], to) /\ to \in Stages
       /\ order' = [order EXCEPT ![o] = to]
  /\ UNCHANGED <<screenVars, callVars, scent, scanned, money>>

-----------------------------------------------------------------------------
KioskNext ==
  \/ Touch \/ BackToHome \/ (\E s \in Scents : Select(s)) \/ Back \/ Pay \/ Retry
  \/ RequestCancel \/ DismissCancel \/ ConfirmCancel \/ Leave \/ Scan
  \/ IdleReset \/ CodeExpires \/ Poll \/ Reload
  \/ CreateFails \/ CreateAnswered
  \/ \E s \in Scents : HandleLeft(s)
  \/ \E c \in cancels : HandleCancel(c) \/ CancelAnswered(c) \/ CancelLost(c)
  \/ \E o \in Purchases : HandleCreate(o) \/ Transfer(o) \/ Settle(o) \/ Expire(o) \/ Serve(o)

KioskSpec == KioskInit /\ [][KioskNext]_kioskVars

(* The timers and the poll of the page run as long as the page does; a     *)
(* call gets an answer or an error; the server ends what it has begun.     *)
KioskFairness ==
  /\ WF_kioskVars(IdleReset) /\ WF_kioskVars(Leave)
  /\ WF_kioskVars(Poll) /\ WF_kioskVars(CreateAnswered \/ CreateFails)
  /\ \A o \in Purchases : WF_kioskVars(Settle(o) \/ Expire(o)) /\ WF_kioskVars(Serve(o))

FairKioskSpec == KioskSpec /\ KioskFairness

-----------------------------------------------------------------------------
(* The code on screen is for the product on screen, although a create call *)
(* of a customer who has left may be answered at any time.                 *)
ShownIsChosen == shown # None => screen = "checkout" /\ scent[shown] = item

(* Once the kiosk has shown that the money arrived, only the end of the    *)
(* order, or a reload, takes the screen from the customer: not a timer,    *)
(* not the refusal of a cancellation.  Not so if CancelMayFail:            *)
(* confirmCancel leaves on any error other than a refusal.                 *)
PaidCustomerStays ==
  [][PostPayment /\ ~Settled => shown' = shown \/ Reload]_kioskVars

(* The kiosk gets back to its other customers from every checkout.         *)
KioskIsFreed == screen = "checkout" ~> screen # "checkout"
=============================================================================
