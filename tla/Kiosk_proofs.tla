--------------------------- MODULE Kiosk_proofs ---------------------------
(***************************************************************************)
(* The kiosk's checkout, for any number of orders, products and calls that *)
(* are under way: what is on screen belongs to the customer before it.     *)
(***************************************************************************)
EXTENDS Kiosk, TLAPS

USE DEF screenVars, callVars, serverVars

-----------------------------------------------------------------------------
(* The inductive invariant.                                                *)

(* The mutation belongs to the checkout screen, and its order is for the   *)
(* product on screen: a call that was left behind cannot touch either.     *)
MutationOfScreen ==
  /\ screen \in {"product", "checkout"} => item \in Scents
  /\ create # "idle" => screen = "checkout"
  /\ made # None => create = "made" /\ order[made] # "NONE" /\ scent[made] = item
  /\ shown # None => create = "ok" /\ order[shown] # "NONE" /\ scent[shown] = item
  /\ shown = None => view = "NONE" /\ ~asking

UNPAID == {"NONE", "CREATED", "PENDING_PAYMENT", "EXPIRED"}
SERVING == {"PAID", "DISPENSE_REQUESTED"}

(* An order that was seen paid is not one a cancellation can still close,  *)
(* and one that a cancellation closed is never seen paid.                  *)
PaidOrCancelled ==
  /\ shown # None /\ view \in SERVING => order[shown] \notin UNPAID
  /\ \A c \in cancels : c.answer = "ok" =>
       /\ order[c.order] \in {"EXPIRED", "REFUND_PENDING"}
       /\ shown # None /\ c.order = shown => view \notin SERVING

KioskInv == KioskTypeOK /\ MutationOfScreen /\ PaidOrCancelled

(* The kiosk starts with its home page and no order.                       *)
LEMMA InitKioskInv == KioskInit => KioskInv
  BY DEF KioskInit, KioskInv, KioskTypeOK, MutationOfScreen, PaidOrCancelled

-----------------------------------------------------------------------------
(* One step.                                                               *)

(* Nothing the customer or the page does with an empty screen, or to       *)
(* empty it, breaks the invariant: calls that are left ask for nothing.    *)
LEMMA LeavingKeepsKioskInv ==
  ASSUME KioskInv, UNCHANGED serverVars, cancels' \subseteq cancels \/ Mount,
         create' = "idle", made' = None, shown' = None, view' = "NONE", asking' = FALSE,
         clockOut' \in BOOLEAN, cancel' \in {"idle", "customer", "timeout"},
         left' \subseteq Scents, item' \in Scents \cup {None}, stored' \in {stored, None},
         screen' \in {"home", "catalog", "product", "checkout"},
         screen' \in {"product", "checkout"} => item' \in Scents
  PROVE  KioskInv'
  <1>1. cancels' \subseteq Cancels /\ \A c \in cancels' : c.answer = "ok" => c \in cancels
    BY DEF Mount, Cancels, Answers, KioskInv, KioskTypeOK
  <1>2. KioskTypeOK'
    BY <1>1 DEF KioskInv, KioskTypeOK
  <1>3. PaidOrCancelled'
    BY <1>1 DEF KioskInv, PaidOrCancelled
  <1> QED
    BY <1>2, <1>3 DEF KioskInv, MutationOfScreen

(* A new call to cancel is for an order of this machine.                   *)
LEMMA AskedCancel ==
  ASSUME KioskInv, NEW o \in Purchases, NEW by \in {"customer", "timeout", "orphan"},
         cancels' = cancels \cup {[order |-> o, by |-> by, answer |-> "none"]}
  PROVE  /\ cancels' \subseteq Cancels
         /\ \A c \in cancels' : c.answer = "ok" => c \in cancels
  BY DEF Cancels, Answers, KioskInv, KioskTypeOK

(* Where the page lets the order alone, and asks for no call to be made.   *)
LEMMA LookingKeepsKioskInv ==
  ASSUME KioskInv,
         UNCHANGED <<item, made, shown, callVars, order, scent, money>>,
         screen' \in {"home", "catalog", "product", "checkout"}, screen' # screen =>
           create = "idle" /\ (screen' \in {"product", "checkout"} => item \in Scents),
         \/ create' = create
         \/ create' = "sent" /\ screen' = "checkout" /\ made = None /\ shown = None,
         shown = None => view' = view /\ asking' = asking,
         view' \in OrderStatuses \cup {"NONE"},
         shown # None /\ view' # view => view' = order[shown],
         clockOut' \in BOOLEAN, asking' \in BOOLEAN, UNCHANGED cancel,
         stored' \in {stored, None},
         scanned' \in {scanned, scanned \cup {shown}}, shown = None => scanned' = scanned
  PROVE  KioskInv'
  <1> USE DEF KioskInv
  <1>1. KioskTypeOK'
    <2>1. scanned' \subseteq Purchases /\ money' \subseteq scanned'
      BY DEF KioskTypeOK
    <2> QED
      BY <2>1 DEF KioskTypeOK
  <1>2. MutationOfScreen'
    BY DEF MutationOfScreen
  <1>3. PaidOrCancelled'
    BY DEF PaidOrCancelled, UNPAID, SERVING
  <1> QED
    BY <1>1, <1>2, <1>3

(* A new call to cancel, for the order on screen.                          *)
LEMMA CallingKeepsKioskInv ==
  ASSUME KioskInv, shown # None, NEW by \in {"customer", "timeout"},
         cancels' = cancels \cup {[order |-> shown, by |-> by, answer |-> "none"]},
         cancel' = by, clockOut' \in BOOLEAN,
         UNCHANGED <<screen, item, create, made, shown, view, asking, stored, left, serverVars>>
  PROVE  KioskInv'
  <1> USE DEF KioskInv
  <1>1. /\ cancels' \subseteq Cancels
        /\ \A c \in cancels' : c.answer = "ok" => c \in cancels
    BY DEF Cancels, Answers, KioskTypeOK
  <1>2. KioskTypeOK'
    BY <1>1 DEF KioskTypeOK
  <1>3. PaidOrCancelled'
    BY <1>1 DEF PaidOrCancelled
  <1> QED
    BY <1>2, <1>3 DEF MutationOfScreen

(* The customer, the timers, the poll and the reload.                      *)
LEMMA PageKeepsKioskInv ==
  ASSUME KioskInv,
         \/ Touch \/ BackToHome \/ (\E s \in Scents : Select(s)) \/ Back \/ Pay \/ Retry
         \/ RequestCancel \/ DismissCancel \/ ConfirmCancel \/ Leave \/ Scan
         \/ IdleReset \/ CodeExpires \/ Poll \/ Reload
  PROVE  KioskInv'
  <1> USE DEF KioskInv
  <1>1. create = "sent" => item \in Scents
    BY DEF MutationOfScreen
  <1>2. ASSUME NEW to \in {"home", "catalog"}, Exit(to) PROVE KioskInv'
    BY <1>1, <1>2, LeavingKeepsKioskInv DEF Exit, Discard, Abandoned, KioskTypeOK
  <1>3. CASE Touch
    <2>1. create = "idle" /\ shown = None /\ made = None
      BY <1>3 DEF Touch, MutationOfScreen
    <2> QED
      BY <1>3, <2>1, LeavingKeepsKioskInv DEF Touch, Mount, KioskTypeOK, MutationOfScreen
  <1>4. ASSUME NEW s \in Scents, Select(s) PROVE KioskInv'
    BY <1>1, <1>4, LeavingKeepsKioskInv DEF Select, Discard, Abandoned, KioskTypeOK
  <1>5. CASE Back \/ Leave
    BY <1>2, <1>5 DEF Back, Leave
  <1>6. CASE BackToHome
    BY <1>6, LookingKeepsKioskInv DEF BackToHome, KioskTypeOK, MutationOfScreen
  <1>7. CASE Pay
    BY <1>7, LookingKeepsKioskInv DEF Pay, KioskTypeOK, MutationOfScreen
  <1>8. CASE Retry
    BY <1>8, LookingKeepsKioskInv DEF Retry, KioskTypeOK, MutationOfScreen
  <1>9. CASE RequestCancel
    <2>1. CASE shown # None /\ ~QrExpired
      BY <1>9, <2>1, LookingKeepsKioskInv DEF RequestCancel, KioskTypeOK
    <2> QED
      BY <1>2, <1>9, <2>1 DEF RequestCancel
  <1>10. CASE DismissCancel
    BY <1>10, LookingKeepsKioskInv DEF DismissCancel, KioskTypeOK, MutationOfScreen
  <1>11. CASE ConfirmCancel
    BY <1>11, CallingKeepsKioskInv DEF ConfirmCancel, KioskTypeOK, MutationOfScreen
  <1>12. CASE Scan
    BY <1>12, LookingKeepsKioskInv DEF Scan, QrVisible, Paying, KioskTypeOK
  <1>13. CASE IdleReset
    BY <1>1, <1>13, LeavingKeepsKioskInv
    DEF IdleReset, Abandoned, KioskTypeOK, MutationOfScreen
  <1>14. CASE CodeExpires
    <2>1. CASE Paying
      BY <1>14, <2>1, CallingKeepsKioskInv DEF CodeExpires
    <2> QED
      BY <1>14, <2>1, LookingKeepsKioskInv DEF CodeExpires, KioskTypeOK
  <1>15. CASE Poll
    <2>1. order[shown] \in OrderStatuses \cup {"NONE"}
      BY <1>15 DEF Poll, KioskTypeOK
    <2> QED
      BY <1>15, <2>1, LookingKeepsKioskInv DEF Poll, KioskTypeOK
  <1>16. CASE Reload
    BY <1>1, <1>16, LeavingKeepsKioskInv
    DEF Reload, Discard, Abandoned, Mount, KioskTypeOK
  <1> QED
    BY <1>3, <1>4, <1>5, <1>6, <1>7, <1>8, <1>9, <1>10, <1>11, <1>12, <1>13, <1>14,
       <1>15, <1>16

(* The server makes an order that is on no screen yet.                     *)
LEMMA NewOrderKeepsKioskInv ==
  ASSUME KioskInv, NEW o \in Purchases, NEW s \in Scents, MakesOrder(o, s),
         UNCHANGED <<screen, item, shown, view, clockOut, asking, cancel, stored, cancels>>,
         left' \subseteq left,
         \/ create' = create /\ made' = made
         \/ create = "sent" /\ create' = "made" /\ made' = o /\ s = item
  PROVE  KioskInv'
  <1> USE DEF KioskInv
  <1>1. KioskTypeOK'
    BY DEF KioskTypeOK, MakesOrder, OrderStatuses
  <1>2. \A p \in Purchases : order[p] # "NONE" => order'[p] = order[p] /\ scent'[p] = scent[p]
    BY DEF MakesOrder, KioskTypeOK
  <1>3. \A c \in cancels : c.order \in Purchases
    BY DEF KioskTypeOK, Cancels
  <1>4. MutationOfScreen'
    BY <1>2 DEF MutationOfScreen, MakesOrder, KioskTypeOK
  <1>5. PaidOrCancelled'
    BY <1>2, <1>3 DEF PaidOrCancelled, UNPAID, KioskTypeOK, MutationOfScreen
  <1> QED
    BY <1>1, <1>4, <1>5

(* The server moves an order along.                                        *)
LEMMA OrderMovesKeepsKioskInv ==
  ASSUME KioskInv, NEW o \in Purchases, NEW to \in OrderStatuses,
         order[o] # "NONE", order' = [order EXCEPT ![o] = to],
         order[o] \notin UNPAID => to \notin UNPAID,
         order[o] \in {"EXPIRED", "REFUND_PENDING"} => to \in {"EXPIRED", "REFUND_PENDING"},
         UNCHANGED <<screenVars, left, scent, scanned, money>>,
         \/ UNCHANGED cancels
         \/ /\ to = "EXPIRED" /\ order[o] \in UNPAID
            /\ \E c \in cancels :
                 c.order = o /\ cancels' = (cancels \ {c}) \cup {[c EXCEPT !.answer = "ok"]}
  PROVE  KioskInv'
  <1> USE DEF KioskInv
  <1>1. cancels' \subseteq Cancels
    BY DEF KioskTypeOK, Cancels, Answers
  <1>2. KioskTypeOK'
    BY <1>1 DEF KioskTypeOK
  <1>3. \A p \in Purchases : order'[p] = IF p = o THEN to ELSE order[p]
    BY DEF KioskTypeOK
  <1>4. MutationOfScreen'
    BY <1>3 DEF MutationOfScreen, KioskTypeOK, OrderStatuses
  <1>5. \A c \in cancels : c.order \in Purchases
    BY DEF KioskTypeOK, Cancels
  <1>6. \A c \in cancels' : c.answer = "ok" =>
          c \in cancels \/ (c.order = o /\ to = "EXPIRED" /\ order[o] \in UNPAID)
    BY DEF KioskTypeOK, Cancels
  <1>7. PaidOrCancelled'
    BY <1>3, <1>5, <1>6 DEF PaidOrCancelled, KioskTypeOK
  <1> QED
    BY <1>2, <1>4, <1>7

(* What the server does with the calls, and with the orders.               *)
LEMMA ServerKeepsKioskInv ==
  ASSUME KioskInv,
         \/ \E s \in Scents : HandleLeft(s)
         \/ \E c \in cancels : HandleCancel(c)
         \/ \E o \in Purchases :
              HandleCreate(o) \/ Transfer(o) \/ Settle(o) \/ Expire(o) \/ Serve(o)
  PROVE  KioskInv'
  <1> USE DEF KioskInv
  <1>1. ASSUME NEW s \in Scents, HandleLeft(s) PROVE KioskInv'
    <2>1. CASE \E o \in Purchases : MakesOrder(o, s)
      BY <1>1, <2>1, NewOrderKeepsKioskInv DEF HandleLeft
    <2>2. CASE UNCHANGED serverVars
      BY <1>1, <2>2 DEF HandleLeft, KioskTypeOK, MutationOfScreen, PaidOrCancelled
    <2> QED
      BY <1>1, <2>1, <2>2 DEF HandleLeft
  <1>2. ASSUME NEW o \in Purchases, HandleCreate(o) PROVE KioskInv'
    <2>1. item \in Scents /\ made = None
      BY <1>2 DEF HandleCreate, MutationOfScreen
    <2> QED
      BY <1>2, <2>1, NewOrderKeepsKioskInv DEF HandleCreate
  <1>3. ASSUME NEW c \in cancels, HandleCancel(c) PROVE KioskInv'
    <2>1. c \in Cancels
      BY DEF KioskTypeOK
    <2>2. CASE Cancellable(c.order)
      <3>1. c.order \in Purchases
        BY <2>1 DEF Cancels
      <3> QED
        BY <1>3, <2>2, <3>1, OrderMovesKeepsKioskInv
        DEF HandleCancel, Cancellable, UNPAID, OrderStatuses
    <2>3. CASE ~Cancellable(c.order)
      <3>1. cancels' \subseteq Cancels /\ \A d \in cancels' : d.answer = "ok" => d \in cancels
        BY <1>3, <2>1, <2>3 DEF HandleCancel, KioskTypeOK, Cancels, Answers
      <3> QED
        BY <1>3, <2>3, <3>1 DEF HandleCancel, KioskTypeOK, MutationOfScreen, PaidOrCancelled
    <2> QED
      BY <2>2, <2>3
  <1>4. ASSUME NEW o \in Purchases, Transfer(o) PROVE KioskInv'
    BY <1>4 DEF Transfer, KioskTypeOK, MutationOfScreen, PaidOrCancelled
  <1>5. ASSUME NEW o \in Purchases, Settle(o) PROVE KioskInv'
    BY <1>5, OrderMovesKeepsKioskInv DEF Settle, UNPAID, OrderStatuses
  <1>6. ASSUME NEW o \in Purchases, Expire(o) PROVE KioskInv'
    BY <1>6, OrderMovesKeepsKioskInv DEF Expire, UNPAID, OrderStatuses
  <1>7. ASSUME NEW o \in Purchases, Serve(o) PROVE KioskInv'
    <2>1. PICK to \in OrderStatuses :
            /\ CanTransition(order[o], to) /\ order' = [order EXCEPT ![o] = to]
      BY <1>7 DEF Serve
    <2>2. order[o] \in SERVING /\ to \notin UNPAID
      BY <1>7, <2>1 DEF Serve, SERVING, UNPAID, CanTransition, ORDER_TRANSITIONS
    <2> QED
      BY <1>7, <2>1, <2>2, OrderMovesKeepsKioskInv DEF Serve, SERVING
  <1> QED
    BY <1>1, <1>2, <1>3, <1>4, <1>5, <1>6, <1>7

(* The answers, or the errors, that reach the kiosk.                       *)
LEMMA AnswerKeepsKioskInv ==
  ASSUME KioskInv,
         \/ CreateFails \/ CreateAnswered
         \/ \E c \in cancels : CancelAnswered(c) \/ CancelLost(c)
  PROVE  KioskInv'
  <1> USE DEF KioskInv
  <1>1. CASE CreateFails
    BY <1>1 DEF CreateFails, KioskTypeOK, MutationOfScreen, PaidOrCancelled
  <1>2. CASE CreateAnswered
    <2>1. shown = None /\ view = "NONE" /\ made \in Purchases \cup {None}
      BY <1>2 DEF CreateAnswered, KioskTypeOK, MutationOfScreen
    <2> QED
      BY <1>2, <2>1
      DEF CreateAnswered, KioskTypeOK, MutationOfScreen, PaidOrCancelled, SERVING
  <1>3. ASSUME NEW c \in cancels, NEW answer \in Answers, CancelEnds(c, answer)
        PROVE  KioskInv'
    <2>1. cancels' \subseteq cancels /\ UNCHANGED serverVars
      BY <1>3 DEF CancelEnds
    <2>2. CASE Discard /\ screen' = "catalog" /\ item' = None /\ stored' = None
      <3>1. create = "sent" => item \in Scents
        BY DEF MutationOfScreen
      <3> QED
        BY <2>1, <2>2, <3>1, LeavingKeepsKioskInv DEF Discard, Abandoned, KioskTypeOK
    <2>3. CASE /\ UNCHANGED <<screen, item, create, made, shown, view, clockOut, left>>
               /\ stored' \in {stored, None} /\ cancel' \in {cancel, "idle"}
               /\ asking' \in {asking, FALSE}
      <3>1. KioskTypeOK'
        BY <2>1, <2>3 DEF KioskTypeOK
      <3>2. ~asking => ~asking'
        BY <2>3 DEF KioskTypeOK
      <3>3. MutationOfScreen'
        BY <2>1, <2>3, <3>2 DEF MutationOfScreen
      <3>4. PaidOrCancelled'
        BY <2>1, <2>3 DEF PaidOrCancelled
      <3> QED
        BY <3>1, <3>3, <3>4
    <2> QED
      BY <1>3, <2>2, <2>3 DEF CancelEnds, AnswerRefused
  <1>4. \A c \in cancels : c.answer \in Answers
    BY DEF KioskTypeOK, Cancels
  <1> QED
    BY <1>1, <1>2, <1>3, <1>4 DEF CancelAnswered, CancelLost, Answers

LEMMA StepKeepsKioskInv == KioskInv /\ [KioskNext]_kioskVars => KioskInv'
  <1> SUFFICES ASSUME KioskInv, [KioskNext]_kioskVars PROVE KioskInv'
    OBVIOUS
  <1>1. CASE UNCHANGED kioskVars
    BY <1>1 DEF kioskVars, KioskInv, KioskTypeOK, MutationOfScreen, PaidOrCancelled
  <1> QED
    BY <1>1, PageKeepsKioskInv, ServerKeepsKioskInv, AnswerKeepsKioskInv DEF KioskNext

-----------------------------------------------------------------------------
(* The theorems.                                                           *)

(* The kiosk keeps KioskInv whatever answers arrive, and in which order.   *)
THEOREM KioskSafety == KioskSpec => []KioskInv
  <1>1. KioskInit => KioskInv
    BY InitKioskInv
  <1>2. KioskInv /\ [KioskNext]_kioskVars => KioskInv'
    BY StepKeepsKioskInv
  <1> QED
    BY <1>1, <1>2, PTL DEF KioskSpec

(* The state of the page, the calls and the orders keep their types.       *)
THEOREM KioskTypeCorrect == KioskSpec => []KioskTypeOK
  <1>1. KioskInv => KioskTypeOK
    BY DEF KioskInv
  <1> QED
    BY <1>1, KioskSafety, PTL

(* The customer never sees, and never pays, the code of another product or *)
(* of the customer before.                                                 *)
THEOREM KioskShownIsChosen == KioskSpec => []ShownIsChosen
  <1>1. KioskInv => ShownIsChosen
    BY DEF KioskInv, MutationOfScreen, ShownIsChosen
  <1> QED
    BY <1>1, KioskSafety, PTL

(* If no cancellation of the customer ends in an error of the network, the *)
(* screen of an order that was seen paid stays.                            *)
THEOREM KioskPaidCustomerStays ==
  ASSUME ~CancelMayFail
  PROVE  KioskSpec => PaidCustomerStays
  <1> DEFINE stays == PostPayment /\ ~Settled => shown' = shown \/ Reload
  <1>1. KioskInv /\ [KioskNext]_kioskVars => [stays]_kioskVars
    <2> SUFFICES ASSUME KioskInv, KioskNext, PostPayment, ~Settled
                 PROVE  shown' = shown \/ Reload
      OBVIOUS
    <2>1. shown # None /\ screen = "checkout" /\ create = "ok" /\ view \in SERVING
      <3>1. view \in OrderStatuses \cup {"NONE"}
        BY DEF KioskInv, KioskTypeOK
      <3> QED
        BY <3>1
        DEF KioskInv, MutationOfScreen, PostPayment, Paying, Settled, SETTLED_STATUSES,
            SERVING, OrderStatuses
    <2>2. ASSUME NEW c \in cancels, NEW answer, CancelEnds(c, answer),
                 c.by = "customer" => answer = c.answer /\ answer # "none"
          PROVE  shown' = shown
      <3>1. c.answer \in {"none", "ok", "refused"}
        BY DEF KioskInv, KioskTypeOK, Cancels, Answers
      <3>2. answer = "ok" /\ c.by = "customer" => c.order # shown
        BY <2>1, <2>2 DEF KioskInv, PaidOrCancelled
      <3> QED
        BY <2>2, <3>1, <3>2 DEF CancelEnds, Heeded, AnswerRefused
    <2>3. ASSUME NEW c \in cancels, HandleCancel(c) \/ CancelAnswered(c) \/ CancelLost(c)
          PROVE  shown' = shown
      BY <2>2, <2>3 DEF HandleCancel, CancelAnswered, CancelLost
    <2> QED
      BY <2>1, <2>3
      DEF KioskNext, Touch, BackToHome, Select, Back, Pay, Retry, RequestCancel,
          DismissCancel, ConfirmCancel, Leave, Scan, IdleReset, CodeExpires, Poll,
          CreateFails, CreateAnswered, HandleLeft, HandleCreate, Transfer, Settle,
          Expire, Serve
  <1> QED
    BY <1>1, KioskSafety, PTL DEF KioskSpec, PaidCustomerStays
=============================================================================
