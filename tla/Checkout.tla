------------------------------ MODULE Checkout ------------------------------
(***************************************************************************)
(* The shop's money path: orders being placed and administered (Ordering), *)
(* the buyer and the payment system, and the webhooks about those orders   *)
(* (Payments), over one table.  A crash takes the one server process, and  *)
(* with it every handler, open transaction and pending mail task.          *)
(***************************************************************************)
EXTENDS Ordering, Payments

VARIABLE paid   \* orders whose bill the buyer has paid

vars == <<storeVars, orderingVars, paymentVars, paid>>

TypeOK ==
  /\ StoreTypeOK
  /\ OrderingTypeOK
  /\ PaymentTypeOK
  /\ paid \subseteq Orders

Init ==
  /\ StoreInit
  /\ OrderingInit
  /\ PaymentInit
  /\ paid = {}

\* The buyer follows the payment link the shop has answered with.
BuyerPays(o) ==
  /\ stage[o] = "linked"
  /\ o \in billed \ paid
  /\ paid' = paid \cup {o}
  /\ UNCHANGED <<storeVars, orderingVars, paymentVars>>

\* The payment system reports, as often as it likes, a payment that was made ...
ReportPayment(w) ==
  /\ OrderOf(w) \in paid
  /\ Receive(w, TRUE)
  /\ UNCHANGED <<orderingVars, paid>>

\* ... or an attempt that was declined.
ReportDecline(w) ==
  /\ stage[OrderOf(w)] = "linked"
  /\ OrderOf(w) \in billed
  /\ Receive(w, FALSE)
  /\ UNCHANGED <<orderingVars, paid>>

Crash ==
  /\ "crash" \in Faults
  /\ OrderingCrash
  /\ PaymentCrash
  /\ UNCHANGED paid

Next ==
  \/ \E o \in Orders : OrderingStep(o) /\ UNCHANGED <<paymentVars, paid>>
  \/ \E o \in Orders : BuyerPays(o)
  \/ \E w \in Webhooks : ReportPayment(w) \/ ReportDecline(w)
  \/ \E w \in Webhooks : HandlerStep(w) /\ UNCHANGED <<orderingVars, paid>>
  \/ Crash

Spec == Init /\ [][Next]_vars

(***************************************************************************)
(* What the event loop and the time-outs give: a handler that can go on    *)
(* does, and every call to the outside ends within httpx's five seconds,   *)
(* except pay_gift_order, whose timeout is None.  A waiting UPDATE gets    *)
(* the row lock once it is free.  Buyers, administrators and the payment   *)
(* system owe nothing.                                                     *)
(***************************************************************************)
Fairness ==
  /\ \A o \in Orders : WF_vars(PlacingStep(o) /\ UNCHANGED <<paymentVars, paid>>)
  /\ \A w \in Webhooks :
       WF_vars(BoundedStep(w) /\ UNCHANGED <<orderingVars, paid>>)
  /\ \A w \in Webhooks : OrderOf(w) \notin GiftOrders =>
       WF_vars(PayAtSteam(w) /\ UNCHANGED <<orderingVars, paid>>)

FairSpec == Spec /\ Fairness

-----------------------------------------------------------------------------
(***************************************************************************)
(* Safety.                                                                 *)
(***************************************************************************)

\* A webhook that has read PENDING still finds it PENDING when its unit of work ends,
\* however long NSGifts and Telegram took: nobody writes the row in between
\* (update_payment_details, update_order, delete_order).
PendingUntilSettled ==
  \A w \in Webhooks : pc[w] \in Open =>
    /\ lock[OrderOf(w)] = w
    /\ row[OrderOf(w)].status = "PENDING"

\* Whoever waits for a row waits for a handler of this very order that is still at work:
\* no unit of work leaves a lock behind, in whatever way it ends (__aexit__).
LocksAreHeld ==
  \A o \in Orders : lock[o] # None => OrderOf(lock[o]) = o /\ pc[lock[o]] \in Open

\* A recorded bill_id is that of a payment made for this very order, and the goods of a
\* Steam order had been bought by then (process_payment commits after the pay call).
BillIsBacked ==
  \A o \in Orders : row[o].bill # None =>
    LET w == row[o].bill IN
      /\ OrderOf(w) = o
      /\ o \in paid
      /\ w \in success
      /\ o \in SteamOrders => w \in charged

\* The shop's NSGifts balance is only spent on an order that was made there, is paid
\* for, and had a row when the payment arrived.
ChargedOnlyWhenPaid ==
  \A w \in charged : OrderOf(w) \in reserved \cap paid

\* However many notifications of a payment arrive and however they interleave, two of
\* them complete the order only if an administrator reopened it in between.
SettledOnce ==
  \A v, w \in Webhooks :
    pc[v] = "answered" /\ pc[w] = "answered" /\ OrderOf(v) = OrderOf(w) /\ v # w
      => OrderOf(w) \in reopened

\* Goods are bought twice for one payment only if an administrator reopened the order
\* or one of the two handlers lost its own work (rollback or crash) after buying.
BoughtOnce ==
  \A v, w \in charged :
    OrderOf(v) = OrderOf(w) /\ v # w =>
      \/ OrderOf(w) \in reopened
      \/ pc[v] \in {"failing", "failed", "crashed"}
      \/ pc[w] \in {"failing", "failed", "crashed"}

\* Nobody can pay for an order that is not on record: the link leaves the shop after
\* the commit, so a webhook never meets an order whose insert may still be undone.
PaidIsOnRecord ==
  \A o \in paid : row[o].status # "ABSENT"

\* The mail that thanks for the order goes to buyers who have paid and whose Steam
\* goods were bought, never for a declined or refused notification.
MailOnlyAfterPurchase ==
  \A w \in Webhooks : mail[w] # "none" =>
    /\ OrderOf(w) \in paid \ NoEmail
    /\ pc[w] \notin {"ignored", "refused", "asserted"}
    /\ OrderOf(w) \in SteamOrders => w \in charged

\* The handlers implement the abstract life of an order.
Lifecycle == INSTANCE OrderLifecycle WITH
  status  <- [o \in Orders |-> row[o].status],
  bought  <- {OrderOf(w) : w \in charged},
  settled <- {o \in Orders : row[o].bill # None}

ImplementsLifecycle == Lifecycle!Spec

\* The comment in process_payment: the exception is caught inside the transaction "to
\* reuse transaction for db operation", that is to record the failure in the row.
FailureIsRecorded ==
  [][\A w \in Webhooks :
       pc[w] = "failing" /\ pc'[w] = "failed" => row'[OrderOf(w)].status = "FAILED"]_vars

\* The assertion of BaseOrder.client_email: the order's user is loaded when it is needed.
OrderUserIsLoaded ==
  \A w \in Webhooks : pc[w] # "asserted"

(***************************************************************************)
(* The inductive invariant: the safety properties and what they rest on.   *)
(***************************************************************************)

\* What an open transaction has written: its own bill, and COMPLETED until it fails.
OpenImage ==
  \A w \in Webhooks : pc[w] \in Open =>
    /\ w \in success
    /\ tx[w].bill = w
    /\ pc[w] # "failing" => tx[w].status = "COMPLETED"

\* A row appears with the commit of the placing request and a payment after its answer.
RowFollowsStage ==
  \A o \in Orders :
    /\ stage[o] \in {"placed", "linked"} => row[o].status # "ABSENT"
    /\ stage[o] \notin {"placed", "linked", "crashed"} => row[o] = Nothing
    /\ o \in paid => stage[o] = "linked"
    /\ o \in SteamOrders /\ stage[o] \in {"reserved", "inserted", "billed", "placed", "linked"}
         => o \in reserved

SuccessIsPaid == \A w \in success : OrderOf(w) \in paid

\* Where a handler stands tells whether NSGifts has been paid.
ChargeFollowsPc ==
  \A w \in Webhooks :
    /\ w \in charged =>
         /\ OrderOf(w) \in SteamOrders
         /\ w \in success
         /\ pc[w] \in (Open \ {"marked"}) \cup {"answered", "failed", "crashed"}
    /\ OrderOf(w) \in SteamOrders /\ pc[w] \in {"charged", "fulfilled", "notifying", "settling", "answered"}
         => w \in charged

\* A settled order is PENDING again only by an administrator's hand.
AnsweredIsSettled ==
  \A w \in Webhooks : pc[w] = "answered" =>
    /\ w \in success
    /\ OrderOf(w) \in reopened \/ row[OrderOf(w)].status # "PENDING"

MailFollowsPc ==
  \A w \in Webhooks : mail[w] # "none" =>
    /\ w \in success
    /\ OrderOf(w) \notin NoEmail
    /\ pc[w] \in {"notifying", "settling", "answered", "failed", "crashed"}
    /\ OrderOf(w) \in SteamOrders => w \in charged

IInv ==
  /\ TypeOK
  /\ PendingUntilSettled
  /\ LocksAreHeld
  /\ OpenImage
  /\ RowFollowsStage
  /\ SuccessIsPaid
  /\ ChargeFollowsPc
  /\ AnsweredIsSettled
  /\ MailFollowsPc
  /\ BillIsBacked
  /\ SettledOnce
  /\ BoughtOnce

(***************************************************************************)
(* Liveness.                                                               *)
(***************************************************************************)

\* Every webhook is answered, also one that waits for another webhook's row lock,
\* except that a gift order's may wait for NSGifts for ever (timeout=None).
WebhookEnds ==
  \A w \in Webhooks : OrderOf(w) \notin GiftOrders =>
    (pc[w] = "received" ~> pc[w] \in Ended)

\* A payment reported for a pending order settles it, or its own handler fails: it is
\* not swallowed because another notification was being processed at the time.
PaymentSettles ==
  \A w \in Webhooks : OrderOf(w) \notin GiftOrders \cup NoEmail =>
    (/\ pc[w] = "received"
     /\ w \in success
     /\ row[OrderOf(w)].status = "PENDING")
      ~> \/ row[OrderOf(w)].status # "PENDING"
         \/ pc[w] \in {"failed", "crashed"}

\* Placing an order always ends with a link or an error.
PlacementEnds ==
  \A o \in Orders : stage[o] = "requested" ~> stage[o] \in {"linked", "rejected", "crashed"}
=============================================================================
