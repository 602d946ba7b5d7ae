--------------------------- MODULE CheckoutProofs ---------------------------
(***************************************************************************)
(* Theorems about Checkout for any sets of orders and notifications and    *)
(* any faults.                                                             *)
(***************************************************************************)
EXTENDS Checkout, TLAPS

\* A webhook is about an order, and is not None.
LEMMA OrderOfType == \A w \in Webhooks : OrderOf(w) \in Orders /\ w # None
  BY StoreAssumption DEF OrderOf

\* An order has one category, and only in-app orders lack an e-mail.
LEMMA Categories ==
  /\ SteamOrders \subseteq Orders
  /\ InAppOrders \cap SteamOrders = {}
  /\ NoEmail \cap SteamOrders = {}
  BY StoreAssumption, NoEmailAssumption DEF SteamOrders, Orders

THEOREM InitEstablishes == Init => IInv
  <1> SUFFICES ASSUME Init PROVE IInv
    OBVIOUS
  <1> USE DEF Init, StoreInit, OrderingInit, PaymentInit
  <1>1. TypeOK
    BY DEF TypeOK, StoreTypeOK, OrderingTypeOK, PaymentTypeOK, Row, RowStatus,
           OrderStatus, Nothing, Stage, Running, Open, Ended
  <1>2. PendingUntilSettled /\ LocksAreHeld /\ OpenImage /\ MailFollowsPc /\ AnsweredIsSettled
    BY DEF PendingUntilSettled, LocksAreHeld, OpenImage, MailFollowsPc, AnsweredIsSettled, Open
  <1>3. RowFollowsStage
    BY DEF RowFollowsStage
  <1>4. SuccessIsPaid /\ ChargeFollowsPc /\ SettledOnce /\ BoughtOnce
    BY DEF SuccessIsPaid, ChargeFollowsPc, SettledOnce, BoughtOnce
  <1>5. BillIsBacked
    BY DEF BillIsBacked, Nothing
  <1>6. QED
    BY <1>1, <1>2, <1>3, <1>4, <1>5 DEF IInv

\* The parts of the invariant, and the vocabulary of every action.
USE DEF storeVars, orderingVars, paymentVars, Goto, MoveOrder

-----------------------------------------------------------------------------
(***************************************************************************)
(* Ordering: none of its steps writes a row that a webhook has locked, and *)
(* a row appears before the order can be paid.                             *)
(***************************************************************************)

\* A placing request touches its own stage, and what lies outside the shop, ...
LEMMA PlacingKeepsInvariant ==
  ASSUME IInv, NEW o \in Orders,
         RequestOrder(o) \/ PlacingStep(o),
         UNCHANGED <<paymentVars, paid>>
  PROVE  IInv'
  <1> USE OrderOfType, Categories
      DEF IInv, TypeOK, StoreTypeOK, OrderingTypeOK, PaymentTypeOK, PendingUntilSettled,
          OpenImage, RowFollowsStage, SuccessIsPaid, ChargeFollowsPc, AnsweredIsSettled,
          MailFollowsPc, BillIsBacked, SettledOnce, BoughtOnce, LocksAreHeld, Row, RowStatus,
          OrderStatus, Nothing, Stage, Placing, Running, Open, Ended
  <1>1. CASE RequestOrder(o)
    BY <1>1 DEF RequestOrder
  <1>2. CASE RejectOrder(o)
    BY <1>2 DEF RejectOrder
  <1>3. CASE ReserveAtSteam(o)
    BY <1>3 DEF ReserveAtSteam
  <1>4. CASE ReserveFails(o)
    BY <1>4 DEF ReserveFails
  <1>5. CASE InsertOrder(o)
    BY <1>5 DEF InsertOrder
  <1>6. CASE CreateBill(o)
    BY <1>6 DEF CreateBill
  <1>7. CASE CreateBillFails(o)
    BY <1>7 DEF CreateBillFails
  <1>8. CASE CommitOrder(o)
    \* ... except for the commit: the row is new, so no webhook is about it yet.
    <2>1. /\ row[o] = Nothing
          /\ o \notin paid
      BY <1>8 DEF CommitOrder
    <2>2. \A w \in Webhooks : OrderOf(w) = o => w \notin success
      BY <2>1
    <2>3. TypeOK' /\ RowFollowsStage'
      BY <1>8, <2>1 DEF CommitOrder, InsertRow
    <2>4. PendingUntilSettled' /\ LocksAreHeld' /\ OpenImage' /\ AnsweredIsSettled'
      BY <1>8, <2>2 DEF CommitOrder, InsertRow
    <2>5. BillIsBacked'
      BY <1>8, <2>1 DEF CommitOrder, InsertRow
    <2>6. SuccessIsPaid' /\ ChargeFollowsPc' /\ MailFollowsPc' /\ SettledOnce' /\ BoughtOnce'
      BY <1>8 DEF CommitOrder
    <2>7. QED
      BY <2>3, <2>4, <2>5, <2>6
  <1>9. CASE CommitOrderFails(o)
    BY <1>9 DEF CommitOrderFails
  <1>10. CASE ReturnLink(o)
    BY <1>10 DEF ReturnLink
  <1>11. QED
    BY <1>1, <1>2, <1>3, <1>4, <1>5, <1>6, <1>7, <1>8, <1>9, <1>10 DEF PlacingStep

\* An administrator waits for the row lock, so no open webhook loses its PENDING row.
LEMMA AdministrationKeepsInvariant ==
  ASSUME IInv, NEW o \in Orders,
         (\E s \in OrderStatus : AdminUpdatesOrder(o, s)) \/ AdminDeletesOrder(o),
         UNCHANGED <<paymentVars, paid>>
  PROVE  IInv'
  <1> USE OrderOfType, Categories
      DEF IInv, TypeOK, StoreTypeOK, OrderingTypeOK, PaymentTypeOK, PendingUntilSettled,
          OpenImage, RowFollowsStage, SuccessIsPaid, ChargeFollowsPc, AnsweredIsSettled,
          MailFollowsPc, BillIsBacked, SettledOnce, BoughtOnce, LocksAreHeld, Row, RowStatus,
          OrderStatus, Nothing, Stage, Placing, Running, Open, Ended,
          InTable, Free
  <1>1. Free(o) => \A w \in Webhooks : OrderOf(w) = o => pc[w] \notin Open
    OBVIOUS
  <1>2. ASSUME NEW s \in OrderStatus, AdminUpdatesOrder(o, s)
        PROVE  IInv'
    <2>1. TypeOK' /\ RowFollowsStage'
      BY <1>2 DEF AdminUpdatesOrder, SetRow
    <2>2. PendingUntilSettled' /\ LocksAreHeld' /\ OpenImage'
      BY <1>1, <1>2 DEF AdminUpdatesOrder, SetRow
    <2>3. AnsweredIsSettled'
      BY <1>2 DEF AdminUpdatesOrder, SetRow, CheckPending
    <2>4. BillIsBacked' /\ SettledOnce' /\ BoughtOnce'
      BY <1>2 DEF AdminUpdatesOrder, SetRow
    <2>5. SuccessIsPaid' /\ ChargeFollowsPc' /\ MailFollowsPc'
      BY <1>2 DEF AdminUpdatesOrder
    <2>6. QED
      BY <2>1, <2>2, <2>3, <2>4, <2>5
  <1>3. CASE AdminDeletesOrder(o)
    BY <1>1, <1>3 DEF AdminDeletesOrder, DropRow
  <1>4. QED
    BY <1>2, <1>3

-----------------------------------------------------------------------------
(***************************************************************************)
(* Payments: the row lock makes the check of PENDING and the commit one.   *)
(***************************************************************************)

\* What a handler does before it locks the row, or after it has let go of it.
LEMMA UnlockedStepKeepsInvariant ==
  ASSUME IInv, NEW w \in Webhooks,
         \/ IgnoreUnsuccessful(w) \/ RefuseNotPending(w) \/ MarkOrderAsPaid(w)
         \/ MailStep(w),
         UNCHANGED <<orderingVars, paid>>
  PROVE  IInv'
  <1> USE OrderOfType, Categories
      DEF IInv, TypeOK, StoreTypeOK, OrderingTypeOK, PaymentTypeOK, PendingUntilSettled,
          OpenImage, RowFollowsStage, SuccessIsPaid, ChargeFollowsPc, AnsweredIsSettled,
          MailFollowsPc, BillIsBacked, SettledOnce, BoughtOnce, LocksAreHeld, Row, RowStatus,
          OrderStatus, Nothing, Stage, Placing, Running, Open, Ended
  <1>1. CASE IgnoreUnsuccessful(w)
    BY <1>1 DEF IgnoreUnsuccessful
  <1>2. CASE RefuseNotPending(w)
    BY <1>2 DEF RefuseNotPending
  <1>3. CASE MarkOrderAsPaid(w)
    \* The lock was free, so no other handler of this order is open.
    <2>1. \A v \in Webhooks : pc[v] \in Open => OrderOf(v) # OrderOf(w)
      BY <1>3 DEF MarkOrderAsPaid, Free
    <2>2. PendingUntilSettled' /\ LocksAreHeld' /\ OpenImage'
      BY <1>3, <2>1 DEF MarkOrderAsPaid, WritePaid, CheckPending, IsSuccess
    <2>3. TypeOK'
      BY <1>3 DEF MarkOrderAsPaid, WritePaid
    <2>4. /\ RowFollowsStage' /\ SuccessIsPaid' /\ ChargeFollowsPc' /\ AnsweredIsSettled'
          /\ MailFollowsPc' /\ BillIsBacked' /\ SettledOnce' /\ BoughtOnce'
      BY <1>3 DEF MarkOrderAsPaid, WritePaid
    <2>5. QED
      BY <2>2, <2>3, <2>4
  <1>4. CASE SendMail(w)
    BY <1>4 DEF SendMail
  <1>5. CASE SendMailFails(w)
    BY <1>5 DEF SendMailFails
  <1>6. QED
    BY <1>1, <1>2, <1>3, <1>4, <1>5 DEF MailStep

\* What it does while its unit of work is open and stays open.
LEMMA OpenStepKeepsInvariant ==
  ASSUME IInv, NEW w \in Webhooks,
         ReadCustomer(w) \/ PayAtSteam(w) \/ SpawnMail(w) \/ NotifyAdmin(w),
         UNCHANGED <<orderingVars, paid>>
  PROVE  IInv'
  <1> USE OrderOfType, Categories
      DEF IInv, TypeOK, StoreTypeOK, OrderingTypeOK, PaymentTypeOK, PendingUntilSettled,
          OpenImage, RowFollowsStage, SuccessIsPaid, ChargeFollowsPc, AnsweredIsSettled,
          MailFollowsPc, BillIsBacked, SettledOnce, BoughtOnce, LocksAreHeld, Row, RowStatus,
          OrderStatus, Nothing, Stage, Placing, Running, Open, Ended
  <1>1. CASE ReadCustomer(w)
    BY <1>1 DEF ReadCustomer
  <1>2. CASE SteamCharges(w)
    \* Whoever bought for this order before has let go of the lock.
    <2>1. \A v \in charged :
             OrderOf(v) = OrderOf(w) /\ v # w =>
               OrderOf(w) \in reopened \/ pc[v] \in {"failed", "crashed"}
      BY <1>2 DEF SteamCharges
    <2>2. BoughtOnce'
      BY <1>2, <2>1 DEF SteamCharges
    <2>3. ChargeFollowsPc' /\ MailFollowsPc' /\ BillIsBacked'
      BY <1>2 DEF SteamCharges
    <2>4. /\ TypeOK' /\ PendingUntilSettled' /\ LocksAreHeld' /\ OpenImage' /\ RowFollowsStage'
          /\ SuccessIsPaid' /\ AnsweredIsSettled' /\ SettledOnce'
      BY <1>2 DEF SteamCharges
    <2>5. QED
      BY <2>2, <2>3, <2>4
  <1>3. CASE SteamAnswers(w)
    BY <1>3 DEF SteamAnswers
  <1>4. CASE SteamFails(w)
    <2>1. pc[w] \in Open /\ pc' = [pc EXCEPT ![w] = "failing"]
      BY <1>4 DEF SteamFails
    <2>2. tx' \in [Webhooks -> Row]
      <3>1. tx' = [tx EXCEPT ![w].status = "FAILED"]
        BY <1>4 DEF SteamFails, WriteStatus
      <3>2. QED
        BY <3>1
    <2>3. TypeOK'
      BY <1>4, <2>1, <2>2 DEF SteamFails, WriteStatus
    <2>4. PendingUntilSettled' /\ LocksAreHeld' /\ OpenImage'
      BY <1>4, <2>1, <2>2 DEF SteamFails, WriteStatus
    <2>5. /\ RowFollowsStage' /\ SuccessIsPaid' /\ ChargeFollowsPc' /\ AnsweredIsSettled'
          /\ MailFollowsPc' /\ BillIsBacked' /\ SettledOnce' /\ BoughtOnce'
      BY <1>4, <2>1 DEF SteamFails, WriteStatus
    <2>6. QED
      BY <2>3, <2>4, <2>5
  <1>5. CASE SpawnMail(w)
    BY <1>5 DEF SpawnMail
  <1>6. CASE NotifyAdmin(w)
    BY <1>6 DEF NotifyAdmin
  <1>7. QED
    BY <1>1, <1>2, <1>3, <1>4, <1>5, <1>6 DEF PayAtSteam

\* How its unit of work ends.
LEMMA EndKeepsInvariant ==
  ASSUME IInv, NEW w \in Webhooks,
         \/ Settle(w) \/ SettleFails(w) \/ NotifyAdminFails(w)
         \/ UserNotLoaded(w) \/ RaiseServiceError(w),
         UNCHANGED <<orderingVars, paid>>
  PROVE  IInv'
  <1> USE OrderOfType, Categories
      DEF IInv, TypeOK, StoreTypeOK, OrderingTypeOK, PaymentTypeOK, PendingUntilSettled,
          OpenImage, RowFollowsStage, SuccessIsPaid, ChargeFollowsPc, AnsweredIsSettled,
          MailFollowsPc, BillIsBacked, SettledOnce, BoughtOnce, LocksAreHeld, Row, RowStatus,
          OrderStatus, Nothing, Stage, Placing, Running, Open, Ended
  <1>1. CASE Settle(w)
    \* The lock kept everybody else out since the row was found PENDING.
    <2>1. /\ row[OrderOf(w)].status = "PENDING"
          /\ tx[w].status = "COMPLETED" /\ tx[w].bill = w /\ w \in success
          /\ \A v \in Webhooks : pc[v] \in Open /\ OrderOf(v) = OrderOf(w) => v = w
      BY <1>1 DEF Settle
    <2>2. \A v \in Webhooks :
             pc[v] = "answered" /\ OrderOf(v) = OrderOf(w) => OrderOf(w) \in reopened
      BY <2>1
    <2>3. SettledOnce' /\ AnsweredIsSettled'
      BY <1>1, <2>1, <2>2 DEF Settle, Commit
    <2>4. BillIsBacked'
      BY <1>1, <2>1 DEF Settle, Commit
    <2>5. PendingUntilSettled' /\ LocksAreHeld' /\ OpenImage' /\ BoughtOnce'
      BY <1>1, <2>1 DEF Settle, Commit
    <2>6. /\ TypeOK' /\ RowFollowsStage' /\ SuccessIsPaid' /\ ChargeFollowsPc'
          /\ MailFollowsPc'
      BY <1>1, <2>1 DEF Settle, Commit
    <2>7. QED
      BY <2>3, <2>4, <2>5, <2>6
  <1>2. CASE SettleFails(w)
    BY <1>2 DEF SettleFails, Rollback
  <1>3. CASE NotifyAdminFails(w)
    BY <1>3 DEF NotifyAdminFails, Rollback
  <1>4. CASE UserNotLoaded(w)
    BY <1>4 DEF UserNotLoaded, Rollback
  <1>5. CASE RaiseServiceError(w)
    BY <1>5 DEF RaiseServiceError, Rollback
  <1>6. QED
    BY <1>1, <1>2, <1>3, <1>4, <1>5

-----------------------------------------------------------------------------
(***************************************************************************)
(* The buyer, the payment system and the crash.                            *)
(***************************************************************************)
LEMMA OutsideKeepsInvariant ==
  ASSUME IInv,
         \/ \E o \in Orders : BuyerPays(o)
         \/ \E w \in Webhooks : ReportPayment(w) \/ ReportDecline(w)
         \/ Crash
  PROVE  IInv'
  <1> USE OrderOfType, Categories
      DEF IInv, TypeOK, StoreTypeOK, OrderingTypeOK, PaymentTypeOK, PendingUntilSettled,
          OpenImage, RowFollowsStage, SuccessIsPaid, ChargeFollowsPc, AnsweredIsSettled,
          MailFollowsPc, BillIsBacked, SettledOnce, BoughtOnce, LocksAreHeld, Row, RowStatus,
          OrderStatus, Nothing, Stage, Placing, Running, Open, Ended
  <1>1. ASSUME NEW o \in Orders, BuyerPays(o) PROVE IInv'
    BY <1>1 DEF BuyerPays
  <1>2. ASSUME NEW w \in Webhooks, ReportPayment(w) PROVE IInv'
    BY <1>2 DEF ReportPayment, Receive
  <1>3. ASSUME NEW w \in Webhooks, ReportDecline(w) PROVE IInv'
    BY <1>3 DEF ReportDecline, Receive
  <1>4. CASE Crash
    BY <1>4 DEF Crash, OrderingCrash, PaymentCrash, DropConnections
  <1>5. QED
    BY <1>1, <1>2, <1>3, <1>4

LEMMA StepKeepsInvariant == IInv /\ [Next]_vars => IInv'
  <1> SUFFICES ASSUME IInv, [Next]_vars PROVE IInv'
    OBVIOUS
  <1>1. ASSUME NEW o \in Orders, OrderingStep(o) /\ UNCHANGED <<paymentVars, paid>>
        PROVE  IInv'
    BY <1>1, PlacingKeepsInvariant, AdministrationKeepsInvariant DEF OrderingStep
  <1>2. ASSUME NEW w \in Webhooks, HandlerStep(w) /\ UNCHANGED <<orderingVars, paid>>
        PROVE  IInv'
    BY <1>2, UnlockedStepKeepsInvariant, OpenStepKeepsInvariant, EndKeepsInvariant
       DEF HandlerStep, BoundedStep
  <1>3. CASE UNCHANGED vars
    BY <1>3
    DEF vars, IInv, TypeOK, StoreTypeOK, OrderingTypeOK, PaymentTypeOK, PendingUntilSettled,
          OpenImage, RowFollowsStage, SuccessIsPaid, ChargeFollowsPc, AnsweredIsSettled,
          MailFollowsPc, BillIsBacked, SettledOnce, BoughtOnce, LocksAreHeld, Row, RowStatus,
          OrderStatus, Nothing, Stage, Placing, Running, Open, Ended
  <1>4. QED
    BY <1>1, <1>2, <1>3, OutsideKeepsInvariant DEF Next

\* The invariant holds in every reachable state.
THEOREM Invariance == Spec => []IInv
  <1>1. QED
    BY InitEstablishes, StepKeepsInvariant, PTL DEF Spec

\* Every variable keeps its type.
THEOREM TypeCorrectness == Spec => []TypeOK
  <1>1. IInv => TypeOK
    BY DEF IInv
  <1>2. QED
    BY <1>1, Invariance, PTL

\* The row a webhook found PENDING stays so until its unit of work ends.
THEOREM RowLockHolds == Spec => []PendingUntilSettled
  <1>1. IInv => PendingUntilSettled
    BY DEF IInv
  <1>2. QED
    BY <1>1, Invariance, PTL

\* Whoever waits for a row waits for a handler of the same order that is still at work.
THEOREM LocksHaveHolders == Spec => []LocksAreHeld
  <1>1. IInv => LocksAreHeld
    BY DEF IInv
  <1>2. QED
    BY <1>1, Invariance, PTL

\* A recorded bill is backed by a payment for the order and by the goods bought.
THEOREM BillsAreBacked == Spec => []BillIsBacked
  <1>1. IInv => BillIsBacked
    BY DEF IInv
  <1>2. QED
    BY <1>1, Invariance, PTL

\* Any number of notifications settle an order once, unless it was reopened.
THEOREM OrdersSettleOnce == Spec => []SettledOnce
  <1>1. IInv => SettledOnce
    BY DEF IInv
  <1>2. QED
    BY <1>1, Invariance, PTL

\* Goods are bought twice only after a reopening or a handler's lost work.
THEOREM GoodsAreBoughtOnce == Spec => []BoughtOnce
  <1>1. IInv => BoughtOnce
    BY DEF IInv
  <1>2. QED
    BY <1>1, Invariance, PTL

\* The shop spends its NSGifts balance on paid orders that NSGifts knows.
THEOREM ChargesArePaid == Spec => []ChargedOnlyWhenPaid
  <1>1. IInv => ChargedOnlyWhenPaid
    BY OrderOfType
    DEF IInv, TypeOK, PaymentTypeOK, ChargeFollowsPc, SuccessIsPaid, RowFollowsStage,
        ChargedOnlyWhenPaid
  <1>2. QED
    BY <1>1, Invariance, PTL

\* A payment is about an order whose row has been committed.
THEOREM PaymentsAreOnRecord == Spec => []PaidIsOnRecord
  <1>1. IInv => PaidIsOnRecord
    BY DEF IInv, TypeOK, RowFollowsStage, PaidIsOnRecord
  <1>2. QED
    BY <1>1, Invariance, PTL

\* The mail of thanks goes to buyers who have paid, after the purchase.
THEOREM MailsFollowPurchases == Spec => []MailOnlyAfterPurchase
  <1>1. IInv => MailOnlyAfterPurchase
    BY DEF IInv, MailFollowsPc, SuccessIsPaid, MailOnlyAfterPurchase
  <1>2. QED
    BY <1>1, Invariance, PTL

-----------------------------------------------------------------------------
(***************************************************************************)
(* What the findings come to.  TLC shows that a failure of NSGifts may go  *)
(* unrecorded and that a handler may fail on a user not loaded; in fact    *)
(* the former always does, and the latter is the fate of these orders.     *)
(***************************************************************************)

\* FAILED gets into a row by an administrator's hand only: what a handler writes when
\* NSGifts fails (update_payment_details) never outlives its unit of work.
THEOREM FailureIsNeverRecorded ==
  Spec => [][\A o \in Orders : row'[o].status = "FAILED" =>
               row[o].status = "FAILED" \/ AdminUpdatesOrder(o, "FAILED")]_vars
  <1> DEFINE ByAdministrator ==
        \A o \in Orders : row'[o].status = "FAILED" =>
          row[o].status = "FAILED" \/ AdminUpdatesOrder(o, "FAILED")
  <1>1. IInv /\ [Next]_vars => [ByAdministrator]_vars
    <2> SUFFICES ASSUME IInv, [Next]_vars PROVE [ByAdministrator]_vars
      OBVIOUS
    <2>1. row \in [Orders -> Row]
      BY DEF IInv, TypeOK, StoreTypeOK
    <2>2. CASE row' = row
      BY <2>2
    <2>3. ASSUME NEW o \in Orders, OrderingStep(o) /\ UNCHANGED <<paymentVars, paid>>
          PROVE  ByAdministrator
      <3>1. ASSUME NEW s \in OrderStatus, AdminUpdatesOrder(o, s) PROVE ByAdministrator
        BY <2>1, <3>1 DEF AdminUpdatesOrder, SetRow, Row
      <3>2. CASE CommitOrder(o)
        BY <2>1, <3>2 DEF CommitOrder, InsertRow
      <3>3. CASE AdminDeletesOrder(o)
        BY <2>1, <3>3 DEF AdminDeletesOrder, DropRow
      <3>4. QED
        BY <2>2, <2>3, <3>1, <3>2, <3>3
        DEF OrderingStep, PlacingStep, RequestOrder, RejectOrder, ReserveAtSteam, ReserveFails,
            InsertOrder, CreateBill, CreateBillFails, CommitOrderFails, ReturnLink
    <2>4. ASSUME NEW w \in Webhooks, HandlerStep(w) /\ UNCHANGED <<orderingVars, paid>>
          PROVE  ByAdministrator
      <3>1. CASE Settle(w)
        <4>1. tx[w].status = "COMPLETED"
          BY <3>1 DEF Settle, IInv, OpenImage, Open
        <4>2. QED
          BY <2>1, <3>1, <4>1 DEF Settle, Commit
      <3>2. QED
        BY <2>2, <2>4, <3>1
        DEF HandlerStep, BoundedStep, PayAtSteam, MailStep, IgnoreUnsuccessful, MarkOrderAsPaid,
            WritePaid, RefuseNotPending, ReadCustomer, SteamCharges, SteamAnswers, SteamFails,
            WriteStatus, RaiseServiceError, Rollback, SpawnMail, UserNotLoaded, NotifyAdmin,
            NotifyAdminFails, SettleFails, SendMail, SendMailFails
    <2>5. CASE UNCHANGED vars
      BY <2>5
    <2>6. QED
      BY <2>2, <2>3, <2>4, <2>5
      DEF Next, BuyerPays, ReportPayment, ReportDecline, Receive, Crash, PaymentCrash, DropConnections
  <1>2. QED
    BY <1>1, Invariance, PTL DEF Spec

\* An order without an e-mail of its own is the only one that fails on its user, and it
\* always does: no handler of it gets beyond the mail, so no payment is ever recorded.
EmailDecides ==
  /\ \A w \in Webhooks : pc[w] = "asserted" => OrderOf(w) \in NoEmail
  /\ \A w \in Webhooks :
       OrderOf(w) \in NoEmail => pc[w] \notin {"notifying", "settling", "answered"}
  /\ \A o \in NoEmail : row[o].bill = None

LEMMA StepKeepsEmailDecides ==
  ASSUME IInv, EmailDecides, [Next]_vars
  PROVE  EmailDecides'
  <1>1. /\ NoEmail \subseteq Orders
        /\ row \in [Orders -> Row]
        /\ pc \in [Webhooks -> Running \cup Ended \cup {"idle"}]
    BY NoEmailAssumption DEF Orders, IInv, TypeOK, StoreTypeOK, PaymentTypeOK
  <1>2. ASSUME NEW o \in Orders, OrderingStep(o), UNCHANGED <<paymentVars, paid>>
        PROVE  EmailDecides'
    <2>1. \A p \in NoEmail : row'[p].bill = None
      BY <1>1, <1>2
      DEF EmailDecides, OrderingStep, PlacingStep, RequestOrder, RejectOrder, ReserveAtSteam,
          ReserveFails, InsertOrder, CreateBill, CreateBillFails, CommitOrder, InsertRow,
          CommitOrderFails, ReturnLink, AdminUpdatesOrder, SetRow, AdminDeletesOrder, DropRow, Row
    <2>2. QED
      BY <1>2, <2>1 DEF EmailDecides
  <1>3. ASSUME NEW w \in Webhooks, HandlerStep(w), UNCHANGED <<orderingVars, paid>>
        PROVE  EmailDecides'
    <2>1. CASE Settle(w)
      <3>1. OrderOf(w) \notin NoEmail
        BY <2>1 DEF Settle, EmailDecides
      <3>2. \A p \in NoEmail : row'[p] = row[p]
        BY <1>1, <2>1, <3>1 DEF Settle, Commit
      <3>3. QED
        BY <1>1, <2>1, <3>1, <3>2 DEF Settle, EmailDecides
    <2>2. CASE SpawnMail(w) \/ UserNotLoaded(w)
      BY <1>1, <2>2 DEF SpawnMail, UserNotLoaded, Rollback, EmailDecides
    <2>3. ASSUME ~Settle(w), ~SpawnMail(w), ~UserNotLoaded(w)
          PROVE  /\ UNCHANGED row
                 /\ \/ pc' = pc
                    \/ \E to \in Running \cup Ended :
                         /\ pc' = [pc EXCEPT ![w] = to] /\ to \notin {"answered", "asserted"}
                         /\ to \in {"notifying", "settling"} => pc[w] \in {"notifying", "settling"}
      BY <1>3, <2>3
      DEF HandlerStep, BoundedStep, PayAtSteam, MailStep, IgnoreUnsuccessful, MarkOrderAsPaid,
          WritePaid, RefuseNotPending, ReadCustomer, SteamCharges, SteamAnswers, SteamFails,
          WriteStatus, RaiseServiceError, Rollback, NotifyAdmin, NotifyAdminFails, SettleFails,
          SendMail, SendMailFails, Running, Open, Ended
    <2>4. QED
      BY <1>1, <2>1, <2>2, <2>3 DEF EmailDecides
  <1>4. ASSUME \/ \E o \in Orders : BuyerPays(o)
               \/ \E w \in Webhooks : ReportPayment(w) \/ ReportDecline(w)
               \/ Crash
               \/ UNCHANGED vars
        PROVE  EmailDecides'
    <2>1. UNCHANGED row
      BY <1>4 DEF BuyerPays, ReportPayment, ReportDecline, Receive, Crash, PaymentCrash,
                  DropConnections, vars
    <2>2. \A w \in Webhooks : pc'[w] = pc[w] \/ pc'[w] \in {"received", "crashed"}
      BY <1>1, <1>4 DEF BuyerPays, ReportPayment, ReportDecline, Receive, Crash, PaymentCrash, vars
    <2>3. QED
      BY <2>1, <2>2 DEF EmailDecides
  <1>5. QED
    BY <1>2, <1>3, <1>4 DEF Next

\* A payment for such an order is never recorded, however often it is notified; every
\* other handler gets past the assertion of client_email.
THEOREM OrdersWithoutEmailFail == Spec => []EmailDecides
  <1>1. Init => EmailDecides
    BY OrderOfType, NoEmailAssumption
    DEF Init, StoreInit, PaymentInit, Nothing, EmailDecides, Orders
  <1>2. IInv /\ EmailDecides /\ [Next]_vars => EmailDecides'
    BY StepKeepsEmailDecides
  <1>3. QED
    BY <1>1, <1>2, Invariance, PTL DEF Spec

\* The most steps a handler has left, and the most that a placing request has left.
StepsLeft(stop) ==
  IF stop = "idle" THEN 7 ELSE IF stop = "received" THEN 6
  ELSE IF stop = "marked" THEN 5 ELSE IF stop = "charged" THEN 4
  ELSE IF stop = "fulfilled" THEN 3 ELSE IF stop = "notifying" THEN 2
  ELSE IF stop \in {"settling", "failing"} THEN 1 ELSE 0

StagesLeft(stop) ==
  IF stop = "new" THEN 6 ELSE IF stop = "requested" THEN 5
  ELSE IF stop = "reserved" THEN 4 ELSE IF stop = "inserted" THEN 3
  ELSE IF stop = "billed" THEN 2 ELSE IF stop = "placed" THEN 1 ELSE 0

\* Neither a rollback nor an error sends a request back to an earlier stage: a notification
\* that has come costs its handler at most six steps, and an order at most six of its
\* placing, so that WebhookEnds and PlacementEnds need no more than that each step is taken.
THEOREM RequestsAdvance ==
  Spec => [][/\ \A w \in Webhooks : pc'[w] # pc[w] => StepsLeft(pc'[w]) < StepsLeft(pc[w])
             /\ \A o \in Orders :
                  stage'[o] # stage[o] => StagesLeft(stage'[o]) < StagesLeft(stage[o])]_vars
  <1> DEFINE Advance ==
        /\ \A w \in Webhooks : pc'[w] # pc[w] => StepsLeft(pc'[w]) < StepsLeft(pc[w])
        /\ \A o \in Orders :
             stage'[o] # stage[o] => StagesLeft(stage'[o]) < StagesLeft(stage[o])
  <1>1. ASSUME IInv, [Next]_vars PROVE [Advance]_vars
    <2>1. /\ pc \in [Webhooks -> Running \cup Ended \cup {"idle"}]
          /\ stage \in [Orders -> Stage]
      BY <1>1 DEF IInv, TypeOK, PaymentTypeOK, OrderingTypeOK
    <2>2. ASSUME NEW o \in Orders, OrderingStep(o), UNCHANGED <<paymentVars, paid>>
          PROVE  Advance
      BY <2>1, <2>2
      DEF StagesLeft, OrderingStep, PlacingStep, RequestOrder, RejectOrder, ReserveAtSteam,
          ReserveFails, InsertOrder, CreateBill, CreateBillFails, CommitOrder,
          CommitOrderFails, ReturnLink, AdminUpdatesOrder, AdminDeletesOrder
    <2>3. ASSUME NEW w \in Webhooks, HandlerStep(w), UNCHANGED <<orderingVars, paid>>
          PROVE  Advance
      BY <2>1, <2>3
      DEF StepsLeft, HandlerStep, BoundedStep, PayAtSteam, MailStep, IgnoreUnsuccessful,
          MarkOrderAsPaid, RefuseNotPending, ReadCustomer, SteamCharges, SteamAnswers,
          SteamFails, RaiseServiceError, SpawnMail, UserNotLoaded, NotifyAdmin,
          NotifyAdminFails, Settle, SettleFails, SendMail, SendMailFails
    <2>4. ASSUME NEW w \in Webhooks, ReportPayment(w) \/ ReportDecline(w)
          PROVE  Advance
      BY <2>1, <2>4 DEF StepsLeft, ReportPayment, ReportDecline, Receive
    <2>5. CASE Crash
      <3>1. \A w \in Webhooks : pc'[w] # pc[w] => pc[w] \in Running /\ pc'[w] = "crashed"
        BY <2>1, <2>5 DEF Crash, PaymentCrash
      <3>2. \A o \in Orders : stage'[o] # stage[o] => stage[o] \in Placing /\ stage'[o] = "crashed"
        BY <2>1, <2>5 DEF Crash, OrderingCrash
      <3>3. QED
        BY <3>1, <3>2 DEF StepsLeft, StagesLeft, Running, Open, Placing
    <2>6. CASE (\E o \in Orders : BuyerPays(o)) \/ UNCHANGED vars
      BY <2>6 DEF BuyerPays, vars
    <2>7. QED
      BY <1>1, <2>2, <2>3, <2>4, <2>5, <2>6 DEF Next
  <1>2. QED
    BY <1>1, Invariance, PTL DEF Spec

-----------------------------------------------------------------------------
(***************************************************************************)
(* The handlers implement OrderLifecycle: placing commits are Place, the   *)
(* buyer's payment is Pay, an accepted pay_order is Buy, the commit of a   *)
(* webhook is Complete, and every other step leaves the abstract state.    *)
(***************************************************************************)
USE DEF Lifecycle!Status

LEMMA InitRefines == Init => Lifecycle!Init
  BY DEF Init, StoreInit, PaymentInit, Nothing, Lifecycle!Init

\* Steps after which the table, the payments and the purchases are as before.
LEMMA InvisibleStepRefines ==
  ASSUME UNCHANGED <<row, paid, charged>>
  PROVE  UNCHANGED Lifecycle!vars
  BY DEF Lifecycle!vars

LEMMA OrderingRefines ==
  ASSUME IInv, NEW o \in Orders, OrderingStep(o), UNCHANGED <<paymentVars, paid>>
  PROVE  [Lifecycle!Next]_Lifecycle!vars
  <1>1. row \in [Orders -> Row]
    BY DEF IInv, TypeOK, StoreTypeOK
  <1>2. CASE CommitOrder(o)
    <2>1. row[o] = Nothing
      BY <1>2 DEF CommitOrder, IInv, RowFollowsStage
    <2>2. row' = [row EXCEPT ![o] = [status |-> "PENDING", bill |-> None]]
      BY <1>2 DEF CommitOrder, InsertRow
    <2>3. [p \in Orders |-> row'[p].status]
            = [[p \in Orders |-> row[p].status] EXCEPT ![o] = "PENDING"]
      BY <1>1, <2>2
    <2>4. {p \in Orders : row'[p].bill # None} = {p \in Orders : row[p].bill # None}
      BY <1>1, <2>1, <2>2 DEF Nothing
    <2>5. Lifecycle!Place(o)
      BY <1>2, <2>1, <2>3, <2>4 DEF CommitOrder, Lifecycle!Place, Nothing
    <2>6. QED
      BY <2>5 DEF Lifecycle!Next
  <1>3. ASSUME NEW s \in OrderStatus, AdminUpdatesOrder(o, s)
        PROVE  Lifecycle!Administer(o, s)
    BY <1>1, <1>3
    DEF AdminUpdatesOrder, SetRow, InTable, OrderStatus, Row, Lifecycle!Administer
  <1>4. CASE AdminDeletesOrder(o)
    <2>1. Lifecycle!Delete(o)
      BY <1>1, <1>4
      DEF AdminDeletesOrder, DropRow, InTable, OrderStatus, Row, Lifecycle!Delete
    <2>2. QED
      BY <2>1 DEF Lifecycle!Next
  <1>5. ASSUME RequestOrder(o) \/ PlacingStep(o), ~CommitOrder(o)
        PROVE  UNCHANGED <<row, paid, charged>>
    BY <1>5
    DEF RequestOrder, PlacingStep, RejectOrder, ReserveAtSteam, ReserveFails, InsertOrder,
        CreateBill, CreateBillFails, CommitOrderFails, ReturnLink
  <1>6. QED
    BY <1>2, <1>3, <1>4, <1>5, InvisibleStepRefines
    DEF OrderingStep, OrderStatus, Lifecycle!Next

LEMMA HandlerRefines ==
  ASSUME IInv, NEW w \in Webhooks, HandlerStep(w), UNCHANGED <<orderingVars, paid>>
  PROVE  [Lifecycle!Next]_Lifecycle!vars
  <1> DEFINE o == OrderOf(w)
  <1>1. o \in Orders /\ w # None
    BY OrderOfType
  <1>2. CASE SteamCharges(w)
    <2>1. row[o].status = "PENDING" /\ o \in SteamOrders \cap paid
      BY <1>2
      DEF SteamCharges, IInv, PendingUntilSettled, OpenImage, SuccessIsPaid, Open
    <2>2. {OrderOf(v) : v \in charged'} = {OrderOf(v) : v \in charged} \cup {o}
      BY <1>2 DEF SteamCharges
    <2>3. Lifecycle!Buy(o)
      BY <1>1, <1>2, <2>1, <2>2 DEF SteamCharges, Lifecycle!Buy
    <2>4. QED
      BY <1>1, <2>3 DEF Lifecycle!Next
  <1>3. CASE Settle(w)
    <2>1. /\ row[o].status = "PENDING"
          /\ o \in paid
          /\ tx[w].status = "COMPLETED" /\ tx[w].bill = w
          /\ o \in SteamOrders => w \in charged
      BY <1>3
      DEF Settle, IInv, PendingUntilSettled, OpenImage, SuccessIsPaid, ChargeFollowsPc, Open
    <2>2. row \in [Orders -> Row] /\ row' = [row EXCEPT ![o] = tx[w]]
      BY <1>3 DEF Settle, Commit, IInv, TypeOK, StoreTypeOK
    <2>3. {p \in Orders : row'[p].bill # None} = {p \in Orders : row[p].bill # None} \cup {o}
      BY <1>1, <2>1, <2>2
    <2>4. [p \in Orders |-> row'[p].status]
            = [[p \in Orders |-> row[p].status] EXCEPT ![o] = "COMPLETED"]
      BY <1>1, <2>1, <2>2
    <2>5. Lifecycle!Complete(o)
      BY <1>1, <1>3, <2>1, <2>3, <2>4 DEF Settle, Lifecycle!Complete
    <2>6. QED
      BY <1>1, <2>5 DEF Lifecycle!Next
  <1>4. ASSUME ~SteamCharges(w), ~Settle(w)
        PROVE  UNCHANGED <<row, paid, charged>>
    BY <1>4
    DEF HandlerStep, BoundedStep, PayAtSteam, MailStep, IgnoreUnsuccessful, MarkOrderAsPaid,
        WritePaid, RefuseNotPending, ReadCustomer, SteamAnswers, SteamFails, WriteStatus,
        RaiseServiceError, Rollback, SpawnMail, UserNotLoaded, NotifyAdmin, NotifyAdminFails,
        SettleFails, SendMail, SendMailFails
  <1>5. QED
    BY <1>2, <1>3, <1>4, InvisibleStepRefines

LEMMA OutsideRefines ==
  ASSUME IInv,
         \/ \E o \in Orders : BuyerPays(o)
         \/ \E w \in Webhooks : ReportPayment(w) \/ ReportDecline(w)
         \/ Crash
  PROVE  [Lifecycle!Next]_Lifecycle!vars
  <1>1. ASSUME NEW o \in Orders, BuyerPays(o)
        PROVE  Lifecycle!Next
    <2>1. row[o].status # "ABSENT"
      BY <1>1 DEF BuyerPays, IInv, RowFollowsStage
    <2>2. Lifecycle!Pay(o)
      BY <1>1, <2>1 DEF BuyerPays, Lifecycle!Pay
    <2>3. QED
      BY <2>2 DEF Lifecycle!Next
  <1>2. ASSUME NEW w \in Webhooks, ReportPayment(w) \/ ReportDecline(w)
        PROVE  UNCHANGED <<row, paid, charged>>
    BY <1>2 DEF ReportPayment, ReportDecline, Receive
  <1>3. CASE Crash
    <2>1. UNCHANGED <<row, paid, charged>>
      BY <1>3 DEF Crash, PaymentCrash, DropConnections
    <2>2. QED
      BY <2>1, InvisibleStepRefines
  <1>4. QED
    BY <1>1, <1>2, <1>3, InvisibleStepRefines

\* Every behaviour of the shop is, seen from the order, one that OrderLifecycle allows.
THEOREM Refinement == Spec => ImplementsLifecycle
  <1>1. IInv /\ [Next]_vars => [Lifecycle!Next]_Lifecycle!vars
    <2> SUFFICES ASSUME IInv, [Next]_vars PROVE [Lifecycle!Next]_Lifecycle!vars
      OBVIOUS
    <2>1. CASE UNCHANGED vars
      BY <2>1, InvisibleStepRefines DEF vars
    <2>2. QED
      BY <2>1, OrderingRefines, HandlerRefines, OutsideRefines DEF Next
  <1>2. QED
    BY <1>1, InitRefines, Invariance, PTL DEF Spec, ImplementsLifecycle, Lifecycle!Spec
=============================================================================
