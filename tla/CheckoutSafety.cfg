\* One gift order, four notifications in any order, everything that may fail.
SPECIFICATION Spec
CONSTANTS
  gift = gift
  t1   = t1
  t2   = t2
  t3   = t3
  t4   = t4
  n    = gift
  t    = t1
  InAppOrders = {}
  TopUpOrders = {}
  GiftOrders  = {gift}
  NoEmail     = {}
  Tags        = {t1, t2, t3, t4}
  Webhooks    <- AllWebhooks
  None        = None
  Faults      = {"steam", "bill", "commit", "telegram", "mail", "crash"}
SYMMETRY TagSymmetry
INVARIANTS
  TypeOK
  PendingUntilSettled
  LocksAreHeld
  BillIsBacked
  ChargedOnlyWhenPaid
  SettledOnce
  BoughtOnce
  PaidIsOnRecord
  MailOnlyAfterPurchase
PROPERTY ImplementsLifecycle
\* Notifications run out, orders get deleted: the system may stop.
CHECK_DEADLOCK FALSE
