\* A top-up with two notifications beside an account order without e-mail.
SPECIFICATION FairSpec
CONSTANTS
  topup = topup
  n     = n
  t1    = t1
  t2    = t2
  t     = t1
  InAppOrders = {n}
  TopUpOrders = {topup}
  GiftOrders  = {}
  NoEmail     = {n}
  Tags        = {t1, t2}
  Webhooks    <- Several
  None        = None
  Faults      = {"telegram"}
PROPERTIES
  WebhookEnds
  PaymentSettles
  PlacementEnds
\* Notifications run out, orders get deleted: the system may stop.
CHECK_DEADLOCK FALSE
