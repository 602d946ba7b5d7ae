\* One top-up order, one notification, NSGifts may fail.
SPECIFICATION FairSpec
CONSTANTS
  topup = topup
  t1    = t1
  n     = topup
  t     = t1
  InAppOrders = {}
  TopUpOrders = {topup}
  GiftOrders  = {}
  NoEmail     = {}
  Tags        = {t1}
  Webhooks    <- AllWebhooks
  None        = None
  Faults      = {"steam"}
PROPERTY FailureIsRecorded
CHECK_DEADLOCK FALSE
