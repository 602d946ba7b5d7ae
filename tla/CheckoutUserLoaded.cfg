\* One in-app order of a signed-in user who gave no e-mail, nothing fails.
SPECIFICATION FairSpec
CONSTANTS
  inapp = inapp
  t1    = t1
  n     = inapp
  t     = t1
  InAppOrders = {inapp}
  TopUpOrders = {}
  GiftOrders  = {}
  NoEmail     = {inapp}
  Tags        = {t1}
  Webhooks    <- AllWebhooks
  None        = None
  Faults      = {}
INVARIANT OrderUserIsLoaded
CHECK_DEADLOCK FALSE
