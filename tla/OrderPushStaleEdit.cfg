SPECIFICATION Spec
CONSTANTS
  Orders = {o1}
  Cancellable = {}
  GatewayPaid = {}
  Unlucky = {}
  Dispatchers = {d1, d2}
  None = None
  ClaimLimit = 2
  MaxAttempts = 2
  MaxEdits = 1
  MaxResends = 0
  MaxCrashes = 0
INVARIANT SentReflectsLatestEdit
