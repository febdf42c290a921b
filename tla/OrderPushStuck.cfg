SPECIFICATION Spec
CONSTANTS
  Orders = {o1}
  Cancellable = {}
  GatewayPaid = {}
  Unlucky = {}
  Dispatchers = {d1, d2}
  None = None
  ClaimLimit = 2
  MaxAttempts = 2
  MaxEdits = 0
  MaxResends = 0
  MaxCrashes = 1
INVARIANT ProcessingHasWorker
