SPECIFICATION Spec
CONSTANTS
  Orders = {o1}
  Cancellable = {o1}
  GatewayPaid = {}
  Unlucky = {}
  Dispatchers = {d1, d2}
  None = None
  ClaimLimit = 2
  MaxAttempts = 2
  MaxEdits = 0
  MaxResends = 2
  MaxCrashes = 0
INVARIANT NeverTwoAtErp
