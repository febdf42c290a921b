SPECIFICATION FairSpec
CONSTANTS
  Orders = {o1}
  Cancellable = {o1}
  GatewayPaid = {o1}
  Unlucky = {o1}
  Dispatchers = {d1, d2}
  None = None
  ClaimLimit = 2
  MaxAttempts = 2
  MaxEdits = 1
  MaxResends = 1
  MaxCrashes = 0
PROPERTY QueueDrains
