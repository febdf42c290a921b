SPECIFICATION Spec
CONSTANTS
  Orders = {o1, o2}
  Cancellable = {o2}
  GatewayPaid = {o1, o2}
  Unlucky = {o1, o2}
  Dispatchers = {d1, d2}
  None = None
  ClaimLimit = 2
  MaxAttempts = 2
  MaxEdits = 1
  MaxResends = 0
  MaxCrashes = 1
INVARIANT TypeOK
INVARIANT OneLiveErpOrder
INVARIANT LiveOrderIsReachable
INVARIANT SentRowNamesLiveOrder
INVARIANT WorkersDisjoint
PROPERTY ProcessingIsOwned
PROPERTY MirrorSpec
SYMMETRY Symmetry
