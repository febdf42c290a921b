SPECIFICATION FairSpec
CONSTANTS
  Gateways = {"stripe", "mercadopago"}
  Charges = {c1, c2}
  Callers = {k1}
  None = None
  OperatorSets = {}
  MaxHandlers = 1
  MaxCrashes = 0
  MaxLost = 0
INVARIANT OneOpenAtGateway
INVARIANT ClosedTakesNoMoney
INVARIANT CapturedIsKnown
PROPERTY CapturedIsSettled
CHECK_DEADLOCK FALSE
