SPECIFICATION ReconSpec
CONSTANTS
  Gateways = {"mercadopago"}
  Charges = {c1}
  Callers = {k1}
  None = None
  OperatorSets = {}
  MaxHandlers = 1
  MaxCrashes = 0
  MaxLost = 0
PROPERTY CapturedIsReconciled
CHECK_DEADLOCK FALSE
