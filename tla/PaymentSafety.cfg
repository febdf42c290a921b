SPECIFICATION Spec
CONSTANTS
  Gateways = {"stripe", "mercadopago"}
  Charges = {c1, c2}
  Callers = {k1, k2}
  None = None
  OperatorSets = {"pago", "cancelado"}
  MaxHandlers = 1
  MaxCrashes = 1
  MaxLost = 1
INVARIANT TypeOK
INVARIANT PaidMeansCaptured
INVARIANT PaidOrderIsClosed
PROPERTY PaidOrderStands
PROPERTY TerminalStands
PROPERTY PaymentSpec
SYMMETRY Symmetry
CHECK_DEADLOCK FALSE
