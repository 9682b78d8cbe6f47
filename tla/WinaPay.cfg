SPECIFICATION Spec
CONSTANTS
  Orders = {o1}
  Authorities = {a1, a2}
  Callbacks = {c1, c2}
  Starts = {s1, s2}
  NoAuth = NoAuth
  NoOrder = NoOrder
SYMMETRY Symmetry
INVARIANTS
  TypeOK
  PaidIsBacked
  ProcessedIsSettled
  NoCaptureStranded
PROPERTIES
  RedemptionIsFinal
  KeepsPurchaseContract
CHECK_DEADLOCK FALSE
