SPECIFICATION Spec
SYMMETRY Symmetric
CONSTANTS
  o1 = o1
  o2 = o2
  c1 = c1
  c2 = c2
  h1 = h1
  h2 = h2
  s1 = s1
  s2 = s2
  s3 = s3
  Orders = {o1, o2}
  Charges = {c1, c2}
  OrderOf <- PaidTwice
  Grants = {bank}
  Upgrades = {upgrade}
  Handlers = {h1, h2}
  Rows = {s1, s2, s3}
  NoRow = NoRow
  Nobody = Nobody
  CouponLimit = 1
INVARIANTS
  TypeOK
  DaysAreKept
  CouponWithinLimit
PROPERTIES
  KeepsPurchaseContract
CHECK_DEADLOCK FALSE
