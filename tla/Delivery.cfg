SPECIFICATION DeliverySpec
SYMMETRY Symmetric
CONSTRAINT Explored
CONSTANTS
  Titles = {t1}
  Releases = {r1}
  Files = {f1}
  Panels = {p1}
  None = None
  Users = {u1}
  Slots = {h1, h2}
  Limit = 1
  MaxUsed = 2
  MaxDay = 1
INVARIANTS
  DeliveryTypeOK
  FreeLimit
CHECK_DEADLOCK FALSE
