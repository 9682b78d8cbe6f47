SPECIFICATION Spec
SYMMETRY Symmetric
CONSTANTS
  u1 = u1
  u2 = u2
  d1 = d1
  d2 = d2
  Users = {u1, u2}
  Slots = {h1, h2}
  NoUser = NoUser
  MaxTopUps = 1
  Updates = {d1, d2}
  Message <- Messages
  NoUpdate = NoUpdate
INVARIANTS
  TypeOK
  WalletAddsUp
  OneDispatch
CHECK_DEADLOCK FALSE
