SPECIFICATION MCSpec
CONSTANTS
  Channels = {c1, c2}
  Checks = {k1, k2}
  MaxSlips = 2
INVARIANTS
  BotTypeOK
  SentOncePerSlip
PROPERTIES
  JoinedGetsIn
  LeaverIsStopped
