SPECIFICATION FairSpec
CONSTANTS
  Jobs = {j1, j2}
  Workers = {w1, w2}
  WorkerId <- SameId
  SharedId = SharedId
  NoOne = NoOne
  MaxAttempts = 2
  BatchSize = 2
INVARIANTS
  TypeOK
  OneCopyPerClaim
  LedgerHonest
PROPERTIES
  SentIsFinal
  EveryClaimEnds
CHECK_DEADLOCK FALSE
