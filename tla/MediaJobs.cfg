SPECIFICATION FairSpec
CONSTANTS
  Jobs = {j1, j2}
  Workers = {w1, w2}
  WorkerId <- OwnIds
  NoOne = NoOne
  NoJob = NoJob
  MaxAttempts = 2
  Lease = 1
  Backoff <- MCBackoff
  MaxOperatorCalls = 3
INVARIANTS
  TypeOK
  FenceMatchesClaim
  NoStrandedJob
PROPERTIES
  OnlyHolderMovesItsJob
  ImplementsContract
  EveryJobSettles
