SPECIFICATION FairSpec
CONSTANTS
  r1 = r1
  r2 = r2
  Runs = {r1}
  Qualities <- TwoQualities
  Wants <- SharedWants
  AutoPublish = TRUE
  Workers = {w1, w2}
  Sessions = {s1}
  Edits = {}
  Budget = 1
  NoRun = NoRun
  NoJob = NoJob
  NoWorker = NoWorker
  MaxOperatorCalls = 0
PROPERTIES
  EveryRunSettles
CHECK_DEADLOCK FALSE
