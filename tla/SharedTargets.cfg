SPECIFICATION Spec
CONSTANTS
  r1 = r1
  r2 = r2
  Runs = {r1, r2}
  Qualities <- TwoQualities
  Wants <- SharedWants
  AutoPublish = TRUE
  Workers = {w1}
  Sessions = {s1}
  Edits = {"READY"}
  Budget = 1
  NoRun = NoRun
  NoJob = NoJob
  NoWorker = NoWorker
  MaxOperatorCalls = 1
INVARIANTS
  SucceededRunIsComplete
PROPERTIES
  PublishedWithItsRun
  KeepsQueueContract
CHECK_DEADLOCK FALSE
