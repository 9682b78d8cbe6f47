SPECIFICATION FairSpec
CONSTANTS
  Workers = {w1, w2}
  j1 = j1
  j2 = j2
  Jobs = {j1, j2}
  Janitors = {sweep}
  None = None
  MaxAttempts <- Attempts
PROPERTIES
  DownloadedOnce
CHECK_DEADLOCK FALSE
