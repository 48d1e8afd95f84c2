SPECIFICATION FairSpec
CONSTANTS
  r1 = r1
  r2 = r2
  Runs <- BothRuns
  Pooled <- None
  Cancels <- None
  MaxConcurrency = 1
  Sticky <- None
  MaxFaults = 1
  NoRun = NoRun

PROPERTIES JobsEnd
CHECK_DEADLOCK FALSE
