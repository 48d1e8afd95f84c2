SPECIFICATION Spec
CONSTANTS
  r1 = r1
  r2 = r2
  Runs <- BothRuns
  Pooled <- FirstRun
  Cancels <- FirstRun
  MaxConcurrency = 1
  Sticky <- FirstRun
  MaxFaults = 1
  NoRun = NoRun
INVARIANTS TypeOK ContainersWithinLimit CancelledStaysDown StoppedStaysDown StopReachesEveryJob
PROPERTIES EvaluatedOnce JobSpec
