SPECIFICATION FairSpec
CONSTANTS
  Runs = {r1}
  Calls = {c1, c2}
  Concurrency = 1
  Budget = 1
  Slots = 1
  Reports = {"agent_running"}
  MaxPreparers = 1
  MaxCrashes = 1
  NoRun = NoRun
CHECK_DEADLOCK FALSE
CONSTRAINT Open
PROPERTIES DispatchedRunEnds EndedRunIsTold
