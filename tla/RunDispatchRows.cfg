SPECIFICATION Spec
CONSTANTS
  Runs = {r1}
  Calls = {c1, c2}
  Concurrency = 1
  Budget = 1
  Slots = 1
  Reports = {"preparing", "agent_running", "collecting", "uploading", "cleaning"}
  MaxPreparers = 2
  MaxCrashes = 0
  NoRun = NoRun
CHECK_DEADLOCK FALSE
SYMMETRY SymmetricCalls
INVARIANTS TypeOK NoResultForgotten AcceptedIsJournalled
PROPERTIES CancelledIsFinal
