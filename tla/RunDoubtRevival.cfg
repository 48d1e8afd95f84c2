SPECIFICATION Spec
CONSTANTS
  Runs = {r1}
  Calls = {c1}
  Concurrency = 1
  Budget = 1
  Slots = 1
  Reports = {"preparing", "agent_running", "collecting", "uploading", "cleaning"}
  MaxPreparers = 1
  MaxCrashes = 0
  NoRun = NoRun
CHECK_DEADLOCK FALSE
PROPERTIES EndedRunStaysEnded
