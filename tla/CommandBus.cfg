SPECIFICATION FairSpec
CONSTANTS
  x = x
  y = y
  Commands = {1, 2}
  Ref <- OwnSnapshots
  Carried = {1}
  MaxFaults = 1
INVARIANTS TypeOK ConfirmedWasWritten
PROPERTIES StatusMovesForward BegunOnce CommandsEnd FailureShows
CHECK_DEADLOCK FALSE
