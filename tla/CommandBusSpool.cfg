SPECIFICATION Spec
CONSTANTS
  x = x
  y = y
  Commands = {1}
  Ref <- OneSnapshot
  Carried = {1}
  MaxFaults = 2
PROPERTIES SpooledIsPosted
CHECK_DEADLOCK FALSE
