SPECIFICATION Spec
CONSTANTS
  c1 = c1
  c2 = c2
  e1 = e1
  e2 = e2
  u1 = u1
  u2 = u2
  Evals <- OneEval
  Calls = {c1, c2}
  Users <- MCUsers
  UserOf <- MCUserOf
  Capacity = 1
  UserQuota = 1
  DatabaseFaults = FALSE
  MaxDeliveries = 2
  NoCall = NoCall
  NoEval = NoEval
SYMMETRY Symmetric
INVARIANTS TypeOK SettledClosesCase AcceptedIsNotQueued ConfirmedCancelIsQuiet
PROPERTIES StaleCallWritesNothing SettledIsFinal SettlesOnce
