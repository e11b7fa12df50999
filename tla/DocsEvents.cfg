SPECIFICATION Spec
CONSTANTS
  u1 = u1
  u2 = u2
  s1 = s1
  s2 = s2
  Events <- MCEvents
  Users = {u1, u2}
  For <- MCFor
  Sessions = {s1, s2}
  Owner <- MCOwner
  None = None
  Ms = 2
  Interval = 2
  Lifetime = 3
  Lag = 0
  Limit = 2
  MaxTime = 4
PROPERTIES
  DeliveredToActiveSession
CHECK_DEADLOCK FALSE
