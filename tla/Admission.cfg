SPECIFICATION Spec
CONSTANTS
  Calls = {c1}
  Copies = {d1, d2, d3}
  Sessions = {s1}
  Users = {u1}
  Owner <- MCOwner
  AuthRequired = {}
  Anonymous = Anonymous
  None = None
  Window = 1
  Retention = 3
  MaxDelay = 1
  TicketLife = 3
  MaxTime = 5
SYMMETRY AnyCopy
INVARIANTS
  TypeOK
  NoReplay
  SignOutFinal
CHECK_DEADLOCK FALSE
