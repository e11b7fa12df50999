SPECIFICATION FairSpec
CONSTANTS
  k = k
  i = i
  j = j
  c1 = c1
  c2 = c2
  c3 = c3
  NoKey = NoKey
  None = None
  Calls = {c1, c2, c3}
  Keys = {k}
  Inputs = {i, j}
  KeyOf <- MCKeyOf
  InputOf <- MCInputOf
  Slots = 2
  MaxFaults = 1
SYMMETRY SameRequest
INVARIANTS
  TypeOK
  NeverAgain
  SuccessIsCommitted
  RetriesAgree
PROPERTIES
  KeepsContract
  EveryCallEnds
CHECK_DEADLOCK FALSE
