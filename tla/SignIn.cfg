SPECIFICATION Spec
CONSTANTS
  Tokens = {t1, t2}
  Persists = {p1, p2}
  Attempts = {a1}
  MaxPolls = 2
  None = None
SYMMETRY Alike
INVARIANTS
  TypeOK
  StoredIsCurrent
  OrphansExplained
  SignOutRevokes
