SPECIFICATION Spec
CONSTANTS
  Tabs = {t1, t2}
  Pages = {p1}
  Topics = {x1}
  Streams = {s1, s2, s3}
  Internal = Internal
  None = None
  MaxListeners = 2
  MaxMail = 3
SYMMETRY Alike
INVARIANTS
  TypeOK
  AttachedIsActive
  NoStreamLeaks
  ListenersServed
