SPECIFICATION Spec
CONSTANTS
  o1 = o1
  o2 = o2
  alice = alice
  bob = bob
  l1 = l1
  l2 = l2
  k1 = k1
  k2 = k2
  k3 = k3
  r1 = r1
  r2 = r2
  d1 = d1
  Orgs = {o1, o2}
  Subjects = {alice, bob}
  Founders = {alice}
  Logins = {l1, l2}
  Callbacks = {k1, k2, k3}
  Carries <- MCCarries
  Who <- MCWho
  Commands <- MCCommands
  Requests = {r1, r2}
  Runs = {n1}
  Automation = Automation
  None = None
SYMMETRY AnyRequest
INVARIANTS
  TypeOK
  OneSessionPerLogin
  OnlyPermittedWrites
  ActiveIsWhole
  RunsWhatWasDeployed
PROPERTIES
  MembershipIsManaged
