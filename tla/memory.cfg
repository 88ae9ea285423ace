CONSTANTS
  s1 = s1
  d1 = d1
  c1 = c1
  c2 = c2
  j1 = j1
  i1 = i1
  i2 = i2
  p1 = p1
  Nobody = Nobody
  Session = {s1}
  Task = {d1, c1, c2, j1}
  Item = {i1, i2}
  Profile = {p1}
  Kind <- MixedKind
  Owner <- OneOwner
  Jobs <- TwoJobs
  About <- OneProfile
  Holder <- OneHolder
  MAX_ACTIVE = 2
  MAX_ROUNDS = 2
  MaxVersion = 2
SPECIFICATION Spec
CHECK_DEADLOCK FALSE
INVARIANTS
  ProfileReserved
  NothingReappears
PROPERTIES
  EveryTaskEnds
  ImplementsLifecycle
