CONSTANTS
  s1 = s1
  d1 = d1
  u1 = u1
  c1 = c1
  i1 = i1
  i2 = i2
  p1 = p1
  w1 = w1
  w2 = w2
  Session = {s1}
  Task = {d1, u1, c1}
  Item = {i1}
  Profile = {p1}
  Kind <- MixedKind
  Owner <- OneOwner
  Jobs <- MixedJobs
  About <- OneProfile
  Holder <- OneHolder
  Worker = {w1, w2}
  Nobody = Nobody
  MaxFaults = 1
  MaxRows = 1
  LEASE = 1
  TASK_TIME = 2
  FILE_DELAY = 0
  MAX_ATTEMPTS = 2
  MAX_ACTIVE = 2
  MaxNow = 2
  MaxVersion = 2
SPECIFICATION WorkersSpec
CHECK_DEADLOCK FALSE
SYMMETRY WorkersAlike
INVARIANTS
  GuardsUnneeded
  NoAbandonedLease
