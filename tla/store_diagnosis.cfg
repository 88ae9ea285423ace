CONSTANTS
  s1 = s1
  d1 = d1
  c1 = c1
  c2 = c2
  u1 = u1
  i1 = i1
  i2 = i2
  p1 = p1
  Session = {s1}
  Task <- DiagnosisTask
  Item = {i1, i2}
  Profile = {p1}
  Kind <- DiagnosisKind
  Owner <- OneOwner
  Jobs <- DiagnosisJobs
  About <- OneProfile
  Holder <- OneHolder
  LEASE = 2
  TASK_TIME = 5
  FILE_DELAY = 6
  MAX_ATTEMPTS = 2
  MAX_ACTIVE = 2
  MaxNow = 6
  MaxVersion = 1
SPECIFICATION Spec
CHECK_DEADLOCK FALSE
INVARIANTS
  StatusSummarisesItems
PROPERTIES
  ResultsFrozen
  LeaseNotStolen
  WritesWithinLease
  WritesByHolder
  ImplementsLifecycle
