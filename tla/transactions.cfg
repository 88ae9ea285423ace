CONSTANTS
  c1 = c1
  c2 = c2
  g1 = g1
  d1 = d1
  d2 = d2
  q1 = q1
  q2 = q2
  Process = {p1, p2, p3}
  Profile = {q1, q2}
  Chat = {c1, c2}
  Diagnosis = {g1}
  About <- TwoProfiles
  Job = {j1}
  Doc = {d1, d2}
  MAX_ROUNDS = 1
  MAX_ACTIVE = 2
  MaxVersion = 2
  MaxAged = 1
  MaxBegun = 3
SYMMETRY Alike
SPECIFICATION Spec
CHECK_DEADLOCK FALSE
INVARIANTS
  NoDeadlock
  ReadsCoherent
  LimitsHold
  OneProfilePerKey
PROPERTIES
  ConfirmedAsSeen
