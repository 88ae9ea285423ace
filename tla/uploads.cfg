CONSTANTS
  u1 = u1
  u2 = u2
  k1 = k1
  c1 = c1
  c2 = c2
  Nobody = Nobody
  Upload = {u1, u2}
  Key = {k1}
  KeyOf <- RetryKey
  Cleaner = {c1, c2}
  DELAY = 2
  RETRY = 1
  KEY_LIFE = 2
  MaxNow = 3
  MaxFaults = 2
SPECIFICATION FairSpec
CHECK_DEADLOCK FALSE
INVARIANTS
  FileReserved
  OriginalKept
  DeletedMeansGone
  RetriesAgree
PROPERTIES
  EveryOriginalRemoved
