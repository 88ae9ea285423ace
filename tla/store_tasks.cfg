CONSTANTS
  s1 = s1
  d1 = d1
  c1 = c1
  c2 = c2
  u1 = u1
  i1 = i1
  i2 = i2
  p1 = p1
  Session = {s1}
  Task <- ChatsAndUpload
  Item = {i1}
  Profile = {p1}
  Kind <- ChatsAndUploadKind
  Owner <- OneOwner
  Jobs <- NoJobs
  About <- OneProfile
  Holder <- OneHolder
  LEASE = 1
  TASK_TIME = 2
  FILE_DELAY = 1
  MAX_ATTEMPTS = 2
  MAX_ACTIVE = 2
  MaxNow = 3
  MaxVersion = 2
SYMMETRY ChatsAlike
SPECIFICATION Spec
CHECK_DEADLOCK FALSE
INVARIANTS
  OneResult
  OneChatPerProfile
  OriginalReleased
  ErasedForGood
