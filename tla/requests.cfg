CONSTANTS
  x = x
  y = y
  Text = {x, y}
  MaxKeys = 2
  MaxTries = 3
  MaxProfiles = 2
  MaxTasks = 3
  MaxVersion = 3
  MaxFaults = 2
SPECIFICATION FairSpec
CHECK_DEADLOCK FALSE
INVARIANTS
  OneTaskPerOperation
  NoKeyConflict
  AcceptedIsSubmitted
PROPERTIES
  LostAnswerRecovered
