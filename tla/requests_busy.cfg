CONSTANTS
  x = x
  y = y
  Text = {x, y}
  MaxKeys = 2
  MaxTries = 3
  MaxProfiles = 2
  MaxTasks = 3
  MaxVersion = 1
  MaxFaults = 1
SPECIFICATION FairSpec
CHECK_DEADLOCK FALSE
PROPERTIES
  BusyGetsThrough
