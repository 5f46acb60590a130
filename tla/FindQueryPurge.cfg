SPECIFICATION FindSpec
CONSTANTS
  FindNow = 1
  FindTimes = {0, 1, 2, 3}
  MaxVal = 1
  WordSize = 4
  MaxFound = 3
INVARIANTS
  PurgesOnlyExpired
CHECK_DEADLOCK FALSE
