SPECIFICATION KeySpec
CONSTANTS
  NFrames = 4
  Delay = 1
  Micro = 2
  Durations = {3}
  MaxWanted = 2
INVARIANTS
  SeeksAfterKeyFrame
CHECK_DEADLOCK FALSE
