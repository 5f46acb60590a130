SPECIFICATION Spec
CONSTANTS
  N = 2
  MaxRounds = 1
INVARIANT AllTasksCompleted
