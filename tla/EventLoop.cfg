SPECIFICATION FairSpec
CONSTANTS
  N = 3
  MaxRounds = 2
INVARIANTS
  OnePlace
  AnswerComplete
  BatchWhole
PROPERTY Returns
