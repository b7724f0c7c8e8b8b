SPECIFICATION SessionFairSpec
CONSTANTS
  w1 = w1
  w2 = w2
  p1 = p1
  p2 = p2
  ChunkRequests <- TwoRequests
  Completions <- TwoCompletions
  ChunkBytes = 2
  Declared = 3
  MaxRestarts = 1
INVARIANTS
  BudgetHeld
  AssembledWhole
PROPERTIES
  StagedFilesCollected
CHECK_DEADLOCK FALSE
