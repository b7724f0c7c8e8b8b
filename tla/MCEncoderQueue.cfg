SPECIFICATION FairSpec
CONSTANTS
  c1 = c1
  c2 = c2
  c3 = c3
  c4 = c4
  c5 = c5
  Callers <- MCCallers
  MaxConcurrent = 2
  MaxQueue = 2
INVARIANTS
  QueueSound
  AcceleratorCostsNothing
PROPERTIES
  ImplementsService
  CallsAnswered
