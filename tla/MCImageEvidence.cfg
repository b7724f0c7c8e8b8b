SPECIFICATION Spec
CONSTANTS
  h1 = h1
  h2 = h2
  l1 = l1
  l2 = l2
  p1 = p1
  p2 = p2
  None = none
  Handlers <- MCHandlers
  Logs <- MCLogs
  Reports <- MCReports
  Keep = 1
SYMMETRY MCSymmetry
INVARIANTS
  RetentionProceeds
PROPERTIES
  ImplementsLife
  EvidenceKept
  NoDuplicates
