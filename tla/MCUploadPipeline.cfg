SPECIFICATION Spec
CONSTANTS
  r1 = r1
  r2 = r2
  Requests <- MCRequests
  Count <- MCCount
  Chunked <- MCChunked
  Limit = 2
  Normalize = TRUE
  Videos = TRUE
  Faults = TRUE
INVARIANTS
  RowsAndMediaAgree
  OverrunBounded
  FailedRequestUndone
CHECK_DEADLOCK FALSE
