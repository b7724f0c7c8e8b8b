SPECIFICATION Spec
CONSTANTS
  Requests = {q1, q2}
  Ids = {c1, c2}
  NoId = none
  MaxAttempts = 1
  Resends = 1
  MaxMails = 3
  Counters = 2
  Secrets = 1
  Faults = TRUE
SYMMETRY Symmetry
INVARIANTS
  ChallengesSound
PROPERTIES
  RedeemedOnce
  CounterOnce
CHECK_DEADLOCK FALSE
