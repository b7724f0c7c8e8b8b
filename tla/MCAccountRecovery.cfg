SPECIFICATION Spec
CONSTANTS
  Requests = {q1, q2}
  Users = {u1, u2}
  Ids = {c1}
  Sessions = {s1, s2}
  None = none
  MaxPasswords = 2
  Required = {TRUE, FALSE}
  Faults = TRUE
SYMMETRY Symmetry
INVARIANTS
  TypeOK
  ResetEndsSessions
  FirstApproved
CHECK_DEADLOCK FALSE
