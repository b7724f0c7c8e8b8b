SPECIFICATION Spec
CONSTANTS
  Requests = {q1, q2}
  Visits = {v1}
  MaxLoads = 2
  Expiring = {"user"}
SYMMETRY Symmetry
INVARIANTS
  TypeOK
PROPERTIES
  BannedRefused
  LiftedAdmitted
CHECK_DEADLOCK FALSE
