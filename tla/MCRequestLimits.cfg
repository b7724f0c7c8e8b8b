SPECIFICATION LimitsFairSpec
CONSTANTS
  r1 = r1
  r2 = r2
  ip = ip
  user = user
  p1 = p1
  Processes = {p1}
  Callers = {r1, r2}
  Patient = {r1}
  Keys = {ip, user}
  KeysOf <- MCKeysOf
  Limit = 1
  Window = 2
INVARIANTS
  RetryAfterSuffices
PROPERTIES
  LockoutEnds
