SPECIFICATION ListsFairSpec
CONSTANTS
  First = s1
  Second = s2
  MaxVersion = 2
  MaxRestarts = 1
INVARIANTS
  ListsTypeOK
PROPERTIES
  CatchesUp
  ListedStaysRefused
