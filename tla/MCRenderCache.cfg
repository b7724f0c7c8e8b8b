SPECIFICATION CacheFairSpec
CONSTANTS
  h1 = h1
  h2 = h2
  k1 = k1
  k2 = k2
  Handlers <- MCHandlers
  Keys <- MCKeys
  Sizes <- MCSizes
  MaxEntry = 2
  MaxTotal = 5
  MaxUnlinks = 2
  MaxDeaths = 1
INVARIANTS
  BytesBounded
PROPERTIES
  LeftoversCollected
  LostFilesHeal
