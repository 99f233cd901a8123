SPECIFICATION MCSpec
CONSTANTS
  root = root
  middle = middle
  leaf = leaf
  low = low
  sys = sys
  a = a
  b = b
  file = file
  NoScope = NoScope
  Scopes <- MCScopes
  ParentOf <- MCParentOf
  Rank <- MCRank
  BelowCap <- LowBelow
  MaxConcurrent = 2
  MaxRequests = 3
  EarlierNotes <- NeverFailed
  Entities <- MCEntities
  NoEntity = NoEntity
  Code <- MCCode
  Architectures <- MCArchitectures
  Firsts <- MCFirsts
  Nexts <- MCNexts
  Batches <- MCBatches
  MaxSteps = 4
  MaxRetries = 1
INVARIANT PoolSafe
PROPERTY ChainSafe
CHECK_DEADLOCK FALSE
