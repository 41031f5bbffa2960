\* The same with a database that may not be able to prepare a batch.
SPECIFICATION ChFairSpec
CONSTANTS
  v1 = v1  v2 = v2
  Visits <- MCVisits
  NeighborCount <- MCNeighborCount
  BatchSize = 2
  PersistNeighbors = TRUE
  PrepareMayFail = TRUE
  Fragile = {}
  Rejectable = {}
  Seals = {}
\* Nothing is left to do once the client is closed.
CHECK_DEADLOCK FALSE
PROPERTY InsertReturns
