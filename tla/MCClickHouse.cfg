\* Two writers, one Flush and Close beside InitCrawl and SealCrawl, with a
\* database that may refuse visits, rows or whole batches of them, or say so
\* when it does not.
SPECIFICATION ChFairSpec
CONSTANTS
  v1 = v1  v2 = v2
  Visits <- MCVisits
  NeighborCount <- MCNeighborCount
  BatchSize = 2
  PersistNeighbors = TRUE
  PrepareMayFail = FALSE
  Fragile = {"visits"}
  Rejectable = {"visits"}
  Seals = {"succeeded"}
\* Nothing is left to do once the client is closed.
CHECK_DEADLOCK FALSE
INVARIANTS RowsConserved NothingLeftPending BatchesBounded CrawlRemembered
PROPERTY CallsReturn
