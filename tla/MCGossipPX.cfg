\* A crawl with peer exchange that may be cancelled at any time.
SPECIFICATION PxFairSpec
CONSTANTS
  p1 = p1  p2 = p2  p3 = p3  aPub = aPub
  NoPeer = NoPeer
  Peers <- MCPeers
  Addrs <- MCAddrs
  DialAddrs <- MCAddrs
  Workers = {w1, w2}
  Writers = {x1}
  Handlers = {h1}
  Exchanges <- MCExchanges
  TaskCap = 1
  Emissions <- MCBootstrap
  Outcomes <- MCOutcomes
  Limits = {0}
  DuplicateProcessing = FALSE
\* A run ends, and a crawler may wait for ever for a monitor that has stopped.
CHECK_DEADLOCK FALSE
INVARIANTS BusyAccounting NaturalEndComplete
PROPERTIES WorkersGetThrough ShutdownEnds
