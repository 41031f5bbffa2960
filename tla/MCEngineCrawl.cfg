\* A crawl that may be cancelled at any time.
SPECIFICATION FairSpec
CONSTANTS
  p1 = p1  p2 = p2  p3 = p3  aPriv = aPriv  aPub = aPub
  NoPeer = NoPeer
  Peers <- MCPeers
  Addrs <- MCAddrs
  DialAddrs <- MCDialAddrs
  Workers = {w1, w2}
  Writers = {x1, x2}
  Emissions <- MCBootstrap
  Outcomes <- MCOutcomes
  Limits = {0, 2}
  DuplicateProcessing = FALSE
\* A cancelled run may stop for good: see CancelReturns.
CHECK_DEADLOCK FALSE
INVARIANTS TypeOK InflightIsHeld NeverTwice ResultsConserved ClosedForGood QueueKnowsAddresses
  NaturalEndComplete PoolsGone
PROPERTIES ParkedLast ImplementsLife RunEnds
