\* Monitoring two peers over two successful queries, cancelled at any time.
SPECIFICATION MonFairSpec
CONSTANTS
  p1 = p1  p2 = p2  aPriv = aPriv  aPub = aPub
  NoPeer = NoPeer
  Peers <- MCPeers
  Addrs <- MCAddrs
  DialAddrs <- MCDialAddrs
  AddrsOf <- MCAddrsOf
  Workers = {w1, w2}
  Writers = {x1}
  Emissions <- MCNoEmission
  Outcomes <- MCDialOutcomes
  Limits = {0}
  DuplicateProcessing = TRUE
  MaxRounds = 2
\* After MaxRounds queries the driver only waits for a cancellation.
CHECK_DEADLOCK FALSE
INVARIANTS InflightIsHeld NoSendAfterClose
PROPERTIES TaskReachesWorker MonitorStops
