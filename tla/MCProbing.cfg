\* Up to four visits over two ticks of the clock; a crawl finds the peer at two addresses.
\* Clock and visits are bounded, and a monitor may stop.
CHECK_DEADLOCK FALSE
SPECIFICATION Spec
CONSTANTS
  Peer = {p1}
  Writer = {"w1", "w2"}
  MonitorWriter = {"w1", "w2"}
  CrawlWriter = {"w2"}
  Workers = {"d1"}
  Addr = {"a", "b"}
  Errors = {"timeout", "peer_id_mismatch", "canceled"}
  NetErrors = {"timeout", "peer_id_mismatch"}
  CrawlErrors = {"timeout"}
  Permanent = {"peer_id_mismatch"}
  Grace <- MCGrace
  MinInterval = 1
  MaxInterval = 2
  CrawlAddrs <- MCCrawlAddrs
  MaxTime = 2
  MaxVisits = 4
INVARIANTS SessionsSumUp SessionsEndForAReason VerdictsAreReal
PROPERTY DueIsProbed
