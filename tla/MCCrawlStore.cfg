\* Both clients, two writers that share what they look up, full caches, two failing
\* calls, two signals at any time.  The command ends.
CHECK_DEADLOCK FALSE
SPECIFICATION Spec
CONSTANTS
  Peer = {"p1", "p2"}
  Agent = {"v"}
  Protocol = {"a"}
  Writer = {w1, w2}
  Client = {"postgres", "json"}
  VisitOf <- MCVisitOf
  CacheSize = 1
  MaxFailures = 2
INVARIANTS ReferencesHold NeighborsComplete ReportsAreWhole
PROPERTY CommandReturns
