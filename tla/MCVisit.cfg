\* A visit that may be cancelled at any time.
SPECIFICATION VisitFairSpec
CONSTANT MaxIPs = 3
\* A visit ends.
CHECK_DEADLOCK FALSE
INVARIANTS NetworkReleased  ExposureIsReal
PROPERTY VisitEnds
