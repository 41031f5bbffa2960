\* Two gauges and an engine that may be cancelled: the panic.
\* The engine stops, and a callback may block after it.
CHECK_DEADLOCK FALSE
SPECIFICATION Spec
CONSTANTS
  Callback = {g1, g2}
INVARIANT NoSendAfterStop
