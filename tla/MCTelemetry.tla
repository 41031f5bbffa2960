---------------------------- MODULE MCTelemetry ----------------------------
\* Two gauges: their callbacks are independent of each other.
EXTENDS Telemetry
=============================================================================
