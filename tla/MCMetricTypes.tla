--------------------------- MODULE MCMetricTypes ---------------------------
EXTENDS MetricTypes
=============================================================================
