SPECIFICATION Spec
CONSTANTS
  Types = {"g", "ct", "ct-c", "c", "h", "s", "_dd-r"}
  Values = {0, 1, 3}
  Weights = {1, 2}
  Percentiles = {5, 25, 95}
  Expiry = 1
  MaxTime = 2
  MaxSamples = 4
INVARIANT ReportsReference
CHECK_DEADLOCK FALSE
