SPECIFICATION Spec
CONSTANTS
  Checks <- MCChecks
  FailedChecks = {"c2"}
  NbInstances <- MCNbInstances
  Interval <- MCInterval
  MaxRuns = 2
INVARIANTS PostedOnce FailureContained StatusRight WarningsOwn MetadataOwn MetadataFits
CHECK_DEADLOCK FALSE
