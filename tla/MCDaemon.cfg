SPECIFICATION FairSpec
CONSTANTS
  MaxCommands = 2
  MaxDeaths = 2
  MaxForkFailures = 1
INVARIANT Supervised
PROPERTIES StopHeeded Revived
CHECK_DEADLOCK FALSE
