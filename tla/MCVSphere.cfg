SPECIFICATION FairSpec
CONSTANTS
  Objects <- MCObjects
  Root = "root"
  Children <- MCChildren
  Watched = {"host", "vm"}
  Filtered = {"other"}
  PoolSize = 1
  Batch = 2
  Interval = 1
  VacuumAge = 2
  MaxQueue = 1
  MaxChanges = 2
  MaxFailures = 1
  MaxSessionDeaths = 1
PROPERTIES  Forgotten
CHECK_DEADLOCK FALSE
