SPECIFICATION Spec
CONSTANTS
  e1 = e1
  e2 = e2
  Endpoints = {e1, e2}
  Targets <- TwoTargets
  Sizes = {1}
  MaxQueueSize = 3
  ThrottlingDelay = 1
  MaxParallelism = 2
  MaxEndpointErrors = 1
  MaxFlushDuration = 2
  ReplayStep = 1
  MaxWaitForReplay = 1
  Second = 1
  MaxPosts = 2
  MaxErrors = 2
  IdleTime = 0
PROPERTY Delivers
INVARIANTS RunningExact FlushHasCallback DueWhenSent DownEndpointSkipped
