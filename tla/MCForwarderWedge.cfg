SPECIFICATION FairSpec
CONSTANTS
  e1 = e1
  e2 = e2
  Endpoints = {e1}
  Targets <- OneTarget
  Sizes = {2}
  MaxQueueSize = 2
  ThrottlingDelay = 1
  MaxParallelism = 1
  MaxEndpointErrors = 2
  MaxFlushDuration = 2
  ReplayStep = 2
  MaxWaitForReplay = 3
  Second = 2
  MaxPosts = 2
  MaxErrors = 0
  IdleTime = 1
PROPERTY EveryFlushEnds
