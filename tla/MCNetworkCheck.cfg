SPECIFICATION FairSpec
CONSTANTS
  Instances <- MCInstances
  Results <- MCResults
  Evented <- MCEvented
  PoolSize = 2
  Window = 2
  Threshold = 2
  MaxLoopIterations = 2
  Timeout = 0
  MaxStartFailures = 1
  MaxSigterms = 1
INVARIANTS
  TypeOK
  OneAtATime
  AnswerComes
PROPERTIES
  EventsMatch
  
CHECK_DEADLOCK FALSE
