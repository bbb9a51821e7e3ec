SPECIFICATION FairSpec
CONSTANTS
  counter = counter
  packetCount = packetCount
  Contexts = {counter}
  Counters = {counter}
  PacketCount = packetCount
  Interval = 1
  ReportInterval = 1
  ExpirySeconds = 2
  MaxSamples = 2
  MaxTime = 3
CHECK_DEADLOCK FALSE
INVARIANTS TypeOK ReportedOnce OnePointPerBucket FlushNeverEmpty
PROPERTY EveryBucketFlushed
