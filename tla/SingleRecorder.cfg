\* Both kinds of codec, failing pipelines, two recordings.
SPECIFICATION FairSpec
CONSTANTS
  PoolSize = 2
  PipelineFaults = TRUE
  MaxFrames = 4
  MaxRecordings = 2
INVARIANTS TypeOK SlotHasOneOwner StopFlushes
PROPERTIES ImplementsContract StopReturnsIfWoken
CHECK_DEADLOCK FALSE
