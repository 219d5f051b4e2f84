\* Every fault, termination and the refinement: two GOPs.
SPECIFICATION FairSpec
CONSTANTS
  NumFrames = 3
  GopSize = 2
  StallTimeout = 0
  Faults <- AllFaults
INVARIANTS TypeOK OnePlace
PROPERTIES ChunkLeavesBuffer StopTerminates ImplementsOrderedStream
CHECK_DEADLOCK FALSE
