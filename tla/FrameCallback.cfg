SPECIFICATION FairSpec
CONSTANTS
  Paths = {"direct", "pinned", "raw"}
  Ring = 2
  PoolSize = 2
  CudaFaults = TRUE
  MaxFrames = 3
INVARIANTS TypeOK OwnPicture
PROPERTIES DisplayMovesForward PreviewKeepsUp
CHECK_DEADLOCK FALSE
