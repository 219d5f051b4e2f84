SPECIFICATION Spec
CONSTANTS
  Paths = {"encoded"}
  Ring = 2
  PoolSize = 2
  CudaFaults = FALSE
  MaxFrames = 4
INVARIANT OwnPicture
CHECK_DEADLOCK FALSE
