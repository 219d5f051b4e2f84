SPECIFICATION Spec
CONSTANTS
  s1 = s1
  s2 = s2
  Slots <- TwoSlots
  DepthModulus = 8
  SinkBuffers = 1
  PipelineFaults = FALSE
  CaptureDuringStop = TRUE
  MaxFrames = 2
  MaxRecordings = 2
INVARIANTS NoStaleFrames
CHECK_DEADLOCK FALSE
