SPECIFICATION FairSpec
CONSTANTS
  s1 = s1
  s2 = s2
  Slots <- TwoSlots
  DepthModulus = 8
  SinkBuffers = 1
  PipelineFaults = FALSE
  CaptureDuringStop = FALSE
  MaxFrames = 1
  MaxRecordings = 1
PROPERTIES StopReturns
CHECK_DEADLOCK FALSE
