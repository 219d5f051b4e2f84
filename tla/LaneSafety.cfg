\* Two recordings on a lane whose pipeline may fail.
SPECIFICATION FairSpec
CONSTANTS
  s1 = s1
  s2 = s2
  Slots <- TwoSlots
  DepthModulus = 8
  SinkBuffers = 1
  PipelineFaults = TRUE
  CaptureDuringStop = FALSE
  MaxFrames = 3
  MaxRecordings = 2
INVARIANTS TypeOK SlotHasOneOwner ChunksInSubmissionOrder StopFlushes NoFrameForgotten
PROPERTIES FrameComesOut ImplementsContract
CHECK_DEADLOCK FALSE
