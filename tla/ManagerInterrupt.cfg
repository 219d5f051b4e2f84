SPECIFICATION FairSpec
CONSTANTS
  MaxKeys = 0
PROPERTY InterruptEnds
CHECK_DEADLOCK FALSE
