\* Three key presses at any time, errors of every thread, the shutdown and the exit.
SPECIFICATION FairSpec
CONSTANTS
  MaxKeys = 3
INVARIANTS TypeOK CameraClosedFirst NothingRecordsAtExit
PROPERTIES ShutdownCompletes ShutdownRequestsEnd
CHECK_DEADLOCK FALSE
