\* A counter of 6 values that wraps, two recordings.
SPECIFICATION SequenceSpec
CONSTANTS
  Modulus = 6
  GopSize = 2
  KeepGroups = 2
  NumLanes = 2
  MaxPosition = 9
  MaxRecordings = 2
INVARIANTS TypeOK SourceIsPosition GroupsBalance OneIdrPerGroup CaptureCountsLosses
CHECK_DEADLOCK FALSE
