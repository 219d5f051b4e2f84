\* Ordering and accounting: three GOPs, the last one cut short.
SPECIFICATION Spec
CONSTANTS
  NumFrames = 5
  GopSize = 2
  StallTimeout = 0
  Faults <- LossOnly
INVARIANTS OrderInv OrderedUnlessGap GaplessIsComplete LossesCounted
CHECK_DEADLOCK FALSE
