\* Three lanes, weights 1 and 2, the longest cycle (6 calls) and one call more.
SPECIFICATION Spec
CONSTANTS
  NumLanes = 3
  MaxWeight = 2
  MaxQueue = 1
  PoolSize = 2
  MaxRounds = 7
INVARIANTS TypeOK CreditIsDebt CycleIsExact NeverAGroupAhead
PROPERTIES ChosenLaneIsLight
CHECK_DEADLOCK FALSE
