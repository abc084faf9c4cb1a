SPECIFICATION Spec
CONSTANTS
  Id = {0, 1, 2}
  MinInt = 1
  MaxInt = 7
  LimitTopK = 2
  Input <- MCInput
INVARIANTS
  RangesMatch
  TopKSound
PROPERTY
  PutStores
CHECK_DEADLOCK FALSE
