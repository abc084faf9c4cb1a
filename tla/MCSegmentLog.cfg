SPECIFICATION Spec
CONSTANTS
  Term = {1, 2}
  SegmentSize = 1
  MaxIndex = 5
  MaxCrash = 2
  Faults = {"torn_meta"}
  NoRequest = NoRequest
INVARIANTS
  ClosedComplete
  NoHoles
  ReadsBack
  FailsOnlyMidUpdate
PROPERTIES
  RefinesDurableLog
CHECK_DEADLOCK FALSE
