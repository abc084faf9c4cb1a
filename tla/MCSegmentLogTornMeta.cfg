SPECIFICATION Spec
CONSTANTS
  Term = {1, 2}
  SegmentSize = 1
  MaxIndex = 3
  MaxCrash = 1
  Faults = {"torn_meta"}
  NoRequest = NoRequest
INVARIANTS
  FirstIndexReadable
CHECK_DEADLOCK FALSE
