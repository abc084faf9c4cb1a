\* One client, two ids, two terms, three entries, one restart.
SPECIFICATION Spec
CONSTANTS
  Client = {"c1"}
  MaxId = 2
  MaxTerm = 2
  MaxLog = 3
  SnapAfter = 2
  SnapStarts = {1}
  MaxStart = 2
  PeerTypes = {"normal", "add"}
  Faults = {}
INVARIANTS
  
  AckedApplied
  AppliedIsReplay
  SnapshotCovers
CHECK_DEADLOCK FALSE
