SPECIFICATION Spec
CONSTANTS
  Key <- MCKey
  Hash <- MCHash
  Others <- MCOthers
  Variants <- MCVariants
  HashSpace = 16
  FpSpace = 2
  MaxRecords = 7
  MaxOps = 4
  None = None
INVARIANTS
  EntriesReachable
  RecordsIndexed
PROPERTY
  RefinesDictMap
CHECK_DEADLOCK FALSE
