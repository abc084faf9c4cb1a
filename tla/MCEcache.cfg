SPECIFICATION Spec
CONSTANTS
  Threads = {t1, t2}
  Pools = {a, b}
  Names <- MCNames
  Fields = {1, 2}
  Ttls = {0, 1}
  Cap <- MCCap
  Empty = {2}
  HashOrder <- MCHashOrder
  Menu <- MCMenu
  MaxTime = 1
  MaxStarts = 2
  Faults = {}
  None = None
SYMMETRY MCSymmetry
INVARIANTS
  ViewsAlive
  
PROPERTIES
  ReadsFresh
  
CHECK_DEADLOCK FALSE
