SPECIFICATION FairSpec
CONSTANTS
  a = a
  b = b
  c = c
  d = d
  e = e
  f = f
  h = h
  R = R
  S = S
  NoGraph = NoGraph
  Root = R
  Vertex <- MCVertex
  Graph <- MCGraph
  GraphOf <- MCGraphOf
  Deps <- MCDeps
  Expected <- MCExpected
  SubGraph <- MCSubGraph
  Processor <- MCProcessor
  NonIO <- MCNonIO
  IgnoreError = {b}
  MaySkip = {d}
  Rejectable = {f}
  HasDeadline = TRUE
INVARIANTS
  DependenciesVisible
  DoneIsLast
PROPERTIES
  ExecuteOnce
  Completion
  RefinesGraphRun
CHECK_DEADLOCK FALSE
