SPECIFICATION Spec
CONSTANTS
  Procs <- MCProcs
  SetupFails = {}
  VarName = {}
  Files <- MCFiles
  MaxLoads = 1
  Run = {}
  Calls <- NoCalls
  Given = {}
  Params <- NoParams
  Timed = {}
  MayFail = {}
INVARIANTS
  BuiltAcyclic
  EdgesDeclared
CHECK_DEADLOCK FALSE
