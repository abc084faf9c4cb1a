SPECIFICATION Spec
CONSTANTS
  Procs <- MCProcs
  SetupFails = {}
  VarName <- MCVarName
  Files <- MCFiles
  MaxLoads = 3
  Run = {1, 2}
  Calls <- MCCalls
  Given <- MCGiven
  Params <- MCParams
  Timed = {2}
  MayFail = {"w"}
INVARIANTS
  OneHolder
  PooledIsReset
  InputsDelivered
  MovedOnce
CHECK_DEADLOCK FALSE
