CONSTANTS
  Object <- MCObject
  Vars <- MCVars
  Trees <- MCTrees
SPECIFICATION Spec
INVARIANTS
  StackBalanced
  
  
CHECK_DEADLOCK FALSE
