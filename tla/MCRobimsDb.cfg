SPECIFICATION Spec
CONSTANTS
  LocalId <- MCLocalId
  FloatWidth = 3
  Alphabet <- MCAlphabet
  RealId = {"p", "q"}
  Schemas <- MCSchemas
  Start <- MCStart
  Descs <- MCDescs
  Docs <- MCDocs
  Queries <- MCQueries
  Asked <- MCAsked
  CacheSize = 1
  Budget <- MCBudget
  MaxOps = 5
  Faults = {}
INVARIANT IdBijection
INVARIANT AnswersMatch
INVARIANT CacheResolves
PROPERTY LoadExact
CHECK_DEADLOCK FALSE
