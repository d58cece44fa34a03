\* identifier and operator_ on reserved names.
SPECIFICATION TaskSpec
CONSTANTS
  AnyChar <- MCAnyChar
  UserContinuation <- MCUserContinuation
  UserTransform <- MCUserTransform
  UserThrows <- MCUserThrows
  Roots <- MCRoots
  Inputs <- MCInputs
  Produce <- MCProduce
  Counted <- MCCounted
  Accepts <- MCAccepts
  Tasks <- ReservedTasks
  LLongMax = 99
  DoubleExp = 3
INVARIANT ReservedNameIsLeft
