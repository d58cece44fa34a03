\* README.md: the examples take arithmetic and JSON, with blanks or without.
SPECIFICATION TaskSpec
CONSTANTS
  AnyChar <- MCAnyChar
  UserContinuation <- MCUserContinuation
  UserTransform <- MCUserTransform
  UserThrows <- MCUserThrows
  Roots <- MCRoots
  Inputs <- MCInputs
  Produce <- MCProduce
  Counted <- MCCounted
  Tasks <- MCTasks
  Meaning <- MCMeaning
  Numbers <- MCNumbers
  LLongMax = 99
  DoubleExp = 3
INVARIANTS
  BlanksAreTaken
