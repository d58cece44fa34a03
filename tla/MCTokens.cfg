\* The token parsers of several languages on all short texts.
SPECIFICATION TaskSpec
CONSTANTS
  AnyChar <- MCAnyChar
  UserContinuation <- MCUserContinuation
  UserTransform <- MCUserTransform
  UserThrows <- MCUserThrows
  Roots <- MCRoots
  Inputs <- MCInputs
  Produce <- MCProduce
  Counted <- MCCounted
  Accepts <- MCAccepts
  Tasks <- MCTasks
  LLongMax = 99
  DoubleExp = 3
INVARIANTS
  WhiteSpaceEndsAtNextToken
  WordOrReserved
  IntegersDenote
  FloatsDenote
  LiteralEndsAtItsQuote
  SpacingIsIrrelevant
PROPERTY Termination
