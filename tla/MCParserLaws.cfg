\* The hand-written combinators against their definitions.
SPECIFICATION LawSpec
CONSTANTS
  AnyChar <- MCAnyChar
  UserContinuation <- MCUserContinuation
  UserTransform <- MCUserTransform
  UserThrows <- MCUserThrows
  Roots <- MCRoots
  Inputs <- MCInputs
  Produce <- MCProduce
  Laws <- MCLaws
INVARIANTS
  SameParse
  SameFailure
