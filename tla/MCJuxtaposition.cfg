\* chainl1 with an operator that takes no input, against Parsec's definition.
SPECIFICATION LawSpec
CONSTANTS
  AnyChar <- MCAnyChar
  UserContinuation <- MCUserContinuation
  UserTransform <- MCUserTransform
  UserThrows <- MCUserThrows
  Roots <- MCRoots
  Inputs <- MCInputs
  Produce <- MCProduce
  Laws <- JuxtapositionLaws
INVARIANT SameParse
