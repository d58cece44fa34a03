\* README.md:148 says that a mismatched string_ has consumed what matched.
SPECIFICATION ObservedSpec
CONSTANTS
  AnyChar <- MCAnyChar
  UserContinuation <- MCUserContinuation
  UserTransform <- MCUserTransform
  UserThrows <- MCUserThrows
  Roots <- MCRoots
  Inputs <- MCInputs
  Produce <- MCProduce
  Counted <- MCCounted
INVARIANT TokensConsumeWhatMatched
