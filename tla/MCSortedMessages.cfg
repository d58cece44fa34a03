\* error.hpp:71 says that the vectors merged are sorted.
SPECIFICATION ObservedSpec
CONSTANTS
  AnyChar <- MCAnyChar
  UserContinuation <- MCUserContinuation
  UserTransform <- MCUserTransform
  UserThrows <- MCUserThrows
  Roots <- MCRoots
  Inputs <- MCInputs
  Produce <- MCProduce
  Counted <- MCCounted
INVARIANT MergesSortedMessages
