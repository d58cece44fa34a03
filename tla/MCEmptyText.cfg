\* prim.hpp:137 says that many is guarded against empty successes.
SPECIFICATION ObservedSpec
CONSTANTS
  AnyChar <- MCAnyChar
  UserContinuation <- MCUserContinuation
  UserTransform <- MCUserTransform
  UserThrows <- MCUserThrows
  Roots <- EmptyTextRoots
  Inputs <- MCInputs
  Produce <- MCProduce
  Counted <- MCCounted
PROPERTY Termination
