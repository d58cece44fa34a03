\* Every safety property, every action property and termination.
SPECIFICATION ObservedSpec
CONSTANTS
  AnyChar <- MCAnyChar
  UserContinuation <- MCUserContinuation
  UserTransform <- MCUserTransform
  UserThrows <- MCUserThrows
  Roots <- MCRoots
  Inputs <- MCInputs
  Produce <- MCProduce
  Counted <- MCCounted
INVARIANTS
  TypeOK
  EmptySuccessKeepsState
  ConsumedMeansProgress
  PositionsFollowInput
  UserStateFollowsInput
  ErrorsPointAhead
  FailuresSpeak
  PredictiveParsing
PROPERTIES
  FailureReportsConsumption
  CommittedFailurePropagates
  FurthestErrorSurvives
  Termination
