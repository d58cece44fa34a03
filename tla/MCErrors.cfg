\* Errors merged in every order, with at most four messages each.
SPECIFICATION Spec
CONSTANTS
  Slots = {s1, s2}
  Failures <- MCFailures
  Messages <- MCMessages
  Vectors <- MCVectors
  MaxMessages = 4
INVARIANTS
  ReportIgnoresOrder
  DisorderNeverShows
PROPERTIES
  ImplementsMessageSets
  KeepsSorted
