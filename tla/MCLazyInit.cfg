\* Three threads share a lazy parser; its producer may throw.
SPECIFICATION FairSpec
CONSTANTS
  t1 = t1
  t2 = t2
  t3 = t3
  Threads <- MCThreads
INVARIANTS
  TypeOK
  ParsesTheOneParser
PROPERTIES
  ParserNeverReplaced
  ImplementsOnceCell
  EveryCallReturns
