SPECIFICATION LiveSpec
CONSTANTS
  a = a
  b = b
  Slugs = {a, b}
  InitialSlugs <- OneModel
  CompareLimit = 2
  Deltas = 1
  MaxSends = 2
INVARIANTS
  RepliesInOwnTurn
  StopReachesEveryStream
  KeyDiesWithItsRoute
PROPERTIES
  AbortEndsExchange
  StopFreesComposer
\* Every prompt of the bound may be answered.
CHECK_DEADLOCK FALSE
