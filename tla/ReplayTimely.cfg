SPECIFICATION LiveSpec
CONSTANTS
  Null = Null
  c1 = c1
  c2 = c2
  c3 = c3
  c4 = c4
  body1 = body1
  body2 = body2
  Callers = {c1, c2, c3}
  Contents = {body1, body2}
  Lease = 2
  Timeout = 1
  Retention = 2
  LastClaim = 4
  MaxTime = 6
INVARIANTS
  
  ReplayedExactly
PROPERTIES
  PublishedStays
  JoinersReleased
\* The clock and the submissions are bounded, so the instance may stop.
CHECK_DEADLOCK FALSE
