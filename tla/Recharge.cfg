SPECIFICATION LiveSpec
CONSTANTS
  Sessions = {s1}
  MaxAttempts = 2
  Cards = {c1}
  Pollers = {p1, p2}
  Null = null
  TopUp = 1
  Amounts = {1}
  Threshold = 2
  StartBalance = 1
  MaxDebits = 2
  Lease = 1
  CallTime = 1
  SuccessCooldown = 1
  FailureCooldown = 2
  MaxFailures = 2
  MaxTime = 2
CHECK_DEADLOCK FALSE
INVARIANTS
  AttemptsAreExclusive
  BalanceMatchesLedger
  
PROPERTY
  CreditsPayments
