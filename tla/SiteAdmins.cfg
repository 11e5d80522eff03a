SPECIFICATION Spec
CONSTANTS
  Users = {op, u1, u2}
  FirstOperator = op
  Handlers = {h1, h2}
  MaxKeys = 2
  MaxRequests = 5
  Null = null
CHECK_DEADLOCK FALSE
INVARIANTS
  NoRevival
  BannedHoldNoKey
PROPERTIES
  OperatorRemains
