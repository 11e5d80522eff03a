SPECIFICATION Spec
CONSTANTS
  Null = Null
  r1 = r1
  r2 = r2
  r3 = r3
  k1 = k1
  k2 = k2
  alias1 = alias1
  host1 = host1
  host2 = host2
  byok = byok
  body1 = body1
  body2 = body2
  op1 = op1
  Requests = {r1, r2}
  Ordinals = {1, 2}
  Keys = {k1}
  Identity <- IdentityOf
  KeyLimits <- NoLimits
  Aliases = {alias1}
  Operations = {}
  Contents = {body1}
  Routes = {byok, host1}
  Lane <- LaneOf
  Model <- ModelOf
  Provider <- ProviderOf
  Pool <- PoolOf
  Budgets = {}
  Promotions <- NoPromotions
  OrgLabels = {}
  DefaultRpm = 60
  FreeOrgCap = 100
  FreeModelCap = 100
  Allowance = 100
  InitialGrant = 1
  Verified = TRUE
  DayTicks = 1
  MonthTicks = 2
  WindowTicks = 1
  GraceTicks = 0
  WorstCases = {1}
  Outputs = {1}
  Outcomes = {"completed"}
  Lifetimes = {1}
  TopUps = {}
  CallerOps = {}
  Finalizes = {TRUE, FALSE}
  FinishStates = {"failed"}
  RevocableKeys = {}
  MaxGrant = 9
  LastAccept = 0
  MaxTime = 1
SYMMETRY RequestSymmetry
INVARIANTS
  UsageEventsMatch
  DailyMatchesEvents
PROPERTIES
  LedgerIsFinal
\* The clock and the request ids are bounded, so the instance may stop.
CHECK_DEADLOCK FALSE
