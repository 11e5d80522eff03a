SPECIFICATION LiveSpec
CONSTANTS
  Null = Null
  r1 = r1
  r2 = r2
  r3 = r3
  k1 = k1
  k2 = k2
  alias1 = alias1
  host1 = host1
  host2 = host2
  byok = byok
  body1 = body1
  body2 = body2
  op1 = op1
  Requests = {r1, r2, r3}
  Ordinals = {1}
  Keys = {k1}
  Identity <- IdentityOf
  KeyLimits <- NoLimits
  Aliases = {alias1}
  Operations = {op1}
  Contents = {body1}
  Routes = {host1}
  Lane <- LaneOf
  Model <- ModelOf
  Provider <- ProviderOf
  Pool <- PoolOf
  Budgets = {}
  Promotions <- NoPromotions
  OrgLabels = {}
  DefaultRpm = 60
  FreeOrgCap = 100
  FreeModelCap = 100
  Allowance = 100
  InitialGrant = 1
  Verified = TRUE
  DayTicks = 10
  MonthTicks = 10
  WindowTicks = 1
  GraceTicks = 0
  WorstCases = {1}
  Outputs = {1}
  Outcomes = {"completed"}
  Lifetimes = {0, 1}
  TopUps = {}
  CallerOps = {op1}
  Finalizes = {TRUE}
  FinishStates = {"cancelled"}
  RevocableKeys = {}
  MaxGrant = 9
  LastAccept = 1
  MaxTime = 2
INVARIANTS
  OneLiveOwner
PROPERTIES
  ReservationsReleased
\* The clock and the request ids are bounded, so the instance may stop.
CHECK_DEADLOCK FALSE
