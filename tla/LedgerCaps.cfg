SPECIFICATION Spec
CONSTANTS
  Null = Null
  r1 = r1
  r2 = r2
  r3 = r3
  k1 = k1
  k2 = k2
  alias1 = alias1
  host1 = host1
  host2 = host2
  byok = byok
  body1 = body1
  body2 = body2
  op1 = op1
  Requests = {r1, r2, r3}
  Ordinals = {1}
  Keys = {k1, k2}
  Identity <- IdentityOf
  KeyLimits <- OneCappedKey
  Aliases = {alias1}
  Operations = {}
  Contents = {body1}
  Routes = {host1, host2}
  Lane <- LaneOf
  Model <- ModelOf
  Provider <- ProviderOf
  Pool <- PoolOf
  Budgets <- TwoBudgets
  Promotions <- NoPromotions
  OrgLabels = {}
  DefaultRpm = 2
  FreeOrgCap = 4
  FreeModelCap = 3
  Allowance = 3
  InitialGrant = 3
  Verified = FALSE
  DayTicks = 1
  MonthTicks = 2
  WindowTicks = 1
  GraceTicks = 1
  WorstCases = {2}
  Outputs = {1}
  Outcomes = {"completed"}
  Lifetimes = {1}
  TopUps = {3}
  CallerOps = {}
  Finalizes = {TRUE}
  FinishStates = {}
  RevocableKeys = {}
  MaxGrant = 6
  LastAccept = 2
  MaxTime = 2
SYMMETRY RequestSymmetry
INVARIANTS
  RatesHeld
  
  
  OneOverdraft
\* The clock and the request ids are bounded, so the instance may stop.
CHECK_DEADLOCK FALSE
