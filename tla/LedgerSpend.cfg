SPECIFICATION Spec
CONSTANTS
  Null = Null
  r1 = r1
  r2 = r2
  r3 = r3
  k1 = k1
  k2 = k2
  alias1 = alias1
  host1 = host1
  host2 = host2
  byok = byok
  body1 = body1
  body2 = body2
  op1 = op1
  Requests = {r1, r2, r3}
  Ordinals = {1}
  Keys = {k1}
  Identity <- IdentityOf
  KeyLimits <- NoLimits
  Aliases = {alias1}
  Operations = {}
  Contents = {body1}
  Routes = {host1}
  Lane <- LaneOf
  Model <- ModelOf
  Provider <- ProviderOf
  Pool <- PoolOf
  Budgets = {}
  Promotions <- TwoPromotions
  OrgLabels = {}
  DefaultRpm = 60
  FreeOrgCap = 100
  FreeModelCap = 100
  Allowance = 100
  InitialGrant = 2
  Verified = TRUE
  DayTicks = 1
  MonthTicks = 1
  WindowTicks = 1
  GraceTicks = 1
  WorstCases = {2, Null}
  Outputs = {0, 1}
  Outcomes = {"completed"}
  Lifetimes = {2}
  TopUps = {}
  CallerOps = {}
  Finalizes = {TRUE}
  FinishStates = {}
  RevocableKeys = {k1}
  MaxGrant = 3
  LastAccept = 1
  MaxTime = 1
SYMMETRY RequestSymmetry
INVARIANTS
  TypeOK
  BillableIsSettled
  UnknownCostCounted
  
  SettledWithinReserved
\* The clock and the request ids are bounded, so the instance may stop.
CHECK_DEADLOCK FALSE
