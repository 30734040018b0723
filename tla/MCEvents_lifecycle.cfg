CONSTANTS
  Events = {e1, e2, e3}
  Requests = {r1, r2, r3}
  TopPlan = 1
  PlanLimits <- MCPlanLimits
  Limits = {1, 3}
  MaxSold = 1
  ReadsBeforeWrites = FALSE
SPECIFICATION Spec
SYMMETRY Symmetric
INVARIANT TypeOK
INVARIANT OverPlanHasACause
INVARIANT SoldIsHonest
CHECK_DEADLOCK FALSE
