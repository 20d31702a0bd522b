CONSTANTS
  d1 = d1
  d2 = d2
  r = r
  v1 = v1
  v2 = v2
  old = old
  None = None
  VaultIds = {v1, v2}
  OldOrders <- MCOldOrders
  MaxUint256 = 7
  Jobs = {d1, d2, r}
  Plans <- MCPlans
  Allowances = {0, 1, 4}
  Funds = 4
SPECIFICATION Spec
INVARIANTS
  AllowanceBounded
  StopsInTime
  OrdersHaveTheirVaults
PROPERTIES
  CommandsEnd
CHECK_DEADLOCK FALSE
