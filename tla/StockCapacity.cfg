SPECIFICATION Spec
CONSTANTS
  p1 = p1  l1 = l1  l2 = l2  l3 = l3
  r1 = r1  r2 = r2  none = none  t1 = t1
  Products = {p1}
  Locations = {l1, l2}
  NoLocation = none
  Quantities = {1, 2}
  Tenants = {t1}
  TenantOf <- OneTenant
  Facility = {}
  Requests = {r1, r2}
  NoRequest = none
  NoMovement = none
  Unlimited = none
  Capacity <- L2Bounded
  Opening <- TwoOrOne
  w1 = w1  w2 = w2  junk = junk
  Warehouses = {w1, w2}
  WarehouseOf <- TwoFacilities
  NoCost = none
  CostOf <- Costs
  UnitCost <- CatalogueCost
  Reorder <- ReorderAtOne
  Thresholds = {2, junk}
INVARIANTS CapacityRespected
