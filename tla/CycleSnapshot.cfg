SPECIFICATION Spec
CONSTANTS
  p1 = p1  l1 = l1  l2 = l2  t1 = t1  w1 = w1  none = none
  c1 = c1  c2 = c2  s1 = s1  s2 = s2
  Products = {p1}
  Locations = {l1, l2}
  NoLocation = none
  Quantities = {1}
  Tenants = {t1}
  TenantOf <- OneTenant
  Facility = {l1}
  Warehouses = {w1}
  WarehouseOf <- OneFacility
  Opening <- OneInFacility
  Cycles = {c1, c2}
  Scope <- InFacility
  CycleLocation <- WholeAndPart
  Counts = {0, 2}
  Absent = none
  Sessions = {s1, s2}
  MaxDirect = 1
SYMMETRY SessionSymmetry
PROPERTIES SystemQuantityAtCount
CHECK_DEADLOCK FALSE
