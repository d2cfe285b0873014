SPECIFICATION FairSpec
CONSTANTS
  p1 = p1  q1 = q1  l1 = l1  l2 = l2  a = a  b = b  n = n  t1 = t1
  w1 = w1  w2 = w2  junk = junk  r1 = r1  r2 = r2  none = none
  Products = {p1, q1}
  Locations = {l1, l2}
  NoLocation = none
  Quantities = {1, 2}
  Tenants = {t1}
  TenantOf <- OneTenant
  Facility = {l1, l2}
  Warehouses = {w1, w2}
  WarehouseOf <- Facilities
  NoExpiry = none
  Expiry <- Dates
  Days = {0, 1}
  Windows = {0, junk}
  Opening <- TwoEach
  Lots = {a, b, n}
  LotProduct <- P1Lots
  LotOpening <- TwoAndOne
  Age <- Ages
  NoLot = none
  Tracking <- Modes
  Requests = {r1, r2}
  Nobody = none
  NoCall = none
  Calls <- LotCalls
INVARIANTS LotsTraced LineageComplete DrainedInOrder DriftIsUntracked
PROPERTIES ImplementsLotLedger CallsEnd
