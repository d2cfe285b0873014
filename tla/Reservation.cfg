SPECIFICATION ReportSpec
CONSTANTS
  p1 = p1  l1 = l1  l2 = l2  t1 = t1
  i1 = i1  i2 = i2  v1 = v1  v2 = v2  w1 = w1  none = none
  Products = {p1}
  Locations = {l1}
  NoLocation = none
  Quantities = {1, 2}
  Tenants = {t1}
  TenantOf <- OneTenant
  Facility = {l1}
  Opening <- TwoAndOne
  Reservations = {i1, i2}
  Lots = {}
  NoLot = none
  LotProduct <- NoLots
  LotAge <- NoLots
  LotOpening <- NoLots
  LotTracked = {p1}
  Lifo = {}
  Workers = {v1, v2}
  Nobody = none
  Sweeper = sweeper
  MaxDirect = 1
  Warehouses = {w1}
  WarehouseOf <- OneFacility
  UnitCost <- CatalogueCost
  Asking <- ForTheTenant
  Reorder <- ReorderAtOne
SYMMETRY WorkerSymmetry
INVARIANTS IssuedIffFulfilled ReservationInv ShortagesShow
PROPERTIES ClosedIsFinal
