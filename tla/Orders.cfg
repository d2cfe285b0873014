SPECIFICATION Spec
CONSTANTS
  p1 = p1  l1 = l1  l2 = l2  t1 = t1  w1 = w1  none = none
  so = so  po = po  d1 = d1  d2 = d2  g1 = g1  s1 = s1  s2 = s2
  Products = {p1}
  Locations = {l1}
  NoLocation = none
  Quantities = {1}
  Tenants = {t1}
  TenantOf <- OneTenant
  Facility = {l1}
  Warehouses = {w1}
  WarehouseOf <- OneFacility
  Opening <- TwoEach
  Orders = {so, po}
  Sales = {so}
  Documents = {d1, d2, g1}
  OrderOf <- DocumentOrder
  SiteOf <- DocumentSite
  Ordered <- Two
  UnitPrice <- PriceOfOne
  Sessions = {s1, s2}
  MaxHeld = 1
  MaxDirect = 1
  MaxTimes = 1
SYMMETRY SessionSymmetry
INVARIANTS DoneMeansMoved ExactWhenAlone OrdersInv BacklogReported
PROPERTIES ClosedOrdersStay
