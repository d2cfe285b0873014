SPECIFICATION FairSpec
CONSTANTS
  p1 = p1  l1 = l1  l2 = l2  k1 = k1  k2 = k2  t1 = t1
  i1 = i1  i2 = i2  i3 = i3  w1 = w1  w2 = w2  w3 = w3  none = none
  Products = {p1}
  Locations = {l1}
  NoLocation = none
  Quantities = {2}
  Tenants = {t1}
  TenantOf <- OneTenant
  Facility = {}
  Opening <- ThreeEach
  Reservations = {i1, i2}
  Lots = {k1}
  NoLot = none
  LotProduct <- AllOfP1
  LotAge <- LotAges
  LotOpening <- TwoInEachLot
  LotTracked = {p1}
  Lifo = {}
  Workers = {w1, w2}
  Nobody = none
  Sweeper = sweeper
  MaxDirect = 1
INVARIANTS ShortByDirectOnly NothingOverdrawn
PROPERTIES DueReservationsClose
