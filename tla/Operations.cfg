SPECIFICATION OperationsFair
CONSTANTS
  p1 = p1  p2 = p2  px = px  l1 = l1  l2 = l2  k1 = k1  t1 = t1
  c1 = c1  c2 = c2  none = none
  Products = {p1, p2}
  Locations = {l1, l2}
  NoLocation = none
  Quantities = {1, 2, 3}
  Tenants = {t1}
  TenantOf <- OneTenant
  Facility = {}
  Opening <- TwoOfP1AtL1
  Missing = px
  Unlimited = Unlimited
  Capacity <- TwoFitAtL2
  Keys = {k1}
  Callers = {c1, c2}
  Nobody = none
  Batches <- SomeBatches
  NoBatch = NoBatch
  Jobs = {c2}
  Contexts = {"0", "t1"}
  ContextOf <- JobHasNoTenant
  Entries <- P1AtL1
  PatternDelete = TRUE
  Absent = Absent
CHECK_DEADLOCK FALSE
INVARIANTS OperationsTypeOK ReportsExplainStock FailFastIsWhole JobTellsTruth StaleHasACause
PROPERTIES AdjustedAsAsked JobsSettle
