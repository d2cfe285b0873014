SPECIFICATION Spec
CONSTANTS
  t1 = t1  t2 = t2  owen = owen  cora = cora  vic = vic  vi2 = vi2
  r1 = r1  r2 = r2  r3 = r3
  Users = {owen, cora, vic, vi2}
  Tenants = {t1, t2}
  OtherRows <- TwoTables
  EmailOf <- OneAddress
  Platform = Platform
  Requests = {r1, r2, r3}
  Calls <- SomeCalls
  NoCall = NoCall
  NoRow = NoRow
  Opening <- SomeRows
SYMMETRY AnyRequest
CHECK_DEADLOCK FALSE
INVARIANTS TenancyTypeOK LinkWorksOnce InvitationSettlesOnce
PROPERTIES ChangesAreAsked OwnersComeFromOwners
