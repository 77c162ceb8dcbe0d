\* Two overlapping handlers of one device, with failing calls and a crash.
SPECIFICATION Spec
SYMMETRY Symmetry
CHECK_DEADLOCK FALSE
CONSTANTS
  Devices = {d1}
  Workers = {w1, w2}
  Home = home
  AwayNodes = {a1, a2}
  Parts = {"normal", "away"}
  Profiles = {}
  Own = own
  Logins = {c1, c2, c3}
  None = none
  Capacity = 1
  Kinds = {"sync", "revoke"}
  MaxJobs = 3
  MaxCrashes = 1
  ProviderFails = TRUE
  StoreFails = TRUE
INVARIANTS
  TypeOK
  RowNamesNode
  UndoneIsNotGranted
  NoUnitLeaks
