\* One handler at a time and nothing fails at all.
SPECIFICATION Spec
SYMMETRY Symmetry
CHECK_DEADLOCK FALSE
CONSTANTS
  Devices = {d1}
  Workers = {w1}
  Home = home
  AwayNodes = {}
  Parts = {"normal"}
  Profiles = {p1}
  Own = own
  Logins = {c1, c2}
  None = none
  Capacity = 2
  Kinds = {"sync", "revoke", "pay"}
  MaxJobs = 5
  MaxCrashes = 0
  ProviderFails = FALSE
  StoreFails = FALSE
INVARIANTS
  RevokedHasNoClient
