\* Overlapping handlers of every kind on two devices, with failing database calls.
SPECIFICATION Spec
SYMMETRY Symmetry
CHECK_DEADLOCK FALSE
CONSTANTS
  Devices = {d1, d2}
  Workers = {w1, w2}
  Home = home
  AwayNodes = {}
  Parts = {"normal"}
  Profiles = {own, p1}
  Own = own
  Logins = {c1, c2}
  None = none
  Capacity = 2
  Kinds = {"sync", "revoke", "suspend", "delete", "pay"}
  MaxJobs = 3
  MaxCrashes = 0
  ProviderFails = TRUE
  StoreFails = TRUE
INVARIANTS
  ReadyIsLive
  EndedNotReady
