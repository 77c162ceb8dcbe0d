CONSTANTS
  Subs = {s1, s2}
  Backends = {b1}
  None = None
  Capacities = {1}
  Workers = {w1}
  Plans = {TRUE}
  Kinds = {"pay", "expire", "delete"}
  Faults = FALSE
  MaxJobs = 4
  MaxCrashes = 0
  MaxEdits = 0
SPECIFICATION Spec
INVARIANT ActiveHasBucket
CHECK_DEADLOCK FALSE
