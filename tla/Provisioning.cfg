CONSTANTS
  Subs = {s1, s2}
  Backends = {b1}
  None = None
  Capacities = {1, 2}
  Workers = {w1, w2}
  Plans = {TRUE}
  Kinds = {"pay", "cancel", "plan", "delete"}
  Faults = TRUE
  MaxJobs = 3
  MaxCrashes = 0
  MaxEdits = 1
SPECIFICATION Spec
SYMMETRY Symmetry
INVARIANTS
  TypeOK
  LoadWithinCapacity
  CountedOnce
CHECK_DEADLOCK FALSE
