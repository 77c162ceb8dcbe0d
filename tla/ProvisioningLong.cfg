CONSTANTS
  Subs = {s1}
  Backends = {b1, b2}
  None = None
  Capacities = {1}
  Workers = {w1, w2}
  Plans = {TRUE, FALSE}
  Kinds = {"pay", "expire", "delete", "cleanup"}
  Faults = TRUE
  MaxJobs = 4
  MaxCrashes = 1
  MaxEdits = 0
SPECIFICATION Spec
SYMMETRY Symmetry
INVARIANTS
  BucketLostByDeletion
  DeletedHasNoBucket
PROPERTIES
  StickyBackend
  ReportsCurrentStatus
CHECK_DEADLOCK FALSE
