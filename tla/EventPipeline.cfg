CONSTANTS
  Events = {e1}
  Requests = {r1}
  Slots = {s1, s2}
  MaxAttempts = 2
  MaxStalled = 1
  MaxRetries = 1
  MaxCrashes = 1
  Lapsing <- OwnJobs
SPECIFICATION Spec
SYMMETRY Symmetry
INVARIANTS
  TypeOK
  AckedIsAccepted
  CompletedIsApplied
  StartBudget
  OneRunPerJob
  RetryIsNotFirst
PROPERTY DeliverySpec
CHECK_DEADLOCK FALSE
