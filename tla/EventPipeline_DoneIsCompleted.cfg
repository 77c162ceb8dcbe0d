CONSTANTS
  Events = {e1}
  Requests = {r1}
  Slots = {s1}
  MaxAttempts = 3
  MaxStalled = 1
  MaxRetries = 1
  MaxCrashes = 2
  Lapsing <- OwnJobs
SPECIFICATION Spec
INVARIANT DoneIsCompleted
CHECK_DEADLOCK FALSE
