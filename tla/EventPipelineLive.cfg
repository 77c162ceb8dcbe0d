CONSTANTS
  Events = {e1}
  Requests = {r1, r2}
  Slots = {s1}
  MaxAttempts = 2
  MaxStalled = 1
  MaxRetries = 1
  MaxCrashes = 1
  Lapsing <- OwnJobs
SPECIFICATION FairSpec
PROPERTY DeliveryFairSpec
CHECK_DEADLOCK FALSE
