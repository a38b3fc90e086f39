CONSTANTS
  c1 = c1
  c2 = c2
  Callers = {c1, c2}
  MaxRuns = 2
  MaxRequests = 4
  MaxLearnt = 0
  MaxFaults = 0
  MaxLeft = 0
  MaxRestarts = 0
SPECIFICATION FairSpec
CHECK_DEADLOCK FALSE
INVARIANT OffIsTold
