CONSTANTS
  c1 = c1
  c2 = c2
  Callers = {c1}
  MaxRuns = 2
  MaxRequests = 3
  MaxLearnt = 1
  MaxFaults = 1
  MaxLeft = 1
  MaxRestarts = 1
SPECIFICATION FairSpec
CHECK_DEADLOCK FALSE
INVARIANTS
  TypeOK
  OneLive
  SavedOrDirty
PROPERTIES
  OffIsOff
  OnIsOn
