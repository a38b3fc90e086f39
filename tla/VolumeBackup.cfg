CONSTANTS
  Containers <- MCContainers
  Protected <- MCProtected
  Sources <- MCSources
  Uses <- MCUses
  MaxJobs = 1
  MaxStarts = 2
  MaxRestarts = 1
  MaxOutside = 1
SPECIFICATION FairSpec
CHECK_DEADLOCK FALSE
INVARIANTS
  TypeOK
  OneOutage
  QuietOrNamed
  NewestKept
PROPERTIES
  BackOnSuccess
  OutageEnds
  JobsEnd
