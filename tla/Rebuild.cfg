CONSTANTS
  app = app
  agent = agent
  Projects = {app, agent}
  Own = {agent}
  MaxCommits = 1
  MaxJobs = 1
  MaxStarts = 2
  MaxRestarts = 1
SPECIFICATION FairSpec
CHECK_DEADLOCK FALSE
INVARIANTS
  TypeOK
  WaitedAlone
PROPERTIES
  DoneIsPulled
  JobsEnd
