CONSTANTS
  app = app
  agent = agent
  Projects = {app, agent}
  Own = {agent}
  MaxCommits = 1
  MaxJobs = 1
  MaxStarts = 2
  MaxRestarts = 1
SPECIFICATION Spec
CHECK_DEADLOCK FALSE
INVARIANTS
  OneAtATime
