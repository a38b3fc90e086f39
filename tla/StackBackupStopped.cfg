CONSTANTS
  one = one
  two = two
  web = web
  db = db
  Hosts = {one, two}
  Projects = {web, db}
  Disks <- MCDisks
  Attempts = 2
  MaxVersion = 1
  MaxEdits = 1
  MaxFaults = 0
  MaxStops = 1
SPECIFICATION FairSpec
CHECK_DEADLOCK FALSE
PROPERTY AlwaysSettles
