CONSTANTS
  p1 = p1
  p2 = p2
  u1 = u1
  Paths = {p1}
  OnGitHub = {p1}
  Urls = {u1}
  UrlOf <- MCUrlOf
  Nobody = Nobody
  MaxCommits = 1
  MaxFailures = 0
SPECIFICATION OwedSpec
CHECK_DEADLOCK FALSE
PROPERTIES
  NextTickLooks
