CONSTANTS
  p1 = p1
  p2 = p2
  u1 = u1
  Paths = {p1, p2}
  OnGitHub = {p1, p2}
  Urls = {u1}
  UrlOf <- MCUrlOf
  Nobody = Nobody
  MaxCommits = 1
  MaxFailures = 1
SPECIFICATION FairSpec
CHECK_DEADLOCK FALSE
INVARIANTS
  TypeOK
  BehindIsBehind
PROPERTIES
  TruthReturns
