CONSTANTS
  Editors = {"e1", "e2"}
  SettingsCap = 2
  Tree <- MCTree
  Folders <- MCFolders
  BindMounts <- MCBindMounts
  Deleters = {"d1", "d2"}
  ScanSlots = 1
  MaxScans = 2
  Viewers = {"v1", "v2"}
  MaxCaptures = 2
  MaxDockerFaults = 1
  MaxDeaths = 1
  Paths = {"a", "b"}
  Users = {"u1", "u2"}
  MaxTexts = 3
  MaxRequests = 2
  MaxHelperFaults = 1
  Addresses = {"gw", "x"}
  Gateway = "gw"
  Macs = {"m1", "m2"}
  Servers = {"s1", "s2"}
  LearnTime = 1
  IdleTime = 1
  MaxInfo = 1
  MaxFindings = 2
  MaxKnown = 1
  LastMoment = 2
  Sessions = {"s1", "s2"}
  HostSessions = {"s1"}
  MaxSessions = 1
  MaxRestarts = 1
  QueueSize = 2
  QueueLimit = 2
  MaxChunks = 3
  Projects = {"p", "q"}
  ImageOf <- MCImageOf
  Editable = {"p"}
  Texts = {"one", "two"}
  Release = 1
  MaxJobs = 2
  MaxMishaps = 1
  Askers = {"a1", "a2"}
  Hosts = {"h1", "h2", "h3"}
  Own = "h3"
  Answers = {"h1", "h3"}
  Neighbours = {"h1", "h2"}
  MaxSweeps = 2
  Containers = {"c1"}
  MostWork = 2
  Flows = {"f1", "f2"}
  MaxTracked = 1
  Modulus = 8
  MaxPosition = 10
  Markers <- MCMarkers
  Conversations = {"f1", "f2", "f3"}
  MAX_PPS = 1
  TickFlows = 1
  JobFlows = 2
  MAX_PACKETS = 2
  Second = 2
  Deadline = 5
  Pipe = 3
  MaxFrames = 3
  HourLength = 2
  DayLength = 4
  At = 2
  CheckAfter = 3
  ClockEnd = 7
  MaxWakes = 2
  MaxFailures = 1
  MaxBoots = 1
  Ports = {1, 2}
  TtlUnknown = 1
  TtlNone = 2
  TtlFound = 3
  LinksEnd = 4
  MaxStarts = 2
  Envs = {"env"}
  StackRequests = 3
  MaxFaults = 1
  Loop = "loop"
  MaxRuns = 2
  Asked = 2
  Gap = 1
  Timeout = 2
  PingEnd = 3
  MaxInbox = 2
  Layers = {"l1", "l2"}
  LayerSizes = {1, 3}
  ProjectsOfJob = 2
  Units = 12
  Listed <- MCListed
  KernelTable <- MCTable
  FlowsRead = 3
  RowsShown = 2
SPECIFICATION MCSpec
INVARIANTS TypeOK ScanHonest OneAtATime QuietIsApplied FiguresSane ComputedRight
PROPERTIES SettingsKept TextsKept AlertsKept SlotsReturn FollowersEnd
CHECK_DEADLOCK FALSE
