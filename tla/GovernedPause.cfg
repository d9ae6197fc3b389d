SPECIFICATION FairSpec
CONSTANTS
  s1 = s1
  s2 = s2
  w = w
  keeper = keeper
  owner = owner
  governance = governance
  registry = registry
  Signers = {s1, s2}
  Others = {w, keeper}
  Keeper = keeper
  Voters = {w}
  Threshold = 1
  TimelockSeconds = 1
  CriticalTimelock = 1
  EmergencyTimelock = 1
  Targets = {registry}
  Methods = {"pause"}
  Args <- SomeArgs
  NoArgs = noargs
  TrackConfigs = {}
  Weights = {}
  FirstLedger = 1
  MaxLedger = 3
  MaxProposals = 2
  NonceBound <- CouncilNonces
  Callers = {governance, owner}
  FirstAdmin = governance
  Hashes = {"zero", "h1"}
  ZeroHash = "zero"
  DocumentLists = {}
  MaxDocuments = 1
  MaxProjects = 1
  CallBound = 2
  LastCall = 2
PROPERTIES
  QueuedPauseTakesEffect
CHECK_DEADLOCK FALSE
