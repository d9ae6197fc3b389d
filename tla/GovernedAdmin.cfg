SPECIFICATION Spec
CONSTANTS
  s1 = s1
  s2 = s2
  w = w
  keeper = keeper
  owner = owner
  governance = governance
  registry = registry
  Signers = {s1, s2}
  Others = {w, keeper}
  Keeper = keeper
  Voters = {w}
  Threshold = 1
  TimelockSeconds = 1
  CriticalTimelock = 1
  EmergencyTimelock = 1
  Targets = {registry}
  Methods = {"approve_project", "set_admin", "pause"}
  Args <- SomeArgs
  NoArgs = noargs
  TrackConfigs = {}
  Weights = {}
  FirstLedger = 1
  MaxLedger = 3
  MaxProposals = 2
  NonceBound <- CouncilNonces
  Callers = {governance, owner}
  FirstAdmin = governance
  Hashes = {"zero", "h1"}
  ZeroHash = "zero"
  DocumentLists = {}
  MaxDocuments = 1
  MaxProjects = 1
  CallBound = 2
  LastCall = 2
INVARIANTS
  ExecutionNonceAccepted
CHECK_DEADLOCK FALSE
