SPECIFICATION Spec
CONSTANTS
  s1 = s1
  s2 = s2
  w = w
  keeper = keeper
  owner = owner
  governance = governance
  registry = registry
  Signers = {s1}
  Others = {w, keeper}
  Keeper = keeper
  Voters = {w}
  Threshold = 1
  TimelockSeconds = 1
  CriticalTimelock = 1
  EmergencyTimelock = 1
  Targets = {registry}
  Methods = {"register_project", "reject_project", "resubmit_project",
             "add_project_documents", "pause"}
  Args <- SomeArgs
  NoArgs = noargs
  TrackConfigs = {}
  Weights = {}
  FirstLedger = 1
  MaxLedger = 2
  MaxProposals = 3
  NonceBound <- OwnerNonces
  Callers = {governance}
  FirstAdmin = governance
  Hashes = {"zero", "h1"}
  ZeroHash = "zero"
  DocumentLists = {}
  MaxDocuments = 1
  MaxProjects = 1
  CallBound = 3
  LastCall = 1
INVARIANTS
  ExecutionNonceAccepted
CHECK_DEADLOCK FALSE
