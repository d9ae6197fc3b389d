SPECIFICATION Spec
CONSTANTS
  s1 = s1
  s2 = s2
  w = w
  registry = registry
  Signers = {s1, s2}
  Others = {w}
  Threshold = 1
  TimelockSeconds = 1
  CriticalTimelock = 2
  EmergencyTimelock = 1
  Targets = {registry}
  Methods = {"pause"}
  Args = {"none"}
  NoArgs = "none"
  TrackConfigs <- SomeConfigs
  Weights = {0, 2}
  FirstLedger = 1
  MaxLedger = 2
  MaxProposals = 2
  NonceBound <- CouncilNonces
INVARIANTS
  TypeOK
  ApprovalsCounted
  ExecutionsNumbered
PROPERTIES
  SnapshotPinned
  QueueNeedsQuorum
  DecisionFinal
CHECK_DEADLOCK FALSE
