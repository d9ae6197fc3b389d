SPECIFICATION SignedSpec
CONSTANTS
  deployer = deployer
  owner = owner
  Callers = {deployer, owner}
  FirstAdmin = deployer
  Hashes = {"zero", "h1", "h2"}
  ZeroHash = "zero"
  DocumentLists <- SomeLists
  MaxDocuments = 1
  MaxProjects = 2
  CallBound = 3
  MaxSigned = 1
INVARIANTS
  RegistryTypeOK
  OwnerIndexExact
  ApprovalMeetsReviewedContent
PROPERTIES
  ApprovalByAdminOnly
CHECK_DEADLOCK FALSE
