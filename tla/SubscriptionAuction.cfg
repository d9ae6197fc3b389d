SPECIFICATION FairSpec
CONSTANTS
  Admin = 0
  Treasury = 9
  Freezable = {1, 9}
  Wallets = {1, 2, 3}
  Identities = {1, 2}
  FaceValue = 2
  TotalSupply = 4
  MaturityDate = 3
  OpenLedger = 1
  CutoffLedger = 2
  IdentityCap = 4
  MaxSupply = 5
  MaxWallets = 3
  Amounts = {0, 1, 3}
  Funds <- SomeFunds
  NonceBound <- SomeNonces
  MaxLedger = 3
  MaxRequest = 4
  MaxCapacity = 8
  MaxLen = 4
INVARIANTS
  ApportionmentFair
  ApportionmentIsHamilton
  TypeOK
  CapitalConserved
  IdentityCapKept
  NeverOversold
  AllocationByTotals
PROPERTIES
  Sealed
  MaturedTrancheRefunds
  CommitmentSettled
CHECK_DEADLOCK FALSE
