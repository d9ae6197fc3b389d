SPECIFICATION Spec
CONSTANTS
  a = a
  b = b
  admin = admin
  Holders <- TwoHolders
  Admin = admin
  FaceValue = 2
  TotalSupply = 3
  MaturityDate = 1
  DefaultPrincipal = 4
  DefaultCycle = 2
  Budgets <- SomeBudgets
  Amounts <- SomeAmounts
  Keys = {0, 2}
  Limits = {0, 1, 3}
  MaxBatch = 2
  MaxLedger = 2
  NonceBound <- RedemptionNonces
  MaxPool = 6
SYMMETRY HolderSymmetry
CHECK_DEADLOCK FALSE
INVARIANTS
  TypeOK
  SupplyConserved
  ReservationsBacked
  StrictFIFO
  KeysUnique
  QueueNeverJams
  CycleBudgetKept
  CoverageHonest
PROPERTIES
  BurnPaysFace
  CycleMetered
  OnlyHolderSpends
  MaturityGapIdle
