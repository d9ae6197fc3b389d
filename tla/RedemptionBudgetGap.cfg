SPECIFICATION Spec
CONSTANTS
  a = a
  b = b
  admin = admin
  Holders <- TwoHolders
  Admin = admin
  FaceValue = 2
  TotalSupply = 3
  MaturityDate = 1
  DefaultPrincipal = 1
  DefaultCycle = 2
  Budgets <- SomeBudgets
  Amounts = {1, 2, 4}
  Keys = {0, 1}
  Limits = {0, 1, 2}
  MaxBatch = 2
  MaxLedger = 2
  NonceBound <- ProgressNonces
  MaxPool = 6
  MaxRequests = 3
CHECK_DEADLOCK FALSE
INVARIANT
  BudgetCoversPosition
