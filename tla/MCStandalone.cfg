SPECIFICATION FairSpec
CONSTANTS
  Configs <- MCConfigs
  Arrivals <- MCArrivals
  MaxCredit = 2
  MaxRequests = 1
  MaxFaults = 1
INVARIANTS
  InOrder
  RowsAccounted
  FinishOrder
  CrashLosesNothing
  StoredOnce
PROPERTY RequestServed
CHECK_DEADLOCK FALSE
