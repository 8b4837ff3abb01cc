SPECIFICATION Spec
CONSTANTS
  Configs <- MCConfigs
  Arrivals <- MCArrivals
  MaxCredit = 2
  MaxRequests = 1
  MaxFaults = 1
INVARIANT FinishedIsDelivered
CHECK_DEADLOCK FALSE
