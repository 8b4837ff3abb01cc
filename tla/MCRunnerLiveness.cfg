SPECIFICATION FairSpec
CONSTANTS
  i1 = i1
  i2 = i2
  NoInstance = NoInstance
  NoClaim = 0
  BatchIds = {1, 2}
  ClaimIds = {1, 2, 3, 4}
  Instances = {i1, i2}
  Followers = {i2}
  Stages = {0, 1}
  Payloads = {1, 2, 3, 4}
  LeaseTtl = 1
  U32Max = 1
  RowsPerBatch = 1
  SaveStages <- DataThenState
  SweepInterval = 2
  IdlePause = 1
  MaxConflictRetries = 2
  MaxSkew = 0
  MaxNow = 2
  MaxFaults = 1
INVARIANTS StateHandedBack
PROPERTIES AllRowsDone
ACTION_CONSTRAINTS ChainOrRace
