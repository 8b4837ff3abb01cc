SPECIFICATION FairSpec
CONSTANTS
  i1 = i1
  i2 = i2
  NoInstance = NoInstance
  NoClaim = 0
  BatchIds = {1}
  ClaimIds = {1, 2, 3, 4}
  Instances = {i1}
  Followers = {}
  Stages = {0}
  Payloads = {1, 2, 3, 4}
  LeaseTtl = 1
  U32Max = 1
  RowsPerBatch = 1
  SaveStages <- DataOnly
  SweepInterval = 2
  IdlePause = 1
  MaxConflictRetries = 2
  MaxSkew = 1
  MaxNow = 2
  MaxFaults = 1
PROPERTIES OrphanedLeaseRecycled
