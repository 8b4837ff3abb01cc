SPECIFICATION Spec
CONSTANTS
  c1 = c1
  c2 = c2
  c3 = c3
  i1 = i1
  i2 = i2
  NoInstance = NoInstance
  BatchIds = {1}
  ClaimIds = {c1, c2}
  Instances = {i1, i2}
  Stages = {}
  Payloads = {"p"}
  LeaseTtl = 1
  U32Max = 3
  RowCounts = {1}
  MaxNow = 2
  HeartbeatTimes = {}
  MaxCheckpointSeq = 1
SYMMETRY ClaimSymmetry
INVARIANT PoisonedNeverScanned
