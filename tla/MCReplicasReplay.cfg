SPECIFICATION Spec
CONSTANTS
  r1 = r1
  r2 = r2
  c1 = c1
  c2 = c2
  i1 = i1
  i2 = i2
  NoInstance = NoInstance
  BatchIds = {1}
  ClaimIds = {c1, c2}
  Instances = {i1, i2}
  Stages = {}
  Payloads = {}
  LeaseTtl = 1
  U32Max = 3
  Replicas = {r1, r2}
  Commands <- RaceCommands
  MaxLog = 4
  MaxCrashes = 1
SYMMETRY ReplicaSymmetry
CHECK_DEADLOCK FALSE
INVARIANT ReplaysAgreeOnOwners
