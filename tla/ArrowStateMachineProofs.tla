----------------------- MODULE ArrowStateMachineProofs ----------------------
(***************************************************************************)
(* What the handlers of the consensus state machine do to a database, as   *)
(* lemmas about single calls: the proofs about ledgers, runners and        *)
(* replicas are built from these.                                          *)
(***************************************************************************)
EXTENDS ArrowStateMachine, TLAPS, FiniteSetTheorems

(* Put keeps a partial function partial. *)
LEMMA PutType ==
  ASSUME NEW S, NEW T, NEW f, IsPartialFn(f, S, T), NEW k \in S, NEW v \in T
  PROVE  IsPartialFn(Put(f, k, v), S, T)
BY DEF Put, IsPartialFn

----------------------------------------------------------------------------
(* Type correctness *)

(* A registration writes a well-typed record. *)
LEMMA RegisterType ==
  ASSUME NEW d, DbType(d), NEW cmd, cmd.batch_id \in BatchIds, cmd.total_rows \in Nat
  PROVE  DbType(ApplyRegisterMasterBatch(d, cmd).db)
<1> DEFINE r == [total_rows |-> cmd.total_rows, checkpoint_seq |-> 0, release_attempts |-> 0,
                 status |-> "Active", poisoned_at |-> NeverPoisoned]
<1>1. r \in MasterBatchRecord
  BY StateMachineAssumption DEF MasterBatchRecord, BatchStatus, NeverPoisoned
<1>2. IsPartialFn(Put(d.batches, cmd.batch_id, r), BatchIds, MasterBatchRecord)
  BY <1>1, PutType DEF DbType
<1> QED
  BY <1>2 DEF ApplyRegisterMasterBatch, DbType, Reply, Tables

(* A grant writes a well-typed claim and index entry. *)
LEMMA ClaimType ==
  ASSUME NEW d, DbType(d), NEW cmd,
         cmd.claim_id \in ClaimIds, cmd.batch_id \in BatchIds,
         cmd.instance_id \in Instances, cmd.row_range_start \in Nat,
         cmd.row_range_end \in Nat, cmd.now_at_propose \in Nat
  PROVE  DbType(ApplyClaimRowRange(d, cmd).db)
<1> DEFINE r == [batch_id |-> cmd.batch_id,
                 row_range_start |-> cmd.row_range_start,
                 row_range_end |-> cmd.row_range_end,
                 instance_id |-> cmd.instance_id,
                 lease_expires_at |-> cmd.now_at_propose + LeaseTtl,
                 status |-> "Claimed"]
           e == [start |-> cmd.row_range_start, end |-> cmd.row_range_end,
                 status |-> "Claimed"]
<1>1. r \in ClaimRecord /\ e \in IndexEntry
  BY StateMachineAssumption DEF ClaimRecord, IndexEntry, ClaimStatus
<1>2. IsPartialFn(Put(d.claims, cmd.claim_id, r), ClaimIds, ClaimRecord)
  BY <1>1, PutType DEF DbType
<1>3. IsPartialFn(Put(d.index, <<cmd.batch_id, cmd.claim_id>>, e),
                  BatchIds \X ClaimIds, IndexEntry)
  BY <1>1, PutType DEF DbType
<1> QED
  BY <1>2, <1>3 DEF ApplyClaimRowRange, DbType, Reply, Tables

(* A renewal keeps the tables well-typed. *)
LEMMA RenewType ==
  ASSUME NEW d, DbType(d), NEW cmd, cmd.now_at_propose \in Nat
  PROVE  DbType(ApplyRenewClaim(d, cmd).db)
<1> DEFINE c == cmd.claim_id
           renewed == cmd.now_at_propose + LeaseTtl
<1>1. CASE HeldBy(d, c, cmd.instance_id)
  <2>1. /\ c \in ClaimIds
        /\ d.claims[c] \in ClaimRecord
    BY <1>1 DEF HeldBy, DbType, IsPartialFn
  <2>2. ASSUME NEW t \in Nat
        PROVE  IsPartialFn(Put(d.claims, c, [d.claims[c] EXCEPT !.lease_expires_at = t]),
                           ClaimIds, ClaimRecord)
    BY <2>1, PutType DEF DbType, ClaimRecord
  <2>3. d.claims[c].lease_expires_at \in Nat /\ renewed \in Nat
    BY <2>1, StateMachineAssumption DEF ClaimRecord
  <2> QED
    BY <2>2, <2>3 DEF ApplyRenewClaim, DbType, Reply, Tables
<1>2. CASE ~HeldBy(d, c, cmd.instance_id)
  BY <1>2 DEF ApplyRenewClaim, Reply
<1> QED BY <1>1, <1>2

(* The index after a claim changed its status. *)
LEMMA IndexEntryType ==
  ASSUME NEW d, DbType(d), NEW c \in DOMAIN d.claims, NEW status \in ClaimStatus
  PROVE  IsPartialFn(SetIndexStatus(d, c, status), BatchIds \X ClaimIds, IndexEntry)
<1>1. c \in ClaimIds /\ d.claims[c] \in ClaimRecord
  BY DEF DbType, IsPartialFn
<1>2. /\ <<d.claims[c].batch_id, c>> \in BatchIds \X ClaimIds
      /\ [start |-> d.claims[c].row_range_start, end |-> d.claims[c].row_range_end,
          status |-> status] \in IndexEntry
  BY <1>1 DEF ClaimRecord, IndexEntry
<1> QED
  BY <1>2, PutType DEF SetIndexStatus, DbType

(* Resetting a release counter keeps the batch records well-typed. *)
LEMMA ResetType ==
  ASSUME NEW batches, NEW b, IsPartialFn(batches, BatchIds, MasterBatchRecord)
  PROVE  IsPartialFn(ResetReleaseAttempts(batches, b), BatchIds, MasterBatchRecord)
BY StateMachineAssumption DEF ResetReleaseAttempts, IsPartialFn, MasterBatchRecord

(* Counting lost claims keeps release_attempts within u32. *)
LEMMA IncrementType ==
  ASSUME NEW d, DbType(d), NEW lost \in SUBSET DOMAIN d.claims
  PROVE  IsPartialFn(IncrementReleaseAttempts(d, lost), BatchIds, MasterBatchRecord)
<1> SUFFICES ASSUME NEW b \in DOMAIN d.batches
             PROVE  [d.batches[b] EXCEPT !.release_attempts =
                       SatAdd(@, Cardinality({c \in lost : d.claims[c].batch_id = b}))]
                    \in MasterBatchRecord
  BY DEF IncrementReleaseAttempts, IsPartialFn, DbType
<1> DEFINE L == {c \in lost : d.claims[c].batch_id = b}
<1>1. L \subseteq ClaimIds
  BY DEF DbType, IsPartialFn
<1>2. Cardinality(L) \in Nat
  <2>1. IsFiniteSet(L)
    BY <1>1, FS_Subset, StateMachineAssumption
  <2> QED BY <2>1, FS_CardinalityType
<1> HIDE DEF L
<1>3. d.batches[b] \in MasterBatchRecord
  BY DEF DbType, IsPartialFn
<1>4. SatAdd(d.batches[b].release_attempts, Cardinality(L)) \in 0..U32Max
  BY <1>2, <1>3, StateMachineAssumption DEF SatAdd, MasterBatchRecord
<1> QED BY <1>3, <1>4 DEF MasterBatchRecord, L

(* An ack keeps the tables well-typed. *)
LEMMA AckType ==
  ASSUME NEW d, DbType(d), NEW cmd
  PROVE  DbType(ApplyAckClaim(d, cmd).db)
<1> DEFINE c == cmd.claim_id
           r == [d.claims[c] EXCEPT !.status = "Completed", !.lease_expires_at = 0]
<1>1. CASE HeldBy(d, c, cmd.instance_id)
  <2>1. c \in DOMAIN d.claims /\ c \in ClaimIds /\ d.claims[c] \in ClaimRecord
    BY <1>1 DEF HeldBy, DbType, IsPartialFn
  <2>2. r \in ClaimRecord
    BY <2>1 DEF ClaimRecord, ClaimStatus
  <2>3. IsPartialFn(Put(d.claims, c, r), ClaimIds, ClaimRecord)
    BY <2>1, <2>2, PutType DEF DbType
  <2>4. IsPartialFn(SetIndexStatus(d, c, "Completed"), BatchIds \X ClaimIds, IndexEntry)
    BY <2>1, IndexEntryType DEF ClaimStatus
  <2>5. IsPartialFn(ResetReleaseAttempts(d.batches, d.claims[c].batch_id),
                    BatchIds, MasterBatchRecord)
    BY ResetType DEF DbType
  <2> QED
    BY <2>3, <2>4, <2>5 DEF ApplyAckClaim, DbType, Reply, Tables
<1>2. CASE ~HeldBy(d, c, cmd.instance_id)
  BY <1>2 DEF ApplyAckClaim, Reply
<1> QED BY <1>1, <1>2

(* A release keeps the tables well-typed. *)
LEMMA ReleaseType ==
  ASSUME NEW d, DbType(d), NEW cmd
  PROVE  DbType(ApplyReleaseClaim(d, cmd).db)
<1> DEFINE c == cmd.claim_id
           r == [d.claims[c] EXCEPT !.status = "Pending", !.lease_expires_at = 0,
                                    !.instance_id = NoInstance]
<1>1. CASE HeldBy(d, c, cmd.instance_id)
  <2>1. c \in DOMAIN d.claims /\ c \in ClaimIds /\ d.claims[c] \in ClaimRecord
    BY <1>1 DEF HeldBy, DbType, IsPartialFn
  <2>2. r \in ClaimRecord
    BY <2>1 DEF ClaimRecord, ClaimStatus
  <2>3. IsPartialFn(Put(d.claims, c, r), ClaimIds, ClaimRecord)
    BY <2>1, <2>2, PutType DEF DbType
  <2>4. IsPartialFn(SetIndexStatus(d, c, "Pending"), BatchIds \X ClaimIds, IndexEntry)
    BY <2>1, IndexEntryType DEF ClaimStatus
  <2>5. IsPartialFn(IncrementReleaseAttempts(d, {c}), BatchIds, MasterBatchRecord)
    BY <2>1, IncrementType
  <2> QED
    BY <2>3, <2>4, <2>5 DEF ApplyReleaseClaim, DbType, Reply, Tables
<1>2. CASE ~HeldBy(d, c, cmd.instance_id)
  BY <1>2 DEF ApplyReleaseClaim, Reply
<1> QED BY <1>1, <1>2

(* A sweep keeps the tables well-typed. *)
LEMMA ReclaimType ==
  ASSUME NEW d, DbType(d), NEW cmd
  PROVE  DbType(ApplyReclaimExpired(d, cmd).db)
<1> DEFINE E == Expired(d, cmd.now_at_propose)
           key(c) == <<d.claims[c].batch_id, c>>
           claims == [c \in DOMAIN d.claims |->
                        IF c \in E
                        THEN [d.claims[c] EXCEPT !.status = "Pending",
                                                 !.lease_expires_at = 0]
                        ELSE d.claims[c]]
           index == [k \in DOMAIN d.index \cup {key(c) : c \in E} |->
                       IF k[2] \in E /\ k = key(k[2])
                       THEN [start |-> d.claims[k[2]].row_range_start,
                             end |-> d.claims[k[2]].row_range_end,
                             status |-> "Pending"]
                       ELSE d.index[k]]
<1>1. E \subseteq DOMAIN d.claims
  BY DEF Expired
<1>2. \A c \in DOMAIN d.claims : c \in ClaimIds /\ d.claims[c] \in ClaimRecord
  BY DEF DbType, IsPartialFn
<1>3. IsPartialFn(claims, ClaimIds, ClaimRecord)
  BY <1>2 DEF IsPartialFn, ClaimRecord, ClaimStatus
<1>4. IsPartialFn(index, BatchIds \X ClaimIds, IndexEntry)
  <2>1. \A c \in E : key(c) \in BatchIds \X ClaimIds
    BY <1>1, <1>2 DEF ClaimRecord
  <2>2. DOMAIN index \subseteq BatchIds \X ClaimIds
    BY <2>1 DEF DbType, IsPartialFn
  <2>3. ASSUME NEW k \in DOMAIN index
        PROVE  index[k] \in IndexEntry
    <3>1. CASE k[2] \in E /\ k = key(k[2])
      BY <3>1, <1>1, <1>2 DEF IndexEntry, ClaimRecord, ClaimStatus
    <3>2. CASE ~(k[2] \in E /\ k = key(k[2]))
      <4>1. k \in DOMAIN d.index
        BY <3>2
      <4> QED BY <4>1, <3>2 DEF DbType, IsPartialFn
    <3> QED BY <3>1, <3>2
  <2> QED BY <2>2, <2>3 DEF IsPartialFn
<1>5. IsPartialFn(IncrementReleaseAttempts(d, E), BatchIds, MasterBatchRecord)
  BY <1>1, IncrementType
<1> HIDE DEF claims, index
<1>6. ApplyReclaimExpired(d, cmd).db \in
        {d, [d EXCEPT !.claims = claims, !.index = index,
                      !.batches = IncrementReleaseAttempts(d, E)]}
  BY DEF ApplyReclaimExpired, Reply, claims, index
<1> QED
  BY <1>3, <1>4, <1>5, <1>6 DEF DbType, Tables

(* A heartbeat keeps the tables well-typed. *)
LEMMA HeartbeatType ==
  ASSUME NEW d, DbType(d), NEW cmd, cmd.instance_id \in Instances, cmd.at \in Nat
  PROVE  DbType(ApplyHeartbeat(d, cmd).db)
<1>1. IsPartialFn(Put(d.instances, cmd.instance_id, cmd.at), Instances, Nat)
  BY PutType DEF DbType
<1> QED BY <1>1 DEF ApplyHeartbeat, DbType, Reply, Tables

(* A checkpoint write keeps the tables well-typed. *)
LEMMA CheckpointType ==
  ASSUME NEW d, DbType(d), NEW cmd, cmd.stage_idx \in Stages, cmd.payload \in Payloads
  PROVE  DbType(ApplyCheckpoint(d, cmd).db)
<1> DEFINE c == cmd.claim_id
           b == d.claims[c].batch_id
           cp == [batch_id |-> b, payload |-> cmd.payload]
           batches == IF b \in DOMAIN d.batches
                      THEN Put(d.batches, b, [d.batches[b] EXCEPT !.checkpoint_seq = @ + 1])
                      ELSE d.batches
<1>1. CASE c \in DOMAIN d.claims
  <2>1. c \in ClaimIds /\ b \in BatchIds
    BY <1>1 DEF DbType, IsPartialFn, ClaimRecord
  <2>2. IsPartialFn(Put(d.checkpoints, <<c, cmd.stage_idx>>, cp), ClaimIds \X Stages,
                    [batch_id : BatchIds, payload : Payloads])
    BY <2>1, PutType DEF DbType
  <2>3. IsPartialFn(batches, BatchIds, MasterBatchRecord)
    <3>1. CASE b \in DOMAIN d.batches
      <4>1. [d.batches[b] EXCEPT !.checkpoint_seq = @ + 1] \in MasterBatchRecord
        BY <3>1 DEF DbType, IsPartialFn, MasterBatchRecord
      <4> QED BY <3>1, <4>1, <2>1, PutType DEF DbType
    <3> QED BY <3>1 DEF DbType
  <2> QED
    BY <2>2, <2>3 DEF ApplyCheckpoint, DbType, Reply, Tables
<1>2. CASE c \notin DOMAIN d.claims
  BY <1>2 DEF ApplyCheckpoint, Reply
<1> QED BY <1>1, <1>2

(* A poisoning keeps the tables well-typed. *)
LEMMA PoisonType ==
  ASSUME NEW d, DbType(d), NEW cmd, cmd.now_at_propose \in Nat
  PROVE  DbType(ApplyPoisonBatch(d, cmd).db)
<1> DEFINE b == cmd.batch_id
           r == [d.batches[b] EXCEPT !.status = "Poisoned",
                                     !.poisoned_at = cmd.now_at_propose]
<1>1. CASE b \in DOMAIN d.batches
  <2>1. b \in BatchIds /\ r \in MasterBatchRecord
    BY <1>1 DEF DbType, IsPartialFn, MasterBatchRecord, BatchStatus
  <2>2. IsPartialFn(Put(d.batches, b, r), BatchIds, MasterBatchRecord)
    BY <2>1, PutType DEF DbType
  <2> QED BY <2>2 DEF ApplyPoisonBatch, DbType, Reply, Tables
<1>2. CASE b \notin DOMAIN d.batches
  BY <1>2 DEF ApplyPoisonBatch, Reply
<1> QED BY <1>1, <1>2

(* Every command leaves a well-typed database. *)
LEMMA ApplyType ==
  ASSUME NEW d, DbType(d), NEW cmd \in ConsensusCommand
  PROVE  DbType(Apply(d, cmd).db)
<1>1. CASE cmd.op = "RegisterMasterBatch"
  <2>1. cmd.batch_id \in BatchIds /\ cmd.total_rows \in Nat
    BY <1>1 DEF ConsensusCommand
  <2> QED BY <1>1, <2>1, RegisterType DEF Apply
<1>2. CASE cmd.op = "ClaimRowRange"
  <2>1. /\ cmd.claim_id \in ClaimIds /\ cmd.batch_id \in BatchIds
        /\ cmd.instance_id \in Instances /\ cmd.row_range_start \in Nat
        /\ cmd.row_range_end \in Nat /\ cmd.now_at_propose \in Nat
    BY <1>2 DEF ConsensusCommand
  <2> QED BY <1>2, <2>1, ClaimType DEF Apply
<1>3. CASE cmd.op = "RenewClaim"
  <2>1. cmd.now_at_propose \in Nat
    BY <1>3 DEF ConsensusCommand
  <2> QED BY <1>3, <2>1, RenewType DEF Apply
<1>4. CASE cmd.op = "AckClaim"
  BY <1>4, AckType DEF Apply
<1>5. CASE cmd.op = "ReleaseClaim"
  BY <1>5, ReleaseType DEF Apply
<1>6. CASE cmd.op = "Checkpoint"
  <2>1. cmd.stage_idx \in Stages /\ cmd.payload \in Payloads
    BY <1>6 DEF ConsensusCommand
  <2> QED BY <1>6, <2>1, CheckpointType DEF Apply
<1>7. CASE cmd.op = "Heartbeat"
  <2>1. cmd.instance_id \in Instances /\ cmd.at \in Nat
    BY <1>7 DEF ConsensusCommand
  <2> QED BY <1>7, <2>1, HeartbeatType DEF Apply
<1>8. CASE cmd.op = "ReclaimExpired"
  BY <1>8, ReclaimType DEF Apply
<1>9. CASE cmd.op = "PoisonBatch"
  <2>1. cmd.now_at_propose \in Nat
    BY <1>9 DEF ConsensusCommand
  <2> QED BY <1>9, <2>1, PoisonType DEF Apply
<1>10. cmd.op \in {"RegisterMasterBatch", "ClaimRowRange", "RenewClaim", "AckClaim",
                  "ReleaseClaim", "Checkpoint", "Heartbeat", "ReclaimExpired", "PoisonBatch"}
  BY DEF ConsensusCommand
<1> QED BY <1>1, <1>2, <1>3, <1>4, <1>5, <1>6, <1>7, <1>8, <1>9, <1>10

(* A restored dump is well-typed. *)
LEMMA RestoreType ==
  ASSUME NEW d, DbType(d)
  PROVE  DbType(RestoreState(DumpState(d)))
<1>1. \A c \in DOMAIN d.claims : c \in ClaimIds /\ d.claims[c] \in ClaimRecord
  BY DEF DbType, IsPartialFn
<1> DEFINE index == RestoreState(DumpState(d)).index
<1>2. IsPartialFn(index, BatchIds \X ClaimIds, IndexEntry)
  BY <1>1 DEF RestoreState, DumpState, IsPartialFn, IndexEntry, ClaimRecord
<1>3. DOMAIN d.batches \subseteq BatchIds
  BY DEF DbType, IsPartialFn
<1> QED
  BY <1>2, <1>3 DEF RestoreState, DumpState, DbType, Tables

----------------------------------------------------------------------------
(* Holders of rows *)

Mirror(d) ==
  /\ DOMAIN d.index = {<<d.claims[c].batch_id, c>> : c \in DOMAIN d.claims}
  /\ \A c \in DOMAIN d.claims :
       d.index[<<d.claims[c].batch_id, c>>] =
         [start |-> d.claims[c].row_range_start,
          end |-> d.claims[c].row_range_end,
          status |-> d.claims[c].status]

(* e has the claims of d, on the same ranges, every claim that occupies    *)
(* its range in e already did so in d, for the same instance, and a        *)
(* Completed claim has not changed at all.                                 *)
NoNewHolder(d, e) ==
  /\ DOMAIN e.claims = DOMAIN d.claims
  /\ \A c \in DOMAIN d.claims :
       /\ e.claims[c].batch_id = d.claims[c].batch_id
       /\ e.claims[c].row_range_start = d.claims[c].row_range_start
       /\ e.claims[c].row_range_end = d.claims[c].row_range_end
       /\ e.claims[c].status \in Occupying =>
            /\ d.claims[c].status \in Occupying
            /\ e.claims[c].instance_id = d.claims[c].instance_id
       /\ d.claims[c].status = "Completed" => e.claims[c] = d.claims[c]

(* What every handler but ApplyClaimRowRange does to the claims. *)
Shrinks(d, e) == NoNewHolder(d, e) /\ (Mirror(d) => Mirror(e))

(* Handlers that touch neither the claims nor their index. *)
LEMMA ClaimsUntouched ==
  ASSUME NEW d, NEW e, e.claims = d.claims, e.index = d.index
  PROVE  Shrinks(d, e)
BY DEF Shrinks, NoNewHolder, Mirror

(* A claim whose record changes its lease only. *)
LEMMA RenewShrinks ==
  ASSUME NEW d, DbType(d), NEW cmd
  PROVE  Shrinks(d, ApplyRenewClaim(d, cmd).db)
<1> DEFINE c == cmd.claim_id
<1>1. ASSUME HeldBy(d, c, cmd.instance_id), NEW t
      PROVE  Shrinks(d, [d EXCEPT !.claims = Put(@, c, [d.claims[c] EXCEPT
                                                    !.lease_expires_at = t])])
  <2> DEFINE r == [d.claims[c] EXCEPT !.lease_expires_at = t]
             e == [d EXCEPT !.claims = Put(@, c, r)]
  <2>1. /\ c \in DOMAIN d.claims
        /\ d.claims[c] \in ClaimRecord
        /\ d.claims[c].status = "Claimed"
    BY <1>1 DEF HeldBy, DbType, IsPartialFn
  <2>2. /\ r.batch_id = d.claims[c].batch_id
        /\ r.row_range_start = d.claims[c].row_range_start
        /\ r.row_range_end = d.claims[c].row_range_end
        /\ r.instance_id = d.claims[c].instance_id
        /\ r.status = d.claims[c].status
    BY <2>1 DEF ClaimRecord
  <2>3. e.claims = Put(d.claims, c, r) /\ e.index = d.index
    BY DEF DbType, Tables
  <2>4. /\ DOMAIN e.claims = DOMAIN d.claims
        /\ e.claims[c] = r
        /\ \A x \in DOMAIN d.claims : x # c => e.claims[x] = d.claims[x]
    BY <2>1, <2>3 DEF Put
  <2> HIDE DEF r, e
  <2>5. NoNewHolder(d, e)
    BY <2>1, <2>2, <2>4 DEF NoNewHolder
  <2>6. Mirror(d) => Mirror(e)
    BY <2>1, <2>2, <2>3, <2>4 DEF Mirror
  <2> QED BY <2>5, <2>6 DEF Shrinks, r, e
<1>2. Shrinks(d, d)
  BY ClaimsUntouched
<1> QED BY <1>1, <1>2 DEF ApplyRenewClaim, Reply

(* A claim that moves to another status in the table and in the index. *)
LEMMA StatusShrinks ==
  ASSUME NEW d, DbType(d), NEW c \in DOMAIN d.claims, d.claims[c].status = "Claimed",
         NEW status, NEW r, NEW e,
         r.batch_id = d.claims[c].batch_id,
         r.row_range_start = d.claims[c].row_range_start,
         r.row_range_end = d.claims[c].row_range_end,
         r.status = status,
         status \in Occupying => r.instance_id = d.claims[c].instance_id,
         e.claims = Put(d.claims, c, r),
         e.index = SetIndexStatus(d, c, status)
  PROVE  Shrinks(d, e)
<1> DEFINE k == <<d.claims[c].batch_id, c>>
           v == [start |-> d.claims[c].row_range_start,
                 end |-> d.claims[c].row_range_end, status |-> status]
<1>1. /\ DOMAIN e.claims = DOMAIN d.claims
      /\ e.claims[c] = r
      /\ \A x \in DOMAIN d.claims : x # c => e.claims[x] = d.claims[x]
  BY DEF Put
<1>2. /\ DOMAIN e.index = DOMAIN d.index \cup {k}
      /\ e.index[k] = v
      /\ \A x \in DOMAIN d.index : x # k => e.index[x] = d.index[x]
  BY DEF SetIndexStatus, Put
<1>3. NoNewHolder(d, e)
  BY <1>1 DEF NoNewHolder, Occupying
<1>4. ASSUME Mirror(d)
      PROVE  Mirror(e)
  <2>1. k \in DOMAIN d.index
    BY <1>4 DEF Mirror
  <2>2. DOMAIN e.index = {<<e.claims[x].batch_id, x>> : x \in DOMAIN e.claims}
    BY <1>1, <1>2, <1>4, <2>1 DEF Mirror
  <2>3. ASSUME NEW x \in DOMAIN e.claims
        PROVE  e.index[<<e.claims[x].batch_id, x>>] =
                 [start |-> e.claims[x].row_range_start,
                  end |-> e.claims[x].row_range_end,
                  status |-> e.claims[x].status]
    <3>1. CASE x = c
      BY <3>1, <1>1, <1>2
    <3>2. CASE x # c
      BY <3>2, <1>1, <1>2, <1>4 DEF Mirror
    <3> QED BY <3>1, <3>2
  <2> QED BY <2>2, <2>3 DEF Mirror
<1> QED BY <1>3, <1>4 DEF Shrinks

(* An ack adds no holder and keeps the index in step. *)
LEMMA AckShrinks ==
  ASSUME NEW d, DbType(d), NEW cmd
  PROVE  Shrinks(d, ApplyAckClaim(d, cmd).db)
<1> DEFINE c == cmd.claim_id
           r == [d.claims[c] EXCEPT !.status = "Completed", !.lease_expires_at = 0]
           e == ApplyAckClaim(d, cmd).db
<1>1. CASE HeldBy(d, c, cmd.instance_id)
  <2>1. /\ c \in DOMAIN d.claims
        /\ d.claims[c] \in ClaimRecord
        /\ d.claims[c].status = "Claimed"
    BY <1>1 DEF HeldBy, DbType, IsPartialFn
  <2>2. /\ r.batch_id = d.claims[c].batch_id
        /\ r.row_range_start = d.claims[c].row_range_start
        /\ r.row_range_end = d.claims[c].row_range_end
        /\ r.status = "Completed"
        /\ r.instance_id = d.claims[c].instance_id
    BY <2>1 DEF ClaimRecord
  <2>3. /\ e.claims = Put(d.claims, c, r)
        /\ e.index = SetIndexStatus(d, c, "Completed")
    BY <1>1 DEF ApplyAckClaim, Reply, DbType, Tables
  <2> HIDE DEF r, e
  <2>4. Shrinks(d, e)
    BY <2>1, <2>2, <2>3, StatusShrinks
  <2> QED BY <2>4 DEF e
<1>2. CASE ~HeldBy(d, c, cmd.instance_id)
  <2>1. e = d
    BY <1>2 DEF ApplyAckClaim, Reply
  <2> QED BY <2>1, ClaimsUntouched
<1> QED BY <1>1, <1>2

(* A release adds no holder and keeps the index in step. *)
LEMMA ReleaseShrinks ==
  ASSUME NEW d, DbType(d), NEW cmd
  PROVE  Shrinks(d, ApplyReleaseClaim(d, cmd).db)
<1> DEFINE c == cmd.claim_id
           r == [d.claims[c] EXCEPT !.status = "Pending", !.lease_expires_at = 0,
                                    !.instance_id = NoInstance]
           e == ApplyReleaseClaim(d, cmd).db
<1>1. CASE HeldBy(d, c, cmd.instance_id)
  <2>1. /\ c \in DOMAIN d.claims
        /\ d.claims[c] \in ClaimRecord
        /\ d.claims[c].status = "Claimed"
    BY <1>1 DEF HeldBy, DbType, IsPartialFn
  <2>2. /\ r.batch_id = d.claims[c].batch_id
        /\ r.row_range_start = d.claims[c].row_range_start
        /\ r.row_range_end = d.claims[c].row_range_end
        /\ r.status = "Pending"
    BY <2>1 DEF ClaimRecord
  <2>3. /\ e.claims = Put(d.claims, c, r)
        /\ e.index = SetIndexStatus(d, c, "Pending")
    BY <1>1 DEF ApplyReleaseClaim, Reply, DbType, Tables
  <2>4. "Pending" \notin Occupying
    BY DEF Occupying
  <2> HIDE DEF r, e
  <2>5. Shrinks(d, e)
    BY <2>1, <2>2, <2>3, <2>4, StatusShrinks
  <2> QED BY <2>5 DEF e
<1>2. CASE ~HeldBy(d, c, cmd.instance_id)
  <2>1. e = d
    BY <1>2 DEF ApplyReleaseClaim, Reply
  <2> QED BY <2>1, ClaimsUntouched
<1> QED BY <1>1, <1>2

(* A sweep adds no holder and keeps the index in step. *)
LEMMA ReclaimShrinks ==
  ASSUME NEW d, DbType(d), NEW cmd
  PROVE  Shrinks(d, ApplyReclaimExpired(d, cmd).db)
<1> DEFINE E == Expired(d, cmd.now_at_propose)
           key(c) == <<d.claims[c].batch_id, c>>
           e == ApplyReclaimExpired(d, cmd).db
<1>1. CASE E = {}
  <2>1. e = d
    BY <1>1 DEF ApplyReclaimExpired, Reply
  <2> QED BY <2>1, ClaimsUntouched
<1>2. CASE E # {}
  <2>1. \A c \in E : c \in DOMAIN d.claims /\ d.claims[c].status = "Claimed"
    BY DEF Expired
  <2>2. /\ e.claims = [c \in DOMAIN d.claims |->
                        IF c \in E
                        THEN [d.claims[c] EXCEPT !.status = "Pending",
                                                 !.lease_expires_at = 0]
                        ELSE d.claims[c]]
        /\ e.index = [k \in DOMAIN d.index \cup {key(c) : c \in E} |->
                       IF k[2] \in E /\ k = key(k[2])
                       THEN [start |-> d.claims[k[2]].row_range_start,
                             end |-> d.claims[k[2]].row_range_end,
                             status |-> "Pending"]
                       ELSE d.index[k]]
    BY <1>2 DEF ApplyReclaimExpired, Reply, DbType, Tables
  <2> HIDE DEF E, e
  <2>3. \A c \in DOMAIN d.claims : d.claims[c] \in ClaimRecord
    BY DEF DbType, IsPartialFn
  <2>4. /\ DOMAIN e.claims = DOMAIN d.claims
        /\ \A c \in DOMAIN d.claims :
             /\ e.claims[c].batch_id = d.claims[c].batch_id
             /\ e.claims[c].row_range_start = d.claims[c].row_range_start
             /\ e.claims[c].row_range_end = d.claims[c].row_range_end
             /\ e.claims[c].instance_id = d.claims[c].instance_id
             /\ c \in E => e.claims[c].status = "Pending"
             /\ c \notin E => e.claims[c] = d.claims[c]
    <3>1. ASSUME NEW c \in DOMAIN d.claims, c \in E
          PROVE  e.claims[c] = [d.claims[c] EXCEPT !.status = "Pending",
                                                   !.lease_expires_at = 0]
      BY <3>1, <2>2
    <3>2. ASSUME NEW c \in DOMAIN d.claims, c \notin E
          PROVE  e.claims[c] = d.claims[c]
      BY <3>2, <2>2
    <3>3. DOMAIN e.claims = DOMAIN d.claims
      BY <2>2
    <3> QED BY <3>1, <3>2, <3>3, <2>3 DEF ClaimRecord
  <2>5. NoNewHolder(d, e)
    BY <2>1, <2>4 DEF NoNewHolder, Occupying
  <2>6. ASSUME Mirror(d)
        PROVE  Mirror(e)
    <3>1. DOMAIN e.index = DOMAIN d.index
      BY <2>1, <2>2, <2>6 DEF Mirror
    <3>2. DOMAIN e.index = {<<e.claims[c].batch_id, c>> : c \in DOMAIN e.claims}
      BY <3>1, <2>4, <2>6 DEF Mirror
    <3>3. ASSUME NEW c \in DOMAIN e.claims
          PROVE  e.index[<<e.claims[c].batch_id, c>>] =
                   [start |-> e.claims[c].row_range_start,
                    end |-> e.claims[c].row_range_end,
                    status |-> e.claims[c].status]
      <4>1. key(c) = <<e.claims[c].batch_id, c>> /\ key(c)[2] = c
        BY <2>4
      <4>2. key(c) \in DOMAIN d.index
        BY <2>4, <2>6 DEF Mirror
      <4>3. CASE c \in E
        <5>1. e.index[key(c)] = [start |-> d.claims[c].row_range_start,
                                 end |-> d.claims[c].row_range_end,
                                 status |-> "Pending"]
          BY <4>1, <4>2, <4>3, <2>2
        <5> QED BY <5>1, <4>1, <4>3, <2>4
      <4>4. CASE c \notin E
        <5>1. e.index[key(c)] = d.index[key(c)]
          BY <4>1, <4>2, <4>4, <2>2
        <5> QED BY <5>1, <4>1, <4>4, <2>4, <2>6 DEF Mirror
      <4> QED BY <4>3, <4>4
    <3> QED BY <3>2, <3>3 DEF Mirror
  <2> QED BY <2>5, <2>6 DEF Shrinks, e
<1> QED BY <1>1, <1>2

(* Every command but a claim adds no holder and keeps the index in step. *)
LEMMA ApplyShrinks ==
  ASSUME NEW d, DbType(d), NEW cmd \in ConsensusCommand, cmd.op # "ClaimRowRange"
  PROVE  Shrinks(d, Apply(d, cmd).db)
<1>1. ASSUME cmd.op \in {"RegisterMasterBatch", "Checkpoint", "Heartbeat", "PoisonBatch"}
      PROVE  Apply(d, cmd).db.claims = d.claims /\ Apply(d, cmd).db.index = d.index
  <2>1. CASE cmd.op = "RegisterMasterBatch"
    BY <2>1 DEF Apply, ApplyRegisterMasterBatch, Reply, DbType, Tables
  <2>2. CASE cmd.op = "Checkpoint"
    BY <2>2 DEF Apply, ApplyCheckpoint, Reply, DbType, Tables
  <2>3. CASE cmd.op = "Heartbeat"
    BY <2>3 DEF Apply, ApplyHeartbeat, Reply, DbType, Tables
  <2>4. CASE cmd.op = "PoisonBatch"
    BY <2>4 DEF Apply, ApplyPoisonBatch, Reply, DbType, Tables
  <2> QED BY <1>1, <2>1, <2>2, <2>3, <2>4
<1>2. CASE cmd.op \in {"RegisterMasterBatch", "Checkpoint", "Heartbeat", "PoisonBatch"}
  BY <1>1, <1>2, ClaimsUntouched
<1>3. CASE cmd.op = "RenewClaim"
  BY <1>3, RenewShrinks DEF Apply
<1>4. CASE cmd.op = "AckClaim"
  BY <1>4, AckShrinks DEF Apply
<1>5. CASE cmd.op = "ReleaseClaim"
  BY <1>5, ReleaseShrinks DEF Apply
<1>6. CASE cmd.op = "ReclaimExpired"
  BY <1>6, ReclaimShrinks DEF Apply
<1>7. cmd.op \in {"RegisterMasterBatch", "RenewClaim", "AckClaim",
                  "ReleaseClaim", "Checkpoint", "Heartbeat", "ReclaimExpired", "PoisonBatch"}
  BY DEF ConsensusCommand
<1> QED BY <1>2, <1>3, <1>4, <1>5, <1>6, <1>7

(* A snapshot installation adds no holder and rebuilds the index. *)
LEMMA RestoreShrinks ==
  ASSUME NEW d
  PROVE  Shrinks(d, RestoreState(DumpState(d)))
BY DEF Shrinks, NoNewHolder, Mirror, RestoreState, DumpState

(* No claim of e is Completed that was not so in d. *)
NoNewCompleted(d, e) ==
  \A c \in DOMAIN d.claims :
    e.claims[c].status = "Completed" => d.claims[c].status = "Completed"

(* A renewal completes nothing. *)
LEMMA RenewCompletesNothing ==
  ASSUME NEW d, DbType(d), NEW cmd
  PROVE  NoNewCompleted(d, ApplyRenewClaim(d, cmd).db)
<1> DEFINE c == cmd.claim_id
<1>1. ASSUME HeldBy(d, c, cmd.instance_id), NEW t
      PROVE  NoNewCompleted(d, [d EXCEPT !.claims = Put(@, c, [d.claims[c] EXCEPT
                                                    !.lease_expires_at = t])])
  <2> DEFINE r == [d.claims[c] EXCEPT !.lease_expires_at = t]
  <2>1. d.claims[c] \in ClaimRecord
    BY <1>1 DEF HeldBy, DbType, IsPartialFn
  <2>2. r.status = d.claims[c].status
    BY <2>1 DEF ClaimRecord
  <2> HIDE DEF r
  <2>3. NoNewCompleted(d, [d EXCEPT !.claims = Put(@, c, r)])
    BY <2>2 DEF NoNewCompleted, Put, DbType, Tables
  <2> QED BY <2>3 DEF r
<1>2. NoNewCompleted(d, d)
  BY DEF NoNewCompleted
<1> QED BY <1>1, <1>2 DEF ApplyRenewClaim, Reply

(* A release completes nothing. *)
LEMMA ReleaseCompletesNothing ==
  ASSUME NEW d, DbType(d), NEW cmd
  PROVE  NoNewCompleted(d, ApplyReleaseClaim(d, cmd).db)
<1> DEFINE c == cmd.claim_id
           r == [d.claims[c] EXCEPT !.status = "Pending", !.lease_expires_at = 0,
                                    !.instance_id = NoInstance]
           e == ApplyReleaseClaim(d, cmd).db
<1>1. CASE HeldBy(d, c, cmd.instance_id)
  <2>1. d.claims[c] \in ClaimRecord
    BY <1>1 DEF HeldBy, DbType, IsPartialFn
  <2>2. r.status = "Pending"
    BY <2>1 DEF ClaimRecord
  <2>3. e.claims = Put(d.claims, c, r)
    BY <1>1 DEF ApplyReleaseClaim, Reply, DbType, Tables
  <2> HIDE DEF r, e
  <2>4. NoNewCompleted(d, e)
    BY <2>2, <2>3 DEF NoNewCompleted, Put
  <2> QED BY <2>4 DEF e
<1>2. CASE ~HeldBy(d, c, cmd.instance_id)
  BY <1>2 DEF ApplyReleaseClaim, Reply, NoNewCompleted
<1> QED BY <1>1, <1>2

(* A sweep completes nothing. *)
LEMMA ReclaimCompletesNothing ==
  ASSUME NEW d, DbType(d), NEW cmd
  PROVE  NoNewCompleted(d, ApplyReclaimExpired(d, cmd).db)
<1> DEFINE E == Expired(d, cmd.now_at_propose)
           e == ApplyReclaimExpired(d, cmd).db
<1>1. CASE E = {}
  BY <1>1 DEF ApplyReclaimExpired, Reply, NoNewCompleted
<1>2. CASE E # {}
  <2>1. e.claims = [c \in DOMAIN d.claims |->
                      IF c \in E
                      THEN [d.claims[c] EXCEPT !.status = "Pending",
                                               !.lease_expires_at = 0]
                      ELSE d.claims[c]]
    BY <1>2 DEF ApplyReclaimExpired, Reply, DbType, Tables
  <2> HIDE DEF E, e
  <2>2. ASSUME NEW c \in DOMAIN d.claims, e.claims[c].status = "Completed"
        PROVE  d.claims[c].status = "Completed"
    <3>1. d.claims[c] \in ClaimRecord
      BY DEF DbType, IsPartialFn
    <3>2. CASE c \in E
      <4>1. e.claims[c] = [d.claims[c] EXCEPT !.status = "Pending",
                                              !.lease_expires_at = 0]
        BY <2>1, <3>2
      <4> QED BY <4>1, <3>1, <2>2 DEF ClaimRecord
    <3>3. CASE c \notin E
      BY <2>1, <2>2, <3>3
    <3> QED BY <3>2, <3>3
  <2> QED BY <2>2 DEF NoNewCompleted, e
<1> QED BY <1>1, <1>2

(* Two claims have rows in common. *)
ShareRows(r, s) ==
  /\ r.batch_id = s.batch_id
  /\ r.row_range_start < s.row_range_end
  /\ s.row_range_start < r.row_range_end

Exclusive(d) ==
  \A x, y \in DOMAIN d.claims :
    /\ x # y
    /\ d.claims[x].status \in Occupying
    /\ d.claims[y].status \in Occupying
    => ~ShareRows(d.claims[x], d.claims[y])

(* Where nobody is added, nobody gets in another's way. *)
LEMMA ShrinksExclusive ==
  ASSUME NEW d, NEW e, Shrinks(d, e), Exclusive(d)
  PROVE  Exclusive(e)
BY DEF Shrinks, NoNewHolder, Exclusive, ShareRows

(* The record and the index entry a grant writes. *)
Granted(cmd) ==
  [batch_id |-> cmd.batch_id, row_range_start |-> cmd.row_range_start,
   row_range_end |-> cmd.row_range_end, instance_id |-> cmd.instance_id,
   lease_expires_at |-> cmd.now_at_propose + LeaseTtl, status |-> "Claimed"]

GrantedEntry(cmd) ==
  [start |-> cmd.row_range_start, end |-> cmd.row_range_end, status |-> "Claimed"]

(* A claim command that changes anything has found its range free and      *)
(* writes one record and one entry.                                        *)
LEMMA ClaimEffect ==
  ASSUME NEW d, DbType(d), NEW cmd, NEW e, e = ApplyClaimRowRange(d, cmd).db, e # d
  PROVE  /\ ~(cmd.row_range_start >= cmd.row_range_end)
         /\ ~HasBatchOverlap(d, cmd.batch_id, cmd.row_range_start, cmd.row_range_end)
         /\ ApplyClaimRowRange(d, cmd).response = "BatchClaimed"
         /\ e.claims = Put(d.claims, cmd.claim_id, Granted(cmd))
         /\ e.index = Put(d.index, <<cmd.batch_id, cmd.claim_id>>, GrantedEntry(cmd))
         /\ e.batches = d.batches /\ e.pending = d.pending
         /\ e.checkpoints = d.checkpoints /\ e.instances = d.instances
<1>1. /\ ~(cmd.row_range_start >= cmd.row_range_end)
      /\ ~HasBatchOverlap(d, cmd.batch_id, cmd.row_range_start, cmd.row_range_end)
      /\ ApplyClaimRowRange(d, cmd).response = "BatchClaimed"
      /\ e = [d EXCEPT !.claims = Put(d.claims, cmd.claim_id, Granted(cmd)),
                       !.index = Put(d.index, <<cmd.batch_id, cmd.claim_id>>,
                                     GrantedEntry(cmd))]
  BY DEF ApplyClaimRowRange, Reply, Granted, GrantedEntry
<1> QED BY <1>1 DEF DbType, Tables

(* A grant keeps the index in step and takes no row that is occupied, as   *)
(* long as a claim id that exists stands for the same batch.               *)
LEMMA GrantKeeps ==
  ASSUME NEW d, DbType(d), Mirror(d), Exclusive(d), NEW cmd,
         cmd.row_range_start \in Nat, cmd.row_range_end \in Nat,
         cmd.claim_id \in DOMAIN d.claims =>
           d.claims[cmd.claim_id].batch_id = cmd.batch_id
  PROVE  Mirror(ApplyClaimRowRange(d, cmd).db) /\ Exclusive(ApplyClaimRowRange(d, cmd).db)
<1> DEFINE e == ApplyClaimRowRange(d, cmd).db
           c == cmd.claim_id
           r == Granted(cmd)
           k == <<cmd.batch_id, c>>
<1>1. CASE e # d
  <2>0. /\ ~HasBatchOverlap(d, cmd.batch_id, cmd.row_range_start, cmd.row_range_end)
        /\ e.claims = Put(d.claims, c, r)
        /\ e.index = Put(d.index, k, GrantedEntry(cmd))
    BY <1>1, ClaimEffect
  <2>1. /\ DOMAIN e.claims = DOMAIN d.claims \cup {c}
        /\ e.claims[c] = r
        /\ \A x \in DOMAIN d.claims : x # c => e.claims[x] = d.claims[x]
        /\ DOMAIN e.index = DOMAIN d.index \cup {k}
        /\ e.index[k] = GrantedEntry(cmd)
        /\ \A x \in DOMAIN d.index : x # k => e.index[x] = d.index[x]
    BY <2>0 DEF Put
  <2>2. /\ r.batch_id = cmd.batch_id /\ r.status = "Claimed"
        /\ r.row_range_start = cmd.row_range_start /\ r.row_range_end = cmd.row_range_end
    BY DEF Granted
  <2> HIDE DEF e, r
  <2>3. ASSUME NEW x \in DOMAIN d.claims, x # c, d.claims[x].status \in Occupying
        PROVE  ~ShareRows(r, d.claims[x]) /\ ~ShareRows(d.claims[x], r)
    <3> DEFINE q == <<d.claims[x].batch_id, x>>
    <3>1. /\ q \in DOMAIN d.index
          /\ d.index[q] = [start |-> d.claims[x].row_range_start,
                           end |-> d.claims[x].row_range_end,
                           status |-> d.claims[x].status]
      BY DEF Mirror
    <3>2. CASE d.claims[x].batch_id = cmd.batch_id
      <4>1. q \in EntriesOf(d, cmd.batch_id)
        BY <3>1, <3>2 DEF EntriesOf
      <4>2. ~(cmd.row_range_start < d.index[q].end /\ cmd.row_range_end > d.index[q].start)
        BY <4>1, <3>1, <2>0, <2>3 DEF HasBatchOverlap
      <4>3. d.claims[x].row_range_start \in Nat /\ d.claims[x].row_range_end \in Nat
        BY DEF DbType, IsPartialFn, ClaimRecord
      <4> QED BY <4>2, <4>3, <3>1, <2>2 DEF ShareRows
    <3>3. CASE d.claims[x].batch_id # cmd.batch_id
      BY <3>3, <2>2 DEF ShareRows
    <3> QED BY <3>2, <3>3
  <2>4. Exclusive(e)
    <3> SUFFICES ASSUME NEW x \in DOMAIN e.claims, NEW y \in DOMAIN e.claims, x # y,
                        e.claims[x].status \in Occupying, e.claims[y].status \in Occupying
                 PROVE  ~ShareRows(e.claims[x], e.claims[y])
      BY DEF Exclusive
    <3>1. CASE x = c
      BY <3>1, <2>1, <2>3
    <3>2. CASE y = c
      BY <3>2, <2>1, <2>3
    <3>3. CASE x # c /\ y # c
      BY <3>3, <2>1 DEF Exclusive
    <3> QED BY <3>1, <3>2, <3>3
  <2>5. Mirror(e)
    <3>1. DOMAIN e.index = {<<e.claims[x].batch_id, x>> : x \in DOMAIN e.claims}
      BY <2>1, <2>2 DEF Mirror
    <3>2. ASSUME NEW x \in DOMAIN e.claims
          PROVE  e.index[<<e.claims[x].batch_id, x>>] =
                   [start |-> e.claims[x].row_range_start,
                    end |-> e.claims[x].row_range_end,
                    status |-> e.claims[x].status]
      <4>1. CASE x = c
        BY <4>1, <2>1, <2>2 DEF GrantedEntry
      <4>2. CASE x # c
        BY <4>2, <2>1 DEF Mirror
      <4> QED BY <4>1, <4>2
    <3> QED BY <3>1, <3>2 DEF Mirror
  <2> QED BY <2>4, <2>5 DEF e
<1>2. CASE e = d
  BY <1>2
<1> QED BY <1>1, <1>2

----------------------------------------------------------------------------
(* Databases with the same dump *)

(* The tables a snapshot carries are the same. *)
SameTables(d, e) ==
  /\ d.batches = e.batches /\ d.claims = e.claims
  /\ d.checkpoints = e.checkpoints /\ d.instances = e.instances

LEMMA SameDump ==
  ASSUME NEW d, NEW e
  PROVE  DumpState(d) = DumpState(e) <=> SameTables(d, e)
BY DEF DumpState, SameTables

(* A replica's answer to an overlap question is decided by its claims. *)
LEMMA OverlapFromClaims ==
  ASSUME NEW d, Mirror(d), NEW b, NEW start, NEW end
  PROVE  HasBatchOverlap(d, b, start, end) <=>
           \E c \in DOMAIN d.claims :
             /\ d.claims[c].batch_id = b
             /\ d.claims[c].status \in Occupying
             /\ start < d.claims[c].row_range_end
             /\ end > d.claims[c].row_range_start
<1>1. ASSUME NEW k \in EntriesOf(d, b), d.index[k].status \in Occupying,
             start < d.index[k].end, end > d.index[k].start
      PROVE  \E c \in DOMAIN d.claims :
               /\ d.claims[c].batch_id = b
               /\ d.claims[c].status \in Occupying
               /\ start < d.claims[c].row_range_end
               /\ end > d.claims[c].row_range_start
  <2>1. PICK c \in DOMAIN d.claims : k = <<d.claims[c].batch_id, c>>
    BY DEF EntriesOf, Mirror
  <2>2. /\ d.claims[c].batch_id = b
        /\ d.index[k] = [start |-> d.claims[c].row_range_start,
                         end |-> d.claims[c].row_range_end,
                         status |-> d.claims[c].status]
    BY <2>1 DEF EntriesOf, Mirror
  <2> QED BY <1>1, <2>2
<1>2. ASSUME NEW c \in DOMAIN d.claims, d.claims[c].batch_id = b,
             d.claims[c].status \in Occupying,
             start < d.claims[c].row_range_end, end > d.claims[c].row_range_start
      PROVE  HasBatchOverlap(d, b, start, end)
  <2> DEFINE k == <<d.claims[c].batch_id, c>>
  <2>1. /\ k \in EntriesOf(d, b)
        /\ d.index[k] = [start |-> d.claims[c].row_range_start,
                         end |-> d.claims[c].row_range_end,
                         status |-> d.claims[c].status]
    BY <1>2 DEF EntriesOf, Mirror
  <2> HIDE DEF k
  <2> QED BY <1>2, <2>1 DEF HasBatchOverlap
<1> QED BY <1>1, <1>2 DEF HasBatchOverlap

LEMMA ApplySameTables ==
  ASSUME NEW d, DbType(d), Mirror(d), NEW e, DbType(e), Mirror(e), SameTables(d, e),
         NEW cmd \in ConsensusCommand
  PROVE  SameTables(Apply(d, cmd).db, Apply(e, cmd).db)
<1> USE DEF SameTables, Reply, DbType, Tables
<1>1. CASE cmd.op = "RegisterMasterBatch"
  BY <1>1 DEF Apply, ApplyRegisterMasterBatch
<1>2. CASE cmd.op = "ClaimRowRange"
  <2>1. HasBatchOverlap(d, cmd.batch_id, cmd.row_range_start, cmd.row_range_end)
        <=> HasBatchOverlap(e, cmd.batch_id, cmd.row_range_start, cmd.row_range_end)
    BY OverlapFromClaims
  <2> QED BY <1>2, <2>1 DEF Apply, ApplyClaimRowRange
<1>3. CASE cmd.op = "RenewClaim"
  BY <1>3 DEF Apply, ApplyRenewClaim, HeldBy
<1>4. CASE cmd.op = "AckClaim"
  BY <1>4 DEF Apply, ApplyAckClaim, HeldBy
<1>5. CASE cmd.op = "ReleaseClaim"
  BY <1>5 DEF Apply, ApplyReleaseClaim, HeldBy, IncrementReleaseAttempts
<1>6. CASE cmd.op = "Checkpoint"
  BY <1>6 DEF Apply, ApplyCheckpoint
<1>7. CASE cmd.op = "Heartbeat"
  BY <1>7 DEF Apply, ApplyHeartbeat
<1>8. CASE cmd.op = "ReclaimExpired"
  <2> DEFINE now == cmd.now_at_propose
             swept(x) == [c \in DOMAIN x.claims |->
                           IF c \in Expired(x, now)
                           THEN [x.claims[c] EXCEPT !.status = "Pending",
                                                    !.lease_expires_at = 0]
                           ELSE x.claims[c]]
  <2>1. Expired(d, now) = Expired(e, now)
    BY DEF Expired
  <2>2. IncrementReleaseAttempts(d, Expired(d, now)) = IncrementReleaseAttempts(e, Expired(e, now))
    BY <2>1 DEF IncrementReleaseAttempts
  <2>3. swept(d) = swept(e)
    BY <2>1
  <2>4. CASE Expired(d, now) = {}
    BY <1>8, <2>1, <2>4 DEF Apply, ApplyReclaimExpired
  <2>5. CASE Expired(d, now) # {}
    <3>1. ASSUME NEW x, DbType(x), Expired(x, now) # {}
          PROVE  /\ Apply(x, cmd).db.claims = swept(x)
                 /\ Apply(x, cmd).db.batches = IncrementReleaseAttempts(x, Expired(x, now))
                 /\ Apply(x, cmd).db.checkpoints = x.checkpoints
                 /\ Apply(x, cmd).db.instances = x.instances
      BY <1>8, <3>1 DEF Apply, ApplyReclaimExpired
    <3> HIDE DEF swept
    <3>2. /\ Apply(d, cmd).db.claims = swept(d) /\ Apply(e, cmd).db.claims = swept(e)
          /\ Apply(d, cmd).db.batches = Apply(e, cmd).db.batches
          /\ Apply(d, cmd).db.checkpoints = Apply(e, cmd).db.checkpoints
          /\ Apply(d, cmd).db.instances = Apply(e, cmd).db.instances
      BY <2>1, <2>2, <2>5, <3>1
    <3> QED BY <3>2, <2>3
  <2> QED BY <2>4, <2>5
<1>9. CASE cmd.op = "PoisonBatch"
  BY <1>9 DEF Apply, ApplyPoisonBatch
<1>10. cmd.op \in {"RegisterMasterBatch", "ClaimRowRange", "RenewClaim", "AckClaim",
                  "ReleaseClaim", "Checkpoint", "Heartbeat", "ReclaimExpired", "PoisonBatch"}
  BY DEF ConsensusCommand
<1> QED BY <1>1, <1>2, <1>3, <1>4, <1>5, <1>6, <1>7, <1>8, <1>9, <1>10

=============================================================================
