------------------------- MODULE ArrowStateMachine -------------------------
(***************************************************************************)
(* The consensus state machine of saci-service: the redb tables behind     *)
(* distributed::consensus::state_machine and the handler of every          *)
(* ConsensusCommand.                                                       *)
(*                                                                         *)
(* A database is one value, a record with a field per table, because every *)
(* handler commits exactly one redb write transaction (or none).  A        *)
(* handler maps a database and a command to a reply: the database after    *)
(* the commit and the ConsensusResponse.  Replicas, crashes, snapshots and *)
(* runners are built on top of these operators by other modules.           *)
(*                                                                         *)
(* Data that no property distinguishes is left out: component, schema_id,  *)
(* created_at and the Arrow bytes of a batch.  A checkpoint keeps an       *)
(* abstract payload, which its content hash identifies.  The length of a   *)
(* payload is one of three classes around MAX_LOG_ENTRY_BYTES.             *)
(***************************************************************************)
EXTENDS PendingScan

CONSTANTS
  BatchIds,     \* u64 batch ids, a set of naturals: tables iterate in this order
  ClaimIds,     \* claim UUIDs
  Instances,    \* runner instance UUIDs
  NoInstance,   \* the all-zero UUID a release writes into the claim
  Stages,       \* stage indexes of checkpoints
  Payloads,     \* contents of checkpoints
  LeaseTtl,     \* lease_ttl_millis
  U32Max        \* where release_attempts saturates

ASSUME StateMachineAssumption ==
  /\ BatchIds \subseteq Nat /\ IsFiniteSet(BatchIds)
  /\ IsFiniteSet(ClaimIds)
  /\ NoInstance \notin Instances
  /\ LeaseTtl \in Nat \ {0}
  /\ U32Max \in Nat \ {0}

ClaimStatus == {"Pending", "Claimed", "Completed"}
Occupying   == {"Claimed", "Completed"}
BatchStatus == {"Active", "Poisoned"}

(* Payload length relative to MAX_LOG_ENTRY_BYTES: below, equal, above. *)
Sizes == {"below", "at_cap", "above"}

NeverPoisoned == -1            \* poisoned_at = None

(***************************************************************************)
(* The tables.  master_batches, claims, claims_by_batch, checkpoints and   *)
(* instances are partial functions from keys to records; pending_batches   *)
(* maps ids to nothing, so it is a set.                                    *)
(***************************************************************************)
MasterBatchRecord ==
  [total_rows : Nat, checkpoint_seq : Nat, release_attempts : 0..U32Max,
   status : BatchStatus, poisoned_at : Nat \cup {NeverPoisoned}]

ClaimRecord ==
  [batch_id : BatchIds, row_range_start : Nat, row_range_end : Nat,
   instance_id : Instances \cup {NoInstance}, lease_expires_at : Nat,
   status : ClaimStatus]

IndexEntry == [start : Nat, end : Nat, status : ClaimStatus]

IsPartialFn(f, S, T) ==
  /\ DOMAIN f \subseteq S
  /\ \A x \in DOMAIN f : f[x] \in T

Tables == {"batches", "claims", "index", "pending", "checkpoints", "instances"}

DbType(d) ==
  /\ DOMAIN d = Tables
  /\ IsPartialFn(d.batches, BatchIds, MasterBatchRecord)
  /\ IsPartialFn(d.claims, ClaimIds, ClaimRecord)
  /\ IsPartialFn(d.index, BatchIds \X ClaimIds, IndexEntry)
  /\ d.pending \subseteq BatchIds
  /\ IsPartialFn(d.checkpoints, ClaimIds \X Stages,
                 [batch_id : BatchIds, payload : Payloads])
  /\ IsPartialFn(d.instances, Instances, Nat)

EmptyTable == [x \in {} |-> {}]

EmptyDb ==
  [batches |-> EmptyTable, claims |-> EmptyTable, index |-> EmptyTable,
   pending |-> {}, checkpoints |-> EmptyTable, instances |-> EmptyTable]

(* Insert-or-replace, the only write redb tables get besides removal. *)
Put(f, k, v) == [x \in DOMAIN f \cup {k} |-> IF x = k THEN v ELSE f[x]]

Reply(db, response) == [db |-> db, response |-> response]

(* Faulty variant: an ordinary addition. *)
SatAddUnbounded(x, n) == x + n

SatAdd(x, n) == IF x + n > U32Max THEN U32Max ELSE x + n

----------------------------------------------------------------------------
(* Reads *)

EntriesOf(db, b) == {k \in DOMAIN db.index : k[1] = b}

(* Faulty variant: a completed range no longer counts as occupied. *)
HasClaimedOverlap(db, b, start, end) ==
  \E k \in EntriesOf(db, b) :
    /\ db.index[k].status = "Claimed"
    /\ start < db.index[k].end
    /\ end > db.index[k].start

(* Faulty variant: a range that was given back still counts as occupied. *)
HasAnyOverlap(db, b, start, end) ==
  \E k \in EntriesOf(db, b) : start < db.index[k].end /\ end > db.index[k].start

HasBatchOverlap(db, b, start, end) ==
  \E k \in EntriesOf(db, b) :
    /\ db.index[k].status \in Occupying
    /\ start < db.index[k].end
    /\ end > db.index[k].start

OccupiedRanges(db, b) ==
  {[start |-> db.index[k].start, end |-> db.index[k].end] :
     k \in {k \in EntriesOf(db, b) : db.index[k].status \in Occupying}}

FindFirstPendingClaim(db, b) ==
  IF b \in DOMAIN db.batches
  THEN FindFirstGap(OccupiedRanges(db, b), db.batches[b].total_rows)
  ELSE NoRange

NothingPending == [batch_id |-> 0, range |-> NoRange]

(* pending_batches iterates in ascending id order; an entry whose batch    *)
(* has no free range left is stale and is skipped.                         *)
FindFirstPendingBatch(db) ==
  LET candidates == {b \in db.pending : FindFirstPendingClaim(db, b) # NoRange}
      first      == Min(candidates)
  IN  IF candidates = {} THEN NothingPending
      ELSE [batch_id |-> first, range |-> FindFirstPendingClaim(db, first)]

----------------------------------------------------------------------------
(* handlers/batch.rs *)

ApplyRegisterMasterBatch(db, cmd) ==
  IF cmd.size # "below" THEN Reply(db, "Error")
  ELSE Reply([db EXCEPT
                !.batches = Put(@, cmd.batch_id,
                                [total_rows |-> cmd.total_rows, checkpoint_seq |-> 0,
                                 release_attempts |-> 0, status |-> "Active",
                                 poisoned_at |-> NeverPoisoned]),
                !.pending = @ \cup {cmd.batch_id}],
             "MasterBatchRegistered")

ApplyPoisonBatch(db, cmd) ==
  LET b == cmd.batch_id
  IN  IF b \notin DOMAIN db.batches THEN Reply(db, "Error")
      ELSE IF db.batches[b].status = "Poisoned" THEN Reply(db, "BatchPoisoned")
      ELSE Reply([db EXCEPT
                    !.batches = Put(@, b, [db.batches[b] EXCEPT
                                             !.status = "Poisoned",
                                             !.poisoned_at = cmd.now_at_propose]),
                    !.pending = @ \ {b}],
                 "BatchPoisoned")

(* The release counters after the claims in `lost` went back to Pending:   *)
(* one bump per claim, nothing for a claim whose batch is gone.            *)
IncrementReleaseAttempts(db, lost) ==
  [b \in DOMAIN db.batches |->
     [db.batches[b] EXCEPT
        !.release_attempts =
           SatAdd(@, Cardinality({c \in lost : db.claims[c].batch_id = b}))]]

ResetReleaseAttempts(batches, b) ==
  [x \in DOMAIN batches |->
     IF x = b THEN [batches[x] EXCEPT !.release_attempts = 0] ELSE batches[x]]

----------------------------------------------------------------------------
(* handlers/claim.rs *)

SameClaim(record, cmd) ==
  /\ record.batch_id = cmd.batch_id
  /\ record.row_range_start = cmd.row_range_start
  /\ record.row_range_end = cmd.row_range_end
  /\ record.instance_id = cmd.instance_id

ApplyClaimRowRange(db, cmd) ==
  LET b == cmd.batch_id
      c == cmd.claim_id
  IN  IF cmd.row_range_start >= cmd.row_range_end THEN Reply(db, "Error")
      ELSE IF c \in DOMAIN db.claims /\ SameClaim(db.claims[c], cmd)
      THEN Reply(db, IF b \in DOMAIN db.batches THEN "BatchClaimed" ELSE "Error")
      ELSE IF b \notin DOMAIN db.batches THEN Reply(db, "Error")
      ELSE IF cmd.row_range_end > db.batches[b].total_rows THEN Reply(db, "Error")
      ELSE IF HasBatchOverlap(db, b, cmd.row_range_start, cmd.row_range_end)
      THEN Reply(db, "Overlap")
      ELSE Reply([db EXCEPT
                    !.claims = Put(@, c,
                                   [batch_id |-> b,
                                    row_range_start |-> cmd.row_range_start,
                                    row_range_end |-> cmd.row_range_end,
                                    instance_id |-> cmd.instance_id,
                                    lease_expires_at |-> cmd.now_at_propose + LeaseTtl,
                                    status |-> "Claimed"]),
                    !.index = Put(@, <<b, c>>,
                                  [start |-> cmd.row_range_start,
                                   end |-> cmd.row_range_end,
                                   status |-> "Claimed"])],
                 "BatchClaimed")

(* Faulty variant: only the owner is compared. *)
OwnedBy(db, c, i) ==
  /\ c \in DOMAIN db.claims
  /\ db.claims[c].instance_id = i

(* The guard shared by renew, ack and release. *)
HeldBy(db, c, i) ==
  /\ c \in DOMAIN db.claims
  /\ db.claims[c].status = "Claimed"
  /\ db.claims[c].instance_id = i

ApplyRenewClaim(db, cmd) ==
  LET c       == cmd.claim_id
      lease   == db.claims[c].lease_expires_at
      renewed == cmd.now_at_propose + LeaseTtl
  IN  IF ~HeldBy(db, c, cmd.instance_id) THEN Reply(db, "Error")
      ELSE IF lease < cmd.now_at_propose THEN Reply(db, "Error")
      ELSE Reply([db EXCEPT
                    !.claims = Put(@, c, [db.claims[c] EXCEPT
                                 !.lease_expires_at = IF lease < renewed THEN renewed
                                                      ELSE lease])],
                 "ClaimRenewed")

(* Faulty variant: the index keeps the old status. *)
IndexLeftAlone(db, c, status) == db.index

(* Move claim c to `status` in the primary table and in the index. *)
SetIndexStatus(db, c, status) ==
  Put(db.index, <<db.claims[c].batch_id, c>>,
      [start |-> db.claims[c].row_range_start,
       end |-> db.claims[c].row_range_end,
       status |-> status])

(* The batch leaves pending_batches when no entry of it in the updated     *)
(* index has another status than Completed.                                *)
ApplyAckClaim(db, cmd) ==
  LET c     == cmd.claim_id
      b     == db.claims[c].batch_id
      index == SetIndexStatus(db, c, "Completed")
      allComplete == \A k \in DOMAIN index : k[1] = b => index[k].status = "Completed"
  IN  IF ~HeldBy(db, c, cmd.instance_id) THEN Reply(db, "Error")
      ELSE Reply([db EXCEPT
                    !.claims  = Put(@, c, [db.claims[c] EXCEPT !.status = "Completed",
                                                               !.lease_expires_at = 0]),
                    !.index   = index,
                    !.pending = IF allComplete THEN @ \ {b} ELSE @,
                    !.batches = ResetReleaseAttempts(@, b)],
                 "ClaimAcked")

ApplyReleaseClaim(db, cmd) ==
  LET c == cmd.claim_id
  IN  IF ~HeldBy(db, c, cmd.instance_id) THEN Reply(db, "Error")
      ELSE Reply([db EXCEPT
                    !.claims  = Put(@, c, [db.claims[c] EXCEPT !.status = "Pending",
                                                               !.lease_expires_at = 0,
                                                               !.instance_id = NoInstance]),
                    !.index   = SetIndexStatus(db, c, "Pending"),
                    !.batches = IncrementReleaseAttempts(db, {c})],
                 "ClaimReleased")

ApplyHeartbeat(db, cmd) ==
  Reply([db EXCEPT !.instances = Put(@, cmd.instance_id, cmd.at)], "HeartbeatRecorded")

(* Faulty variant: a lease is over in its last millisecond. *)
ExpiredOnDeadline(db, now) ==
  {c \in DOMAIN db.claims : /\ db.claims[c].status = "Claimed"
                            /\ db.claims[c].lease_expires_at <= now}

Expired(db, now) ==
  {c \in DOMAIN db.claims : /\ db.claims[c].status = "Claimed"
                            /\ db.claims[c].lease_expires_at < now}

(* Unlike a release, the sweep leaves the instance_id of the claim. *)
ApplyReclaimExpired(db, cmd) ==
  LET expired == Expired(db, cmd.now_at_propose)
      key(c)  == <<db.claims[c].batch_id, c>>
  IN  IF expired = {} THEN Reply(db, "ExpiredReclaimed")
      ELSE Reply([db EXCEPT
        !.claims = [c \in DOMAIN db.claims |->
                      IF c \in expired
                      THEN [db.claims[c] EXCEPT !.status = "Pending",
                                                !.lease_expires_at = 0]
                      ELSE db.claims[c]],
        !.index = [k \in DOMAIN db.index \cup {key(c) : c \in expired} |->
                     IF k[2] \in expired /\ k = key(k[2])
                     THEN [start |-> db.claims[k[2]].row_range_start,
                           end |-> db.claims[k[2]].row_range_end,
                           status |-> "Pending"]
                     ELSE db.index[k]],
        !.batches = IncrementReleaseAttempts(db, expired)],
        "ExpiredReclaimed")

----------------------------------------------------------------------------
(* handlers/checkpoint.rs *)

(* Faulty variant: a repeated write of the same content counts again. *)
ApplyCheckpointAlways(db, cmd) ==
  LET b == db.claims[cmd.claim_id].batch_id
  IN  IF cmd.size # "below" \/ cmd.claim_id \notin DOMAIN db.claims
      THEN Reply(db, "Error")
      ELSE Reply([db EXCEPT
                    !.batches = [x \in DOMAIN db.batches |->
                                   IF x = b THEN [@[x] EXCEPT !.checkpoint_seq = @ + 1]
                                   ELSE @[x]],
                    !.checkpoints = Put(@, <<cmd.claim_id, cmd.stage_idx>>,
                                        [batch_id |-> b, payload |-> cmd.payload])],
                 "CheckpointWritten")

(* Any claim that exists may be checkpointed, whatever its status.  A      *)
(* repeat of the stored payload writes nothing.                            *)
ApplyCheckpoint(db, cmd) ==
  LET key == <<cmd.claim_id, cmd.stage_idx>>
      b   == db.claims[cmd.claim_id].batch_id
  IN  IF cmd.size # "below" \/ cmd.claim_id \notin DOMAIN db.claims
      THEN Reply(db, "Error")
      ELSE IF key \in DOMAIN db.checkpoints /\ db.checkpoints[key].payload = cmd.payload
      THEN Reply(db, "CheckpointWritten")
      ELSE Reply([db EXCEPT
                    !.batches = IF b \in DOMAIN db.batches
                                THEN Put(@, b, [db.batches[b] EXCEPT
                                                  !.checkpoint_seq = @ + 1])
                                ELSE @,
                    !.checkpoints = Put(@, key, [batch_id |-> b, payload |-> cmd.payload])],
                 "CheckpointWritten")

----------------------------------------------------------------------------
(* state_machine::apply *)

ConsensusCommand ==
       [op : {"RegisterMasterBatch"}, batch_id : BatchIds, total_rows : Nat,
        size : Sizes, now_at_propose : Nat]
  \cup [op : {"ClaimRowRange"}, batch_id : BatchIds, row_range_start : Nat,
        row_range_end : Nat, claim_id : ClaimIds, instance_id : Instances,
        now_at_propose : Nat]
  \cup [op : {"RenewClaim"}, claim_id : ClaimIds, instance_id : Instances,
        now_at_propose : Nat]
  \cup [op : {"AckClaim", "ReleaseClaim"}, claim_id : ClaimIds, instance_id : Instances]
  \cup [op : {"Checkpoint"}, claim_id : ClaimIds, stage_idx : Stages,
        payload : Payloads, size : Sizes]
  \cup [op : {"Heartbeat"}, instance_id : Instances, at : Nat]
  \cup [op : {"ReclaimExpired"}, now_at_propose : Nat]
  \cup [op : {"PoisonBatch"}, batch_id : BatchIds, now_at_propose : Nat]

Apply(db, cmd) ==
  CASE cmd.op = "RegisterMasterBatch" -> ApplyRegisterMasterBatch(db, cmd)
    [] cmd.op = "ClaimRowRange"       -> ApplyClaimRowRange(db, cmd)
    [] cmd.op = "RenewClaim"          -> ApplyRenewClaim(db, cmd)
    [] cmd.op = "AckClaim"            -> ApplyAckClaim(db, cmd)
    [] cmd.op = "ReleaseClaim"        -> ApplyReleaseClaim(db, cmd)
    [] cmd.op = "Checkpoint"          -> ApplyCheckpoint(db, cmd)
    [] cmd.op = "Heartbeat"           -> ApplyHeartbeat(db, cmd)
    [] cmd.op = "ReclaimExpired"      -> ApplyReclaimExpired(db, cmd)
    [] cmd.op = "PoisonBatch"         -> ApplyPoisonBatch(db, cmd)

----------------------------------------------------------------------------
(* snapshot_io.rs *)

DumpState(db) ==
  [batches |-> db.batches, claims |-> db.claims,
   checkpoints |-> db.checkpoints, instances |-> db.instances]

(* Faulty variant: the claim index is not rebuilt. *)
RestoreWithoutIndex(dump) ==
  [batches |-> dump.batches, claims |-> dump.claims, index |-> EmptyTable,
   pending |-> DOMAIN dump.batches, checkpoints |-> dump.checkpoints,
   instances |-> dump.instances]

(* Every registered batch becomes pending again and the claim index is     *)
(* rebuilt from the claims.                                                *)
RestoreState(dump) ==
  [batches     |-> dump.batches,
   claims      |-> dump.claims,
   index       |-> [k \in {<<dump.claims[c].batch_id, c>> : c \in DOMAIN dump.claims} |->
                      [start |-> dump.claims[k[2]].row_range_start,
                       end |-> dump.claims[k[2]].row_range_end,
                       status |-> dump.claims[k[2]].status]],
   pending     |-> DOMAIN dump.batches,
   checkpoints |-> dump.checkpoints,
   instances   |-> dump.instances]
=============================================================================
