---------------------------- MODULE ClaimLedger ----------------------------
(***************************************************************************)
(* One copy of the consensus state machine under every sequence of         *)
(* commands: what the ledger of batches and claims guarantees by itself,   *)
(* before any assumption on who proposes what and when.                    *)
(*                                                                         *)
(* now_at_propose is the wall clock of the proposing node, so from one     *)
(* command to the next it may go forwards or backwards.  A claim id is a   *)
(* fresh UUID (store.rs mints one per proposal): a second ClaimRowRange    *)
(* with the same id is the same log entry applied again.                   *)
(***************************************************************************)
EXTENDS ArrowStateMachine

CONSTANTS
  RowCounts,          \* the values of total_rows that registrations carry
  MaxNow,             \* bound on now_at_propose
  HeartbeatTimes,     \* the clock values heartbeats carry
  MaxCheckpointSeq    \* bound on checkpoint_seq

ASSUME LedgerAssumption ==
  /\ RowCounts \subseteq Nat
  /\ MaxNow \in Nat
  /\ HeartbeatTimes \subseteq Nat
  /\ MaxCheckpointSeq \in Nat

VARIABLES
  db,       \* the redb database
  minted    \* the ClaimRowRange command each claim id was minted for

vars == <<db, minted>>

Times    == 0..MaxNow
RowBound == {0} \cup UNION {0..n : n \in RowCounts}

Init ==
  /\ db = EmptyDb
  /\ minted = EmptyTable

Commit(cmd) == db' = Apply(db, cmd).db

RegisterMasterBatch(b, rows, size, now) ==
  /\ Commit([op |-> "RegisterMasterBatch", batch_id |-> b, total_rows |-> rows,
             size |-> size, now_at_propose |-> now])
  /\ UNCHANGED minted

ClaimRowRange(c, b, start, end, i, now) ==
  LET cmd == [op |-> "ClaimRowRange", batch_id |-> b, row_range_start |-> start,
              row_range_end |-> end, claim_id |-> c, instance_id |-> i,
              now_at_propose |-> now]
  IN  /\ c \in DOMAIN minted => minted[c] = cmd
      /\ Commit(cmd)
      /\ minted' = Put(minted, c, cmd)

RenewClaim(c, i, now) ==
  /\ Commit([op |-> "RenewClaim", claim_id |-> c, instance_id |-> i,
             now_at_propose |-> now])
  /\ UNCHANGED minted

AckClaim(c, i) ==
  /\ Commit([op |-> "AckClaim", claim_id |-> c, instance_id |-> i])
  /\ UNCHANGED minted

ReleaseClaim(c, i) ==
  /\ Commit([op |-> "ReleaseClaim", claim_id |-> c, instance_id |-> i])
  /\ UNCHANGED minted

(* The counter bound is the model's: the code's u64 has none. *)
Checkpoint(c, stage, payload, size) ==
  /\ \A b \in DOMAIN db.batches : db.batches[b].checkpoint_seq < MaxCheckpointSeq
  /\ Commit([op |-> "Checkpoint", claim_id |-> c, stage_idx |-> stage,
             payload |-> payload, size |-> size])
  /\ UNCHANGED minted

Heartbeat(i, at) ==
  /\ Commit([op |-> "Heartbeat", instance_id |-> i, at |-> at])
  /\ UNCHANGED minted

ReclaimExpired(now) ==
  /\ Commit([op |-> "ReclaimExpired", now_at_propose |-> now])
  /\ UNCHANGED minted

PoisonBatch(b, now) ==
  /\ Commit([op |-> "PoisonBatch", batch_id |-> b, now_at_propose |-> now])
  /\ UNCHANGED minted

(* A snapshot of this very state is installed over it. *)
Reinstall ==
  /\ db' = RestoreState(DumpState(db))
  /\ UNCHANGED minted

Next ==
  \/ \E b \in BatchIds, rows \in RowCounts, size \in Sizes, now \in Times :
       RegisterMasterBatch(b, rows, size, now)
  \/ \E c \in ClaimIds, b \in BatchIds, start, end \in RowBound,
        i \in Instances, now \in Times : ClaimRowRange(c, b, start, end, i, now)
  \/ \E c \in ClaimIds, i \in Instances, now \in Times : RenewClaim(c, i, now)
  \/ \E c \in ClaimIds, i \in Instances : AckClaim(c, i)
  \/ \E c \in ClaimIds, i \in Instances : ReleaseClaim(c, i)
  \/ \E c \in ClaimIds, stage \in Stages, payload \in Payloads, size \in Sizes :
       Checkpoint(c, stage, payload, size)
  \/ \E i \in Instances, at \in HeartbeatTimes : Heartbeat(i, at)
  \/ \E now \in Times : ReclaimExpired(now)
  \/ \E b \in BatchIds, now \in Times : PoisonBatch(b, now)
  \/ Reinstall

Spec == Init /\ [][Next]_vars

----------------------------------------------------------------------------
(* Every table holds records of its type under keys of its type. *)
TypeOK == DbType(db)

(* The claims table and its secondary index say the same: the index has    *)
(* one entry per claim, under the claim's batch, with its range and        *)
(* status.  Every overlap check and scan reads the index only, every       *)
(* ack, release and renew the table only.                                  *)
IndexMirrorsClaims ==
  /\ DOMAIN db.index = {<<db.claims[c].batch_id, c>> : c \in DOMAIN db.claims}
  /\ \A c \in DOMAIN db.claims :
       db.index[<<db.claims[c].batch_id, c>>] =
         [start |-> db.claims[c].row_range_start,
          end |-> db.claims[c].row_range_end,
          status |-> db.claims[c].status]

Overlapping(r, s) ==
  /\ r.batch_id = s.batch_id
  /\ r.row_range_start < s.row_range_end
  /\ s.row_range_start < r.row_range_end

(* At most one claim per row: two different claims that are Claimed or     *)
(* Completed never share a row of a batch, whatever was released,          *)
(* reclaimed, re-registered or replayed in between (partition.rs promises  *)
(* at-most-one claim per row range at any given time).                     *)
NoDoubleClaim ==
  \A c, d \in DOMAIN db.claims :
    /\ c # d
    /\ db.claims[c].status \in Occupying
    /\ db.claims[d].status \in Occupying
    => ~Overlapping(db.claims[c], db.claims[d])

(* A claim record keeps the batch and range its id was minted for, and,    *)
(* unless it went back to Pending, the instance: a release erases the      *)
(* instance, which is what makes a replayed ClaimRowRange of a released    *)
(* claim look new to the idempotency check.                                *)
ClaimsAsMinted ==
  \A c \in DOMAIN db.claims :
    /\ c \in DOMAIN minted
    /\ db.claims[c].batch_id = minted[c].batch_id
    /\ db.claims[c].row_range_start = minted[c].row_range_start
    /\ db.claims[c].row_range_end = minted[c].row_range_end
    /\ db.claims[c].status \in Occupying =>
         db.claims[c].instance_id = minted[c].instance_id

(* An acked range stays acked: no later command, replay or snapshot        *)
(* changes the record of a Completed claim (ack_claim: the row range will  *)
(* not be reclaimed).                                                      *)
CompletedIsFinal ==
  [][\A c \in DOMAIN db.claims :
       db.claims[c].status = "Completed" =>
         c \in DOMAIN db'.claims /\ db'.claims[c] = db.claims[c]]_vars

(* checkpoint_seq counts writes: a step that changes a stored checkpoint   *)
(* changes exactly one and bumps the sequence of its batch by one, and     *)
(* nothing else moves the sequence except a registration, which restarts   *)
(* it at 0.  A repeated Checkpoint with the same content changes neither.  *)
CheckpointSeqExact ==
  [][\A b \in DOMAIN db.batches :
       LET written == {k \in DOMAIN db'.checkpoints :
                         /\ db'.checkpoints[k].batch_id = b
                         /\ k \in DOMAIN db.checkpoints =>
                              db'.checkpoints[k] # db.checkpoints[k]}
           old == db.batches[b].checkpoint_seq
           new == db'.batches[b].checkpoint_seq
       IN  IF written = {} THEN new \in {0, old}
           ELSE Cardinality(written) = 1 /\ new = old + 1]_vars

----------------------------------------------------------------------------
(* The ledger as an implementation of exclusive row ownership *)

Tenure(c) ==
  [claim |-> c, batch |-> db.claims[c].batch_id,
   start |-> db.claims[c].row_range_start, end |-> db.claims[c].row_range_end]

TenuresWith(status) ==
  {Tenure(c) : c \in {c \in DOMAIN db.claims : db.claims[c].status = status}}

Ownership ==
  INSTANCE RowOwnership WITH
    Tenures <- [claim : ClaimIds, batch : BatchIds, start : RowBound, end : RowBound],
    held    <- TenuresWith("Claimed"),
    done    <- TenuresWith("Completed")

(* Whatever commands, replays and snapshots do to the tables, the rows     *)
(* change hands only as PartitionSource promises: a range is granted only  *)
(* when free, finished only while held, and never taken back once done.    *)
ImplementsRowOwnership == Ownership!Spec

----------------------------------------------------------------------------
(* What a comment of the repository says of the ledger and the handlers do *)
(* not keep.                                                               *)

(* apply_poison_batch: find_first_pending_batch never returns a poisoned   *)
(* batch again.                                                            *)
PoisonedNeverScanned ==
  LET found == FindFirstPendingBatch(db)
  IN  found.range # NoRange => db.batches[found.batch_id].status = "Active"
=============================================================================
