------------------------- MODULE DistributedRunner -------------------------
(***************************************************************************)
(* Runners of a cluster (distributed/runner.rs, driven by the loop of      *)
(* service/cluster.rs) that claim, execute, checkpoint and ack the rows of *)
(* registered batches through RedbSharedStore (consensus/store.rs).        *)
(*                                                                         *)
(* db is the replicated state machine as the leader has applied it.  A     *)
(* runner on the leader reads it directly; a runner on a follower reads    *)
(* the copy of its own node, which may lag.  A store call is one step      *)
(* that ends in an answer, or in an error or timeout after which the       *)
(* command is lost or commits later.                                       *)
(*                                                                         *)
(* Every node stamps its proposals with its own clock.  now is the clock   *)
(* that is furthest behind; the others are up to MaxSkew ahead of it, by   *)
(* any amount at any moment.                                               *)
(*                                                                         *)
(* A payload is named by the claim whose execution produced it; an empty   *)
(* one is never stored.                                                    *)
(***************************************************************************)
EXTENDS ArrowStateMachine

CONSTANTS
  Followers,            \* instances whose node is not the leader
  NoClaim,              \* "None" in an Option<Uuid>
  RowsPerBatch,         \* total_rows of every registered batch
  SaveStages,           \* stages saved in this order: data, then chained ones
  SweepInterval,        \* sweep_interval, in ticks
  IdlePause,            \* IDLE_POLL_INTERVAL, in ticks
  MaxConflictRetries,   \* MAX_CONFLICT_RETRIES
  MaxSkew,              \* how far the clock of a node may be ahead of another
  MaxNow,               \* bound on the slowest clock
  MaxFaults             \* bound on crashes, failed calls and failed executions

ASSUME RunnerAssumption ==
  /\ Followers \subseteq Instances
  /\ NoClaim \notin ClaimIds
  /\ ClaimIds \subseteq Nat
  /\ ClaimIds = Payloads
  /\ RowsPerBatch \in Nat
  /\ SaveStages \in Seq(Stages) /\ Len(SaveStages) > 0 /\ IsInjective(SaveStages)
  /\ SweepInterval \in Nat \ {0} /\ IdlePause \in 0..SweepInterval
  /\ MaxConflictRetries \in Nat \ {0}
  /\ MaxSkew \in Nat /\ MaxNow \in Nat /\ MaxFaults \in Nat

VARIABLES
  db,        \* the state machine on the leader
  replica,   \* per follower: the database its node reads
  late,      \* commands whose caller gave up and that may still commit
  now,       \* the clock that is furthest behind
  faults,    \* faults so far
  pc,        \* per runner: where run_with_shutdown is
  after,     \* per runner: where it goes after release_with_log
  claim,     \* per runner: the BatchClaim in hand
  scanned,   \* per runner: the result of scan_pending
  attempt,   \* per runner: attempt of claim_next_batch
  step,      \* per runner: position in SaveStages
  chain,     \* per runner: accumulator_claim_id and state_claim_id
  kept,      \* per runner: what the runtime left to keep (history)
  prior,     \* per runner: the payloads handed to the runtime
  timer,     \* per runner: ticks until next_sweep, or of the idle pause
  processed  \* the claims whose ack some runner saw succeed

ledger == <<db, replica, late, faults>>
local  == <<after, claim, scanned, attempt, step, chain, kept, prior, timer>>
vars   == <<ledger, now, pc, local, processed>>

Chained == {SaveStages[k] : k \in 2..Len(SaveStages)}
NoChain == [s \in Chained |-> NoClaim]

(* Batches are registered before the runners start. *)
RegisteredDb(batches) ==
  LET record == [total_rows |-> RowsPerBatch, checkpoint_seq |-> 0, release_attempts |-> 0,
                 status |-> "Active", poisoned_at |-> NeverPoisoned]
  IN  [EmptyDb EXCEPT !.batches = [b \in batches |-> record], !.pending = batches]

Init ==
  /\ db \in {RegisteredDb(batches) : batches \in SUBSET BatchIds}
  /\ replica = [i \in Followers |-> db]
  /\ late = {}
  /\ now = 0
  /\ faults = 0
  /\ pc = [i \in Instances |-> "idle"]
  /\ after = [i \in Instances |-> "idle"]
  /\ claim = [i \in Instances |-> NoClaim]
  /\ scanned = [i \in Instances |-> NothingPending]
  /\ attempt = [i \in Instances |-> 0]
  /\ step = [i \in Instances |-> 1]
  /\ chain = [i \in Instances |-> NoChain]
  /\ kept = [i \in Instances |-> NoChain]
  /\ prior = [i \in Instances |-> NoChain]
  /\ timer = [i \in Instances |-> 0]
  /\ processed = {}

----------------------------------------------------------------------------
(* consensus/store.rs: propose, and reads of the local replica *)

LocalDb(i) == IF i \in Followers THEN replica[i] ELSE db

Fault == faults < MaxFaults /\ faults' = faults + 1

(* The command is committed, applied by the leader and answered. *)
Answered(cmd, response) ==
  /\ Apply(db, cmd).response = response
  /\ db' = Apply(db, cmd).db
  /\ UNCHANGED <<replica, late, faults>>

(* The call fails: no leader, a broken forward, or the propose timeout,    *)
(* which leaves a command behind that may commit after all.                *)
NotAnswered(cmd) ==
  /\ Fault
  /\ late' \in {late, late \cup {cmd}}
  /\ UNCHANGED <<db, replica>>

CommitLate(cmd) ==
  /\ db' = Apply(db, cmd).db
  /\ late' = late \ {cmd}
  /\ UNCHANGED <<replica, now, faults, pc, local, processed>>

(* A follower applies what the leader has committed. *)
CatchUp(i) ==
  /\ replica' = [replica EXCEPT ![i] = db]
  /\ UNCHANGED <<db, late, now, faults, pc, local, processed>>

(* Time passes.  The clocks saturate: by then every lease granted before   *)
(* has run out.                                                            *)
Tick ==
  /\ now' = IF now < MaxNow THEN now + 1 ELSE now
  /\ timer' = [i \in Instances |-> IF timer[i] > 0 THEN timer[i] - 1 ELSE 0]
  /\ UNCHANGED <<ledger, pc, after, claim, scanned, attempt, step, chain, kept, prior, processed>>

----------------------------------------------------------------------------
(* service/cluster.rs and the head of run_with_shutdown *)

(* SystemTime::now() of some node. *)
Stamps == now..(now + MaxSkew)

Goto(i, place) == pc' = [pc EXCEPT ![i] = place]

(* Drop the claim in hand on the way out of an iteration; out of run() the *)
(* cluster loop pauses.                                                    *)
Leave(i, place) ==
  /\ Goto(i, place)
  /\ claim' = [claim EXCEPT ![i] = NoClaim]
  /\ prior' = [prior EXCEPT ![i] = NoChain]
  /\ scanned' = [scanned EXCEPT ![i] = NothingPending]
  /\ attempt' = [attempt EXCEPT ![i] = 0]
  /\ step' = [step EXCEPT ![i] = 1]
  /\ after' = [after EXCEPT ![i] = "idle"]
  /\ timer' = IF place = "idle" THEN [timer EXCEPT ![i] = IdlePause] ELSE timer

(* The cluster loop enters run(), which starts a fresh sweep deadline and  *)
(* forgets the chains of the previous call.                                *)
Enter(i) ==
  /\ pc[i] = "idle" /\ timer[i] = 0
  /\ Goto(i, "loop")
  /\ timer' = [timer EXCEPT ![i] = SweepInterval]
  /\ chain' = [chain EXCEPT ![i] = NoChain]
  /\ kept' = [kept EXCEPT ![i] = NoChain]
  /\ UNCHANGED <<ledger, now, after, claim, scanned, attempt, step, prior, processed>>

(* A due sweep is proposed; whatever becomes of it, the loop goes on. *)
Sweep(i) ==
  /\ pc[i] = "loop" /\ timer[i] = 0
  /\ \E at \in Stamps :
       LET cmd == [op |-> "ReclaimExpired", now_at_propose |-> at]
       IN  Answered(cmd, "ExpiredReclaimed") \/ NotAnswered(cmd)
  /\ timer' = [timer EXCEPT ![i] = SweepInterval]
  /\ Goto(i, "scan")
  /\ UNCHANGED <<now, after, claim, scanned, attempt, step, chain, kept, prior, processed>>

SkipSweep(i) ==
  /\ pc[i] = "loop" /\ timer[i] > 0
  /\ Goto(i, "scan")
  /\ UNCHANGED <<ledger, now, local, processed>>

----------------------------------------------------------------------------
(* consensus/store.rs: claim_next_batch *)

(* Nothing pending in the local replica: run() returns. *)
ScanEmpty(i) ==
  /\ pc[i] = "scan"
  /\ FindFirstPendingBatch(LocalDb(i)) = NothingPending
  /\ Leave(i, "idle")
  /\ UNCHANGED <<ledger, now, chain, kept, processed>>

Scan(i) ==
  /\ pc[i] = "scan"
  /\ FindFirstPendingBatch(LocalDb(i)) # NothingPending
  /\ scanned' = [scanned EXCEPT ![i] = FindFirstPendingBatch(LocalDb(i))]
  /\ Goto(i, "propose")
  /\ UNCHANGED <<ledger, now, after, claim, attempt, step, chain, kept, prior, timer, processed>>

(* A fresh UUID.  An id whose proposal left no trace is free again. *)
Traced == DOMAIN db.claims \cup {cmd.claim_id : cmd \in {l \in late : "claim_id" \in DOMAIN l}}
Fresh  == Min(ClaimIds \ Traced)

ClaimCommand(i, at) ==
  [op |-> "ClaimRowRange", batch_id |-> scanned[i].batch_id,
   row_range_start |-> scanned[i].range.start, row_range_end |-> scanned[i].range.end,
   claim_id |-> Fresh, instance_id |-> i, now_at_propose |-> at]

Proposing(i) == pc[i] = "propose" /\ ClaimIds \ Traced # {}

Claimed(i) ==
  /\ Proposing(i)
  /\ \E at \in Stamps : Answered(ClaimCommand(i, at), "BatchClaimed")
  /\ claim' = [claim EXCEPT ![i] = Fresh]
  /\ scanned' = [scanned EXCEPT ![i] = NothingPending]
  /\ attempt' = [attempt EXCEPT ![i] = 0]
  /\ Goto(i, "load")
  /\ UNCHANGED <<now, after, step, chain, kept, prior, timer, processed>>

RetriesLeft(i) == attempt[i] + 1 < MaxConflictRetries

(* Another instance won the race: back off and scan again, a bounded       *)
(* number of times.                                                        *)
ClaimConflict(i) ==
  /\ Proposing(i)
  /\ \E at \in Stamps : Answered(ClaimCommand(i, at), "Overlap")
  /\ \/ /\ RetriesLeft(i)
        /\ attempt' = [attempt EXCEPT ![i] = @ + 1]
        /\ scanned' = [scanned EXCEPT ![i] = NothingPending]
        /\ Goto(i, "scan")
        /\ UNCHANGED <<after, claim, step, prior, timer>>
     \/ ~RetriesLeft(i) /\ Leave(i, "idle")
  /\ UNCHANGED <<now, chain, kept, processed>>

(* Without a leader the answer is NoBatchAvailable, so run() ends as it    *)
(* does without work; any other failed call ends it with an error.         *)
ClaimFails(i) ==
  /\ Proposing(i)
  /\ \E at \in Stamps : NotAnswered(ClaimCommand(i, at))
  /\ Leave(i, "idle")
  /\ UNCHANGED <<now, chain, kept, processed>>

----------------------------------------------------------------------------
(* runner.rs: load, renew, execute *)

(* What the chained stage s was left at, as the local replica shows it. *)
Loaded(i, s) ==
  LET key == <<chain[i][s], s>>
  IN  IF key \in DOMAIN LocalDb(i).checkpoints
      THEN LocalDb(i).checkpoints[key].payload ELSE NoClaim

Load(i) ==
  /\ pc[i] = "load"
  /\ prior' = [prior EXCEPT ![i] = [s \in Chained |-> Loaded(i, s)]]
  /\ Goto(i, "renew")
  /\ UNCHANGED <<ledger, now, after, claim, scanned, attempt, step, chain, kept, timer, processed>>

ReleaseThen(i, place) ==
  /\ Goto(i, "release")
  /\ after' = [after EXCEPT ![i] = place]
  /\ UNCHANGED <<claim, scanned, attempt, step, chain, kept, prior, timer>>

(* An unreadable checkpoint releases the claim; accumulator rows that do   *)
(* not decode end run() with the claim still held.                         *)
LoadFails(i) ==
  /\ pc[i] = "load"
  /\ chain[i] # NoChain
  /\ Fault
  /\ \/ ReleaseThen(i, "loop")
     \/ Leave(i, "idle") /\ UNCHANGED <<chain, kept>>
  /\ UNCHANGED <<db, replica, late, now, processed>>

RenewCommand(i, at) ==
  [op |-> "RenewClaim", claim_id |-> claim[i], instance_id |-> i, now_at_propose |-> at]

Renewed(i) == \E at \in Stamps : Answered(RenewCommand(i, at), "ClaimRenewed")

RenewFails(i) ==
  \E at \in Stamps :
    Answered(RenewCommand(i, at), "Error") \/ NotAnswered(RenewCommand(i, at))

(* should_renew looks at the time since the grant only. *)
RenewFirst(i) ==
  /\ pc[i] = "renew"
  /\ \/ Goto(i, "run") /\ UNCHANGED <<ledger, local>>
     \/ Renewed(i) /\ Goto(i, "run") /\ UNCHANGED local
     \/ RenewFails(i) /\ ReleaseThen(i, "idle")
  /\ UNCHANGED <<now, processed>>

(* The renewal branch of the select: a failed renewal cancels the run. *)
RenewWhileRunning(i) ==
  /\ pc[i] = "run"
  /\ \/ Renewed(i) /\ UNCHANGED <<pc, local>>
     \/ RenewFails(i) /\ ReleaseThen(i, "loop")
  /\ UNCHANGED <<now, processed>>

RunSucceeds(i) ==
  /\ pc[i] = "run"
  /\ Goto(i, "save")
  /\ UNCHANGED <<ledger, now, local, processed>>

RunFails(i) ==
  /\ pc[i] = "run"
  /\ Fault
  /\ ReleaseThen(i, "idle")
  /\ UNCHANGED <<db, replica, late, now, processed>>

----------------------------------------------------------------------------
(* runner.rs: checkpoint, accumulator, state, ack *)

SaveCommand(i) ==
  [op |-> "Checkpoint", claim_id |-> claim[i], stage_idx |-> SaveStages[step[i]],
   payload |-> claim[i], size |-> "below"]

NextSave(i) ==
  /\ IF step[i] < Len(SaveStages)
     THEN step' = [step EXCEPT ![i] = @ + 1] /\ UNCHANGED pc
     ELSE UNCHANGED step /\ Goto(i, "ack")
  /\ UNCHANGED <<after, claim, scanned, attempt, prior, timer>>

(* f with x for the chained stage, if any, that i is about to save. *)
AtStage(f, i, x) ==
  [f EXCEPT ![i] = [s \in Chained |-> IF s = SaveStages[step[i]] THEN x ELSE @[s]]]

(* A chain moves to this claim once the save is durable. *)
Save(i) ==
  /\ pc[i] = "save"
  /\ Answered(SaveCommand(i), "CheckpointWritten")
  /\ chain' = AtStage(chain, i, claim[i])
  /\ kept' = AtStage(kept, i, claim[i])
  /\ NextSave(i)
  /\ UNCHANGED <<now, processed>>

(* An empty blob, or a dataset without accumulator: the save succeeds      *)
(* without a write, and the chain moves to a key that is not there.        *)
SaveEmpty(i) ==
  /\ pc[i] = "save" /\ step[i] > 1
  /\ chain' = AtStage(chain, i, claim[i])
  /\ kept' = AtStage(kept, i, NoClaim)
  /\ NextSave(i)
  /\ UNCHANGED <<ledger, now, processed>>

(* The runtime returned no state blob: the chain stays where it was. *)
SaveNothing(i) ==
  /\ pc[i] = "save" /\ step[i] = Len(SaveStages) /\ step[i] > 1
  /\ NextSave(i)
  /\ UNCHANGED <<ledger, chain, kept, now, processed>>

(* Faulty variant: a failed save is only logged, and the chain moves on. *)
SaveFailsIgnored(i) ==
  /\ pc[i] = "save"
  /\ \/ NotAnswered(SaveCommand(i))
     \/ Fault /\ UNCHANGED <<db, replica, late>>
  /\ chain' = AtStage(chain, i, claim[i])
  /\ kept' = AtStage(kept, i, claim[i])
  /\ NextSave(i)
  /\ UNCHANGED <<now, processed>>

(* A failed or an oversize save, which no layer writes, gives the claim    *)
(* back.                                                                   *)
SaveFails(i) ==
  /\ pc[i] = "save"
  /\ \/ NotAnswered(SaveCommand(i))
     \/ Fault /\ UNCHANGED <<db, replica, late>>
  /\ ReleaseThen(i, "loop")
  /\ UNCHANGED <<now, processed>>

AckCommand(i) == [op |-> "AckClaim", claim_id |-> claim[i], instance_id |-> i]

Ack(i) ==
  /\ pc[i] = "ack"
  /\ Answered(AckCommand(i), "ClaimAcked")
  /\ processed' = processed \cup {claim[i]}
  /\ Leave(i, "loop")
  /\ UNCHANGED <<now, chain, kept>>

(* A rejected or unanswered ack ends run() without a release. *)
AckFails(i) ==
  /\ pc[i] = "ack"
  /\ Answered(AckCommand(i), "Error") \/ NotAnswered(AckCommand(i))
  /\ Leave(i, "idle")
  /\ UNCHANGED <<now, chain, kept, processed>>

(* release_with_log: an error is logged and forgotten. *)
Release(i) ==
  LET cmd == [op |-> "ReleaseClaim", claim_id |-> claim[i], instance_id |-> i]
  IN  /\ pc[i] = "release"
      /\ \/ \E response \in {"ClaimReleased", "Error"} : Answered(cmd, response)
         \/ NotAnswered(cmd)
      /\ Leave(i, after[i])
      /\ UNCHANGED <<now, chain, kept, processed>>

(* The process dies, or cancellation drops the run, at any await; after a  *)
(* restart the runner is back in the cluster loop and knows no claim.      *)
Crash(i) ==
  /\ pc[i] # "idle"
  /\ Fault
  /\ Leave(i, "idle")
  /\ UNCHANGED <<db, replica, late, now, chain, kept, processed>>

Step(i) ==
  \/ Enter(i) \/ Sweep(i) \/ SkipSweep(i)
  \/ ScanEmpty(i) \/ Scan(i) \/ Claimed(i) \/ ClaimConflict(i) \/ ClaimFails(i)
  \/ Load(i) \/ LoadFails(i) \/ RenewFirst(i) \/ RunSucceeds(i) \/ RunFails(i)
  \/ Save(i) \/ SaveEmpty(i) \/ SaveNothing(i) \/ SaveFails(i) \/ Ack(i) \/ AckFails(i) \/ Release(i)

Next ==
  \/ \E i \in Instances : Step(i) \/ RenewWhileRunning(i) \/ Crash(i)
  \/ \E cmd \in late : CommitLate(cmd)
  \/ \E i \in Followers : CatchUp(i)
  \/ Tick

Spec == Init /\ [][Next]_vars

(* Tokio polls every task, executions end, replication goes on and time    *)
(* passes.  Nothing makes a lost command commit.                           *)
Fairness ==
  /\ \A i \in Instances : WF_vars(Step(i))
  /\ \A i \in Followers : WF_vars(CatchUp(i))
  /\ WF_vars(Tick)

FairSpec == Spec /\ Fairness
----------------------------------------------------------------------------
Working == {"load", "renew", "run", "save", "ack"}

(* A batch whose state could not be saved is never acked: every Completed  *)
(* claim has the data checkpoint of its own execution, whichever calls     *)
(* were lost, late or answered to a runner that had lost the claim.        *)
AckedIsSaved ==
  \A c \in DOMAIN db.claims :
    db.claims[c].status = "Completed" =>
      /\ <<c, SaveStages[1]>> \in DOMAIN db.checkpoints
      /\ db.checkpoints[<<c, SaveStages[1]>>].payload = c

(* Several runners may execute the same rows, one after it lost its        *)
(* lease; the runners together still count every row at most once, and     *)
(* only rows the ledger has as Completed.                                  *)
CountedOnce ==
  /\ \A c \in processed : db.claims[c].status = "Completed"
  /\ \A c, d \in processed :
       c # d => \/ db.claims[c].batch_id # db.claims[d].batch_id
                \/ db.claims[c].row_range_end <= db.claims[d].row_range_start
                \/ db.claims[d].row_range_end <= db.claims[c].row_range_start

(* Nobody takes a claim from a runner at work before the lease runs out,   *)
(* give or take the difference between two clocks: not a sweep of a node   *)
(* whose clock is ahead, not a sweep, release or renewal whose caller gave *)
(* up on it and that commits at any later time.                            *)
LeaseProtectsWork ==
  [][\A i \in Instances :
       /\ pc[i] \in Working
       /\ db.claims[claim[i]].status = "Claimed"
       /\ db'.claims[claim[i]].status = "Pending"
       => db.claims[claim[i]].lease_expires_at < now + MaxSkew]_vars

(* On the leader's node the runtime gets back, for every chained stage,    *)
(* exactly what it last left to keep in this run(), also across failed     *)
(* saves, empty blobs and claims that came to nothing (runner.rs: whatever *)
(* run_on_with_state returned on this runner's previous batch, handed      *)
(* straight back).  On a follower the replica it loads from may not have   *)
(* the save yet, and the runtime starts cold.                              *)
StateHandedBack ==
  \A i \in Instances \ Followers :
    pc[i] \in {"renew", "run"} => prior[i] = kept[i]

RowDone(b, row) ==
  \E c \in DOMAIN db.claims : /\ db.claims[c].batch_id = b
                              /\ db.claims[c].status = "Completed"
                              /\ row \in db.claims[c].row_range_start..(db.claims[c].row_range_end - 1)

(* Without faults the cluster finishes all registered work, although       *)
(* runners race for ranges, scan stale replicas and may be so slow that    *)
(* their leases run out.                                                   *)
AllRowsDone ==
  [](faults = 0) => <>[](\A b \in DOMAIN db.batches : \A row \in 0..(RowsPerBatch - 1) : RowDone(b, row))

Orphaned(c) ==
  /\ c \in DOMAIN db.claims
  /\ db.claims[c].status = "Claimed"
  /\ db.claims[c].lease_expires_at < now
  /\ \A i \in Instances : claim[i] # c

(* runner.rs: the sweep recycles orphaned leases from crashed runners      *)
(* without operator intervention.                                          *)
OrphanedLeaseRecycled == \A c \in ClaimIds : Orphaned(c) ~> ~Orphaned(c)
=============================================================================
