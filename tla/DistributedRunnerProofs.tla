----------------------- MODULE DistributedRunnerProofs -----------------------
(***************************************************************************)
(* Runners and their ledger, for any number of instances, batches and      *)
(* faults.  The invariant has a part about the ledger alone, which every   *)
(* command keeps that a runner may have on its way (LedgerInv), and a part *)
(* about the runners, which relies on the ledger only growing (LocalInv).  *)
(***************************************************************************)
EXTENDS DistributedRunner, ArrowStateMachineProofs, PendingScanProofs

Places   == {"idle", "loop", "scan", "propose", "release"} \cup Working
InHand   == Working \cup {"release"}
Pending  == [batch_id : BatchIds, range : RowRange]
MaybeClaim == ClaimIds \cup {NoClaim}

LocalType ==
  /\ pc \in [Instances -> Places]
  /\ after \in [Instances -> {"idle", "loop"}]
  /\ claim \in [Instances -> MaybeClaim]
  /\ scanned \in [Instances -> Pending \cup {NothingPending}]
  /\ step \in [Instances -> 1..Len(SaveStages)]

(* The data checkpoint of claim c is there. *)
Saved(d, c) == <<c, SaveStages[1]>> \in DOMAIN d.checkpoints

DbInv(d) ==
  /\ DbType(d) /\ Mirror(d) /\ Exclusive(d)
  /\ \A k \in DOMAIN d.checkpoints : d.checkpoints[k].payload = k[1]
  /\ \A c \in DOMAIN d.claims : d.claims[c].status = "Completed" => Saved(d, c)

(* A command that a runner may have on its way to ledger d at time t. *)
Proper(d, t, cmd) ==
  /\ cmd \in ConsensusCommand
  /\ cmd.op \in {"ClaimRowRange", "RenewClaim", "AckClaim", "ReleaseClaim",
                 "Checkpoint", "ReclaimExpired"}
  /\ cmd.op = "ClaimRowRange" => cmd.claim_id \notin DOMAIN d.claims
  /\ cmd.op = "Checkpoint" => cmd.payload = cmd.claim_id
  /\ cmd.op = "AckClaim" => Saved(d, cmd.claim_id)
  /\ cmd.op = "ReclaimExpired" => cmd.now_at_propose <= t

(* The clock that is furthest ahead. *)
Latest == now + MaxSkew

(* No command in L asks for the claim id of cmd. *)
Untaken(cmd, L) ==
  cmd.op = "ClaimRowRange" =>
    \A l \in L : l.op = "ClaimRowRange" => l.claim_id # cmd.claim_id

LedgerInv ==
  /\ DbInv(db)
  /\ \A l \in late : Proper(db, Latest, l) /\ Untaken(l, late \ {l})
  /\ now \in Nat

LocalInv ==
  /\ LocalType
  /\ DOMAIN replica = Followers
  /\ \A i \in Followers : DbType(replica[i])
  /\ \A i \in Instances :
       /\ pc[i] = "propose" => scanned[i] \in Pending
       /\ pc[i] \in InHand => claim[i] \in DOMAIN db.claims
       /\ pc[i] \notin {"save", "ack", "release"} => step[i] = 1
       /\ pc[i] = "ack" \/ (pc[i] = "save" /\ step[i] > 1) => Saved(db, claim[i])

(* Claims in hand are in one hand, and no release of them is on its way. *)
HandInv ==
  \A i \in Instances : pc[i] \in InHand =>
    /\ \A j \in Instances : pc[j] \in InHand /\ claim[j] = claim[i] => j = i
    /\ \A l \in late : l.op = "ReleaseClaim" => l.claim_id # claim[i]

ProcessedInv ==
  \A c \in processed : c \in DOMAIN db.claims /\ db.claims[c].status = "Completed"

RunnerInv == LedgerInv /\ LocalInv /\ HandInv /\ ProcessedInv

----------------------------------------------------------------------------
(* The scan of a whole database *)

(* A database has finitely many occupied ranges. *)
LEMMA OccupiedFinite ==
  ASSUME NEW d, DbType(d), NEW b
  PROVE  /\ OccupiedRanges(d, b) \in SUBSET RowRange
         /\ IsFiniteSet(OccupiedRanges(d, b))
<1> DEFINE range(k) == [start |-> d.index[k].start, end |-> d.index[k].end]
           f == [c \in ClaimIds |-> range(<<b, c>>)]
           K == {k \in EntriesOf(d, b) : d.index[k].status \in Occupying}
<1>1. \A k \in K : k \in DOMAIN d.index /\ k[1] = b
  BY DEF EntriesOf
<1>2. \A k \in K : k[2] \in ClaimIds /\ k = <<b, k[2]>> /\ d.index[k] \in IndexEntry
  BY <1>1 DEF DbType, IsPartialFn
<1>3. \A k \in K : range(k) \in RowRange
  BY <1>2 DEF IndexEntry, RowRange
<1>4. OccupiedRanges(d, b) = {range(k) : k \in K}
  BY DEF OccupiedRanges
<1>5. IsFiniteSet({f[c] : c \in ClaimIds})
  <2> DEFINE T == {f[c] : c \in ClaimIds}
  <2> HIDE DEF range
  <2>1. f \in [ClaimIds -> T]
    OBVIOUS
  <2>2. \A t \in T : \E c \in ClaimIds : f[c] = t
    OBVIOUS
  <2> HIDE DEF f, T
  <2>3. f \in Surjection(ClaimIds, T)
    BY <2>1, <2>2, Fun_IsSurj
  <2>4. IsFiniteSet(T)
    BY <2>3, FS_Surjection, StateMachineAssumption
  <2> QED BY <2>4 DEF T
<1>6. {range(k) : k \in K} \subseteq {f[c] : c \in ClaimIds}
  <2> SUFFICES ASSUME NEW k \in K PROVE range(k) \in {f[c] : c \in ClaimIds}
    OBVIOUS
  <2>1. f[k[2]] = range(k) /\ k[2] \in ClaimIds
    BY <1>2
  <2> HIDE DEF range, f
  <2> QED BY <2>1
<1> HIDE DEF range, f, K
<1>7. IsFiniteSet({range(k) : k \in K})
  BY <1>5, <1>6, FS_Subset
<1> QED BY <1>3, <1>4, <1>7

(* What scan_pending finds is a batch and a range. *)
LEMMA ScanType ==
  ASSUME NEW d, DbType(d), FindFirstPendingBatch(d) # NothingPending
  PROVE  FindFirstPendingBatch(d) \in Pending
<1> DEFINE C == {b \in d.pending : FindFirstPendingClaim(d, b) # NoRange}
<1>1. C # {}
  BY DEF FindFirstPendingBatch
<1>2. C \in SUBSET Nat /\ C \subseteq BatchIds
  BY StateMachineAssumption DEF DbType
<1>3. Min(C) \in C
  BY <1>1, <1>2, MinLeast
<1>4. FindFirstPendingBatch(d) =
        [batch_id |-> Min(C), range |-> FindFirstPendingClaim(d, Min(C))]
  BY <1>1 DEF FindFirstPendingBatch
<1>5. ASSUME NEW b \in BatchIds
      PROVE  FindFirstPendingClaim(d, b) \in RowRange
  <2>1. CASE b \in DOMAIN d.batches
    <3>1. d.batches[b].total_rows \in Nat
      BY <2>1 DEF DbType, IsPartialFn, MasterBatchRecord
    <3> QED BY <2>1, <3>1, OccupiedFinite, GapType DEF FindFirstPendingClaim
  <2>2. CASE b \notin DOMAIN d.batches
    BY <2>2 DEF FindFirstPendingClaim, NoRange, RowRange
  <2> QED BY <2>1, <2>2
<1>6. Min(C) \in BatchIds
  BY <1>2, <1>3
<1> HIDE DEF C
<1>7. FindFirstPendingClaim(d, Min(C)) \in RowRange
  BY <1>5, <1>6
<1> QED BY <1>4, <1>6, <1>7 DEF Pending

----------------------------------------------------------------------------
(* The ledger *)

(* Claims and checkpoints are never removed, and a Completed claim is      *)
(* final.                                                                  *)
Grows(d, e) ==
  /\ DOMAIN d.claims \subseteq DOMAIN e.claims
  /\ DOMAIN d.checkpoints \subseteq DOMAIN e.checkpoints
  /\ \A c \in DOMAIN d.claims :
       d.claims[c].status = "Completed" => e.claims[c] = d.claims[c]

(* Only a checkpoint command writes checkpoints. *)
LEMMA CheckpointsKept ==
  ASSUME NEW d, DbType(d), NEW cmd,
         cmd.op \in {"ClaimRowRange", "RenewClaim", "AckClaim", "ReleaseClaim",
                     "ReclaimExpired"}
  PROVE  Apply(d, cmd).db.checkpoints = d.checkpoints
<1> USE DEF Apply, Reply, DbType, Tables
<1>1. CASE cmd.op = "ClaimRowRange"
  BY <1>1 DEF ApplyClaimRowRange
<1>2. CASE cmd.op = "RenewClaim"
  BY <1>2 DEF ApplyRenewClaim
<1>3. CASE cmd.op = "AckClaim"
  BY <1>3 DEF ApplyAckClaim
<1>4. CASE cmd.op = "ReleaseClaim"
  BY <1>4 DEF ApplyReleaseClaim
<1>5. CASE cmd.op = "ReclaimExpired"
  BY <1>5 DEF ApplyReclaimExpired
<1> QED BY <1>1, <1>2, <1>3, <1>4, <1>5

(* A checkpoint command leaves the claims alone and writes at most its own *)
(* key.                                                                    *)
LEMMA CheckpointEffect ==
  ASSUME NEW d, DbType(d), NEW cmd, cmd.op = "Checkpoint", NEW e, e = Apply(d, cmd).db
  PROVE  /\ e.claims = d.claims /\ e.index = d.index
         /\ \/ e.checkpoints = d.checkpoints
            \/ /\ cmd.claim_id \in DOMAIN d.claims
               /\ e.checkpoints =
                    Put(d.checkpoints, <<cmd.claim_id, cmd.stage_idx>>,
                        [batch_id |-> d.claims[cmd.claim_id].batch_id,
                         payload |-> cmd.payload])
BY DEF Apply, ApplyCheckpoint, Reply, DbType, Tables

(* What a proper command leaves of the claims of d. *)
LEMMA ProperClaims ==
  ASSUME NEW d, DbType(d), Mirror(d), Exclusive(d), NEW t, NEW cmd, Proper(d, t, cmd),
         NEW e, e = Apply(d, cmd).db
  PROVE  /\ DbType(e) /\ Mirror(e) /\ Exclusive(e)
         /\ DOMAIN d.claims \subseteq DOMAIN e.claims
         /\ DOMAIN e.claims # DOMAIN d.claims =>
              /\ cmd.op = "ClaimRowRange"
              /\ DOMAIN e.claims = DOMAIN d.claims \cup {cmd.claim_id}
              /\ e.claims[cmd.claim_id].status = "Claimed"
         /\ \A c \in DOMAIN d.claims :
              d.claims[c].status = "Completed" => e.claims[c] = d.claims[c]
         /\ cmd.op = "ClaimRowRange" =>
              \A c \in DOMAIN d.claims : e.claims[c] = d.claims[c]
<1>1. DbType(e)
  BY ApplyType DEF Proper
<1>2. CASE cmd.op # "ClaimRowRange"
  <2>1. Shrinks(d, e)
    BY <1>2, ApplyShrinks DEF Proper
  <2>2. Exclusive(e)
    BY <2>1, ShrinksExclusive
  <2> QED BY <1>1, <1>2, <2>1, <2>2 DEF Shrinks, NoNewHolder
<1>3. CASE cmd.op = "ClaimRowRange"
  <2>1. /\ cmd.row_range_start \in Nat /\ cmd.row_range_end \in Nat
        /\ cmd.claim_id \notin DOMAIN d.claims
    BY <1>3 DEF Proper, ConsensusCommand
  <2>2. e = ApplyClaimRowRange(d, cmd).db
    BY <1>3 DEF Apply
  <2>3. Mirror(e) /\ Exclusive(e)
    BY <2>1, <2>2, GrantKeeps
  <2>4. CASE e # d
    <3>1. e.claims = Put(d.claims, cmd.claim_id, Granted(cmd))
      BY <2>2, <2>4, ClaimEffect
    <3> QED BY <1>1, <1>3, <2>1, <2>3, <3>1 DEF Put, Granted
  <2>5. CASE e = d
    BY <1>1, <2>3, <2>5
  <2> QED BY <2>4, <2>5
<1> QED BY <1>2, <1>3

(* A claim gets Completed by an ack of it only. *)
LEMMA OnlyAckCompletes ==
  ASSUME NEW d, DbType(d), Mirror(d), Exclusive(d), NEW t, NEW cmd, Proper(d, t, cmd),
         NEW e, e = Apply(d, cmd).db, NEW c \in DOMAIN d.claims,
         e.claims[c].status = "Completed", d.claims[c].status # "Completed"
  PROVE  cmd.op = "AckClaim" /\ cmd.claim_id = c
<1>1. cmd.op # "ClaimRowRange"
  BY ProperClaims
<1>2. cmd.op # "RenewClaim"
  BY RenewCompletesNothing DEF NoNewCompleted, Apply
<1>3. cmd.op # "ReleaseClaim"
  BY ReleaseCompletesNothing DEF NoNewCompleted, Apply
<1>4. cmd.op # "ReclaimExpired"
  BY ReclaimCompletesNothing DEF NoNewCompleted, Apply
<1>5. cmd.op # "Checkpoint"
  <2> SUFFICES ASSUME cmd.op = "Checkpoint" PROVE FALSE
    OBVIOUS
  <2>1. e.claims = d.claims
    BY CheckpointEffect, Zenon
  <2> QED BY <2>1
<1>6. cmd.op = "AckClaim"
  BY <1>1, <1>2, <1>3, <1>4, <1>5 DEF Proper
<1>7. cmd.claim_id = c
  BY <1>6 DEF Apply, ApplyAckClaim, Reply, Put, DbType, Tables
<1> QED BY <1>6, <1>7

(* Proper commands keep the database sound, and it only grows. *)
LEMMA ProperKeeps ==
  ASSUME NEW d, DbInv(d), NEW t, NEW cmd, Proper(d, t, cmd), NEW e, e = Apply(d, cmd).db
  PROVE  DbInv(e) /\ Grows(d, e)
<1>1. DbType(d) /\ Mirror(d) /\ Exclusive(d)
  BY DEF DbInv
<1>2. /\ DbType(e) /\ Mirror(e) /\ Exclusive(e)
      /\ DOMAIN d.claims \subseteq DOMAIN e.claims
      /\ DOMAIN e.claims # DOMAIN d.claims =>
           /\ DOMAIN e.claims = DOMAIN d.claims \cup {cmd.claim_id}
           /\ e.claims[cmd.claim_id].status = "Claimed"
      /\ \A c \in DOMAIN d.claims :
           d.claims[c].status = "Completed" => e.claims[c] = d.claims[c]
  BY <1>1, ProperClaims
<1>3. /\ DOMAIN d.checkpoints \subseteq DOMAIN e.checkpoints
      /\ \A k \in DOMAIN e.checkpoints : e.checkpoints[k].payload = k[1]
  <2>1. CASE cmd.op = "Checkpoint"
    <3>1. cmd.payload = cmd.claim_id
      BY <2>1 DEF Proper
    <3> DEFINE key == <<cmd.claim_id, cmd.stage_idx>>
               v == [batch_id |-> d.claims[cmd.claim_id].batch_id, payload |-> cmd.payload]
    <3>2. e.checkpoints = d.checkpoints \/ e.checkpoints = Put(d.checkpoints, key, v)
      BY <1>1, <2>1, CheckpointEffect
    <3>3. key[1] = cmd.claim_id /\ v.payload = cmd.payload
      OBVIOUS
    <3> HIDE DEF key, v
    <3> QED BY <3>1, <3>2, <3>3 DEF DbInv, Put
  <2>2. CASE cmd.op # "Checkpoint"
    <3>1. e.checkpoints = d.checkpoints
      BY <1>1, <2>2, CheckpointsKept DEF Proper
    <3> QED BY <3>1 DEF DbInv
  <2> QED BY <2>1, <2>2
<1>4. ASSUME NEW c \in DOMAIN e.claims, e.claims[c].status = "Completed"
      PROVE  Saved(e, c)
  <2>1. c \in DOMAIN d.claims
    BY <1>2, <1>4
  <2>2. CASE d.claims[c].status = "Completed"
    BY <2>1, <2>2, <1>3 DEF DbInv, Saved
  <2>3. CASE d.claims[c].status # "Completed"
    <3>1. cmd.op = "AckClaim" /\ cmd.claim_id = c
      BY <1>1, <1>4, <2>1, <2>3, OnlyAckCompletes
    <3> QED BY <3>1, <1>3 DEF Proper, Saved
  <2> QED BY <2>2, <2>3
<1> QED BY <1>2, <1>3, <1>4 DEF DbInv, Grows

(* What is on its way stays proper while the ledger grows, as long as the  *)
(* claim id it asks for is not granted to somebody else.                   *)
LEMMA ProperStays ==
  ASSUME NEW d, NEW e, Grows(d, e), NEW t \in Nat, NEW u \in Nat, t <= u,
         NEW cmd, Proper(d, t, cmd),
         cmd.op = "ClaimRowRange" => cmd.claim_id \notin DOMAIN e.claims
  PROVE  Proper(e, u, cmd)
<1>1. cmd.op = "ReclaimExpired" => cmd.now_at_propose \in Nat
  BY DEF Proper, ConsensusCommand
<1>2. cmd.op = "ReclaimExpired" => cmd.now_at_propose <= u
  BY <1>1 DEF Proper
<1>3. cmd.op = "AckClaim" => Saved(e, cmd.claim_id)
  BY DEF Proper, Grows, Saved
<1> QED BY <1>2, <1>3 DEF Proper

(* What a step of the system does to the ledger and to the commands on     *)
(* their way: nothing, apply a proper command, leave one behind, or apply  *)
(* one that was left behind.                                               *)
LedgerStep ==
  \/ db' = db /\ late' = late
  \/ \E cmd : /\ Proper(db, Latest, cmd) /\ Untaken(cmd, late)
              /\ db' = Apply(db, cmd).db /\ late' = late
  \/ \E cmd : /\ Proper(db, Latest, cmd) /\ Untaken(cmd, late)
              /\ db' = db /\ late' = late \cup {cmd}
  \/ \E cmd \in late : db' = Apply(db, cmd).db /\ late' = late \ {cmd}

(* Addition on the naturals is monotone. *)
LEMMA PlusMonotone ==
  ASSUME NEW a \in Nat, NEW b \in Nat, NEW k \in Nat, a <= b
  PROVE  a + k <= b + k /\ a + k \in Nat /\ b + k \in Nat
OBVIOUS

(* The latest stamp moves on with the time. *)
LEMMA LatestGrows ==
  ASSUME now \in Nat, now' \in Nat, now <= now'
  PROVE  Latest \in Nat /\ Latest' \in Nat /\ Latest <= Latest'
<1>1. MaxSkew \in Nat
  BY RunnerAssumption
<1> QED BY <1>1, PlusMonotone DEF Latest

(* Such a step keeps the invariant of the ledger, which grows. *)
LEMMA LedgerKept ==
  ASSUME LedgerInv, LedgerStep, now' \in Nat, now <= now'
  PROVE  LedgerInv' /\ Grows(db, db')
<1>1. DbInv(db) /\ Latest \in Nat /\ Latest' \in Nat /\ Latest <= Latest'
  BY LatestGrows DEF LedgerInv
<1> HIDE DEF Latest
<1>2. Grows(db, db)
  BY DEF Grows
<1>3. CASE db' = db /\ late' = late
  <2>1. \A l \in late : Proper(db, Latest', l)
    BY <1>1, <1>2, ProperStays DEF LedgerInv, Proper
  <2> QED BY <1>1, <1>2, <1>3, <2>1 DEF LedgerInv
<1>4. ASSUME NEW cmd, Proper(db, Latest, cmd), Untaken(cmd, late),
             db' = Apply(db, cmd).db, late' = late
      PROVE  LedgerInv' /\ Grows(db, db')
  <2>1. DbInv(db') /\ Grows(db, db')
    BY <1>1, <1>4, ProperKeeps
  <2>2. ASSUME NEW l \in late
        PROVE  Proper(db', Latest', l)
    <3>1. Proper(db, Latest, l)
      BY DEF LedgerInv
    <3>2. ASSUME l.op = "ClaimRowRange"
          PROVE  l.claim_id \notin DOMAIN db'.claims
      <4>1. l.claim_id \notin DOMAIN db.claims
        BY <3>1, <3>2 DEF Proper
      <4>2. DOMAIN db'.claims # DOMAIN db.claims =>
              /\ cmd.op = "ClaimRowRange"
              /\ DOMAIN db'.claims = DOMAIN db.claims \cup {cmd.claim_id}
        BY <1>1, <1>4, ProperClaims DEF DbInv
      <4> QED BY <4>1, <4>2, <3>2, <1>4 DEF Untaken
    <3> QED BY <1>1, <2>1, <3>1, <3>2, ProperStays
  <2> QED BY <1>1, <1>4, <2>1, <2>2 DEF LedgerInv
<1>5. ASSUME NEW cmd, Proper(db, Latest, cmd), Untaken(cmd, late),
             db' = db, late' = late \cup {cmd}
      PROVE  LedgerInv' /\ Grows(db, db')
  <2>1. \A l \in late \cup {cmd} : Proper(db, Latest, l)
    BY <1>5 DEF LedgerInv
  <2>2. \A l \in late \cup {cmd} : Proper(db, Latest', l)
    BY <1>1, <1>2, <2>1, ProperStays DEF Proper
  <2>3. ASSUME NEW l \in late \cup {cmd}
        PROVE  Untaken(l, (late \cup {cmd}) \ {l})
    BY <1>5 DEF LedgerInv, Untaken
  <2> QED BY <1>1, <1>2, <1>5, <2>2, <2>3 DEF LedgerInv
<1>6. ASSUME NEW cmd \in late, db' = Apply(db, cmd).db, late' = late \ {cmd}
      PROVE  LedgerInv' /\ Grows(db, db')
  <2>1. Proper(db, Latest, cmd)
    BY DEF LedgerInv
  <2>2. DbInv(db') /\ Grows(db, db')
    BY <1>1, <1>6, <2>1, ProperKeeps
  <2>3. ASSUME NEW l \in late \ {cmd}
        PROVE  Proper(db', Latest', l)
    <3>1. Proper(db, Latest, l) /\ Untaken(l, late \ {l})
      BY DEF LedgerInv
    <3>2. ASSUME l.op = "ClaimRowRange"
          PROVE  l.claim_id \notin DOMAIN db'.claims
      <4>1. l.claim_id \notin DOMAIN db.claims
        BY <3>1, <3>2 DEF Proper
      <4>2. DOMAIN db'.claims # DOMAIN db.claims =>
              /\ cmd.op = "ClaimRowRange"
              /\ DOMAIN db'.claims = DOMAIN db.claims \cup {cmd.claim_id}
        BY <1>1, <1>6, <2>1, ProperClaims DEF DbInv
      <4> QED BY <4>1, <4>2, <3>1, <3>2 DEF Untaken
    <3> QED BY <1>1, <2>2, <3>1, <3>2, ProperStays
  <2>4. \A l \in late \ {cmd} : Untaken(l, (late \ {cmd}) \ {l})
    BY DEF LedgerInv, Untaken
  <2> QED BY <1>1, <1>6, <2>2, <2>3, <2>4 DEF LedgerInv
<1> QED BY <1>3, <1>4, <1>5, <1>6 DEF LedgerStep

(* An answered grant, save or ack is in the ledger. *)
LEMMA AnswerLands ==
  ASSUME NEW d, DbType(d), NEW cmd, NEW e, e = Apply(d, cmd).db, NEW response,
         response = Apply(d, cmd).response
  PROVE  /\ cmd.op = "ClaimRowRange" /\ response = "BatchClaimed" =>
              cmd.claim_id \in DOMAIN e.claims
         /\ cmd.op = "Checkpoint" /\ response = "CheckpointWritten" =>
              <<cmd.claim_id, cmd.stage_idx>> \in DOMAIN e.checkpoints
         /\ cmd.op = "AckClaim" /\ response = "ClaimAcked" =>
              /\ cmd.claim_id \in DOMAIN e.claims
              /\ e.claims[cmd.claim_id].status = "Completed"
<1>1. CASE cmd.op = "ClaimRowRange" /\ response = "BatchClaimed"
  <2>1. /\ e = ApplyClaimRowRange(d, cmd).db
        /\ ApplyClaimRowRange(d, cmd).response = "BatchClaimed"
    BY <1>1 DEF Apply
  <2>2. CASE e # d
    <3>1. e.claims = Put(d.claims, cmd.claim_id, Granted(cmd))
      BY <2>1, <2>2, ClaimEffect
    <3> QED BY <1>1, <3>1 DEF Put
  <2>3. CASE e = d
    <3>1. CASE cmd.claim_id \in DOMAIN d.claims
      BY <1>1, <2>3, <3>1
    <3>2. CASE cmd.claim_id \notin DOMAIN d.claims
      <4>1. e.claims = Put(d.claims, cmd.claim_id, Granted(cmd))
        BY <2>1, <3>2 DEF ApplyClaimRowRange, Reply, Granted, DbType, Tables
      <4> QED BY <1>1, <4>1 DEF Put
    <3> QED BY <3>1, <3>2
  <2> QED BY <2>2, <2>3
<1>2. CASE cmd.op = "Checkpoint" /\ response = "CheckpointWritten"
  BY <1>2 DEF Apply, ApplyCheckpoint, Reply, Put, DbType, Tables
<1>3. CASE cmd.op = "AckClaim" /\ response = "ClaimAcked"
  <2>1. HeldBy(d, cmd.claim_id, cmd.instance_id)
    BY <1>3 DEF Apply, ApplyAckClaim, Reply
  <2>2. d.claims[cmd.claim_id] \in ClaimRecord
    BY <2>1 DEF HeldBy, DbType, IsPartialFn
  <2>3. e.claims = Put(d.claims, cmd.claim_id,
                       [d.claims[cmd.claim_id] EXCEPT !.status = "Completed",
                                                      !.lease_expires_at = 0])
    BY <1>3, <2>1 DEF Apply, ApplyAckClaim, Reply, DbType, Tables
  <2> QED BY <1>3, <2>2, <2>3 DEF Put, ClaimRecord
<1> QED BY <1>1, <1>2, <1>3

----------------------------------------------------------------------------
(* The commands of the runners *)

(* A fresh id is one nobody has seen. *)
LEMMA FreshId ==
  ASSUME NEW i, Proposing(i)
  PROVE  Fresh \in ClaimIds /\ Fresh \notin Traced
<1>1. ClaimIds \ Traced \in SUBSET Nat /\ ClaimIds \ Traced # {}
  BY RunnerAssumption DEF Proposing
<1>2. Min(ClaimIds \ Traced) \in ClaimIds \ Traced
  BY <1>1, MinLeast
<1> QED BY <1>2 DEF Fresh

(* A sweep is proper. *)
LEMMA SweepProper ==
  ASSUME now \in Nat, NEW at \in Stamps,
         NEW cmd, cmd = [op |-> "ReclaimExpired", now_at_propose |-> at]
  PROVE  Proper(db, Latest, cmd) /\ Untaken(cmd, late)
<1>1. at \in Nat /\ at <= Latest
  BY RunnerAssumption DEF Stamps, Latest
<1>2. cmd \in ConsensusCommand
  BY <1>1 DEF ConsensusCommand
<1> QED BY <1>1, <1>2 DEF Proper, Untaken

(* A claim of what was scanned is proper. *)
LEMMA ClaimProper ==
  ASSUME LedgerInv, LocalInv, NEW i \in Instances, Proposing(i), NEW at \in Stamps
  PROVE  Proper(db, Latest, ClaimCommand(i, at)) /\ Untaken(ClaimCommand(i, at), late)
<1>1. Fresh \in ClaimIds /\ Fresh \notin Traced
  BY FreshId
<1>2. /\ scanned[i].batch_id \in BatchIds /\ scanned[i].range.start \in Nat
      /\ scanned[i].range.end \in Nat /\ at \in Nat
  BY RunnerAssumption DEF LocalInv, LedgerInv, Proposing, Pending, RowRange, Stamps
<1> HIDE DEF Fresh
<1>3. ClaimCommand(i, at) \in
        [op : {"ClaimRowRange"}, batch_id : BatchIds, row_range_start : Nat,
         row_range_end : Nat, claim_id : ClaimIds, instance_id : Instances,
         now_at_propose : Nat]
  BY <1>1, <1>2 DEF ClaimCommand
<1>4. ClaimCommand(i, at) \in ConsensusCommand
  BY <1>3 DEF ConsensusCommand
<1>5. ClaimCommand(i, at).op = "ClaimRowRange" /\ ClaimCommand(i, at).claim_id = Fresh
  BY DEF ClaimCommand
<1>6. ASSUME NEW l \in late, l.op = "ClaimRowRange"
      PROVE  l.claim_id \in Traced
  <2>1. l \in ConsensusCommand
    BY DEF LedgerInv, Proper
  <2>2. "claim_id" \in DOMAIN l
    BY <1>6, <2>1 DEF ConsensusCommand
  <2> QED BY <2>2 DEF Traced
<1>7. Fresh \notin DOMAIN db.claims
  BY <1>1 DEF Traced
<1> QED BY <1>1, <1>4, <1>5, <1>6, <1>7 DEF Proper, Untaken

(* What a runner proposes about the claim in its hand is proper. *)
LEMMA HandProper ==
  ASSUME LedgerInv, LocalInv, NEW i \in Instances, pc[i] \in InHand
  PROVE  /\ \A at \in Stamps :
              Proper(db, Latest, RenewCommand(i, at)) /\ Untaken(RenewCommand(i, at), late)
         /\ Proper(db, Latest, SaveCommand(i)) /\ Untaken(SaveCommand(i), late)
         /\ pc[i] = "ack" =>
              Proper(db, Latest, AckCommand(i)) /\ Untaken(AckCommand(i), late)
         /\ LET cmd == [op |-> "ReleaseClaim", claim_id |-> claim[i], instance_id |-> i]
            IN  Proper(db, Latest, cmd) /\ Untaken(cmd, late)
<1>1. claim[i] \in ClaimIds /\ now \in Nat /\ claim[i] \in Payloads
  BY RunnerAssumption DEF LocalInv, LedgerInv, DbInv, DbType, IsPartialFn
<1>2. SaveStages[step[i]] \in Stages
  BY RunnerAssumption DEF LocalInv, LocalType
<1>3. ASSUME NEW at \in Stamps
      PROVE  RenewCommand(i, at) \in ConsensusCommand
  <2>1. at \in Nat
    BY <1>1, RunnerAssumption DEF Stamps
  <2> QED BY <1>1, <2>1 DEF RenewCommand, ConsensusCommand
<1>4. SaveCommand(i) \in ConsensusCommand
  BY <1>1, <1>2 DEF SaveCommand, ConsensusCommand, Sizes
<1>5. AckCommand(i) \in ConsensusCommand
  BY <1>1 DEF AckCommand, ConsensusCommand
<1>6. [op |-> "ReleaseClaim", claim_id |-> claim[i], instance_id |-> i] \in ConsensusCommand
  BY <1>1 DEF ConsensusCommand
<1>7. pc[i] = "ack" => Saved(db, claim[i])
  BY DEF LocalInv
<1>8. \A at \in Stamps :
        Proper(db, Latest, RenewCommand(i, at)) /\ Untaken(RenewCommand(i, at), late)
  BY <1>3 DEF Proper, Untaken, RenewCommand
<1>9. Proper(db, Latest, SaveCommand(i)) /\ Untaken(SaveCommand(i), late)
  BY <1>4 DEF Proper, Untaken, SaveCommand
<1>10. pc[i] = "ack" => Proper(db, Latest, AckCommand(i)) /\ Untaken(AckCommand(i), late)
  BY <1>5, <1>7 DEF Proper, Untaken, AckCommand
<1> QED BY <1>6, <1>8, <1>9, <1>10 DEF Proper, Untaken

----------------------------------------------------------------------------
(* Every step, as the ledger sees it *)

(* A call of the store with a proper command. *)
LEMMA CallStep ==
  ASSUME NEW cmd, Proper(db, Latest, cmd), Untaken(cmd, late),
         (\E response : Answered(cmd, response)) \/ NotAnswered(cmd)
  PROVE  LedgerStep
BY DEF Answered, NotAnswered, LedgerStep

(* Every step of a runner is a step of the ledger. *)
LEMMA RunnerLedgerStep ==
  ASSUME LedgerInv, LocalInv, NEW i \in Instances,
         Step(i) \/ RenewWhileRunning(i) \/ Crash(i)
  PROVE  LedgerStep
<1> DEFINE quiet == db' = db /\ late' = late
<1>1. quiet => LedgerStep
  BY DEF LedgerStep
<1>2. CASE \/ Enter(i) \/ SkipSweep(i) \/ ScanEmpty(i) \/ Scan(i) \/ Load(i) \/ LoadFails(i)
           \/ RunSucceeds(i) \/ RunFails(i) \/ SaveEmpty(i) \/ SaveNothing(i) \/ Crash(i)
  <2>1. quiet
    BY <1>2 DEF Enter, SkipSweep, ScanEmpty, Scan, Load, LoadFails, RunSucceeds, RunFails,
               SaveEmpty, SaveNothing, Crash, ledger
  <2> QED BY <2>1, <1>1
<1>3. CASE Sweep(i)
  <2> DEFINE cmd(at) == [op |-> "ReclaimExpired", now_at_propose |-> at]
  <2>1. PICK at \in Stamps : Answered(cmd(at), "ExpiredReclaimed") \/ NotAnswered(cmd(at))
    BY <1>3 DEF Sweep
  <2>2. Proper(db, Latest, cmd(at)) /\ Untaken(cmd(at), late)
    BY SweepProper DEF LedgerInv
  <2> HIDE DEF cmd
  <2> QED BY <2>1, <2>2, CallStep
<1>4. CASE Claimed(i) \/ ClaimConflict(i) \/ ClaimFails(i)
  <2>1. /\ Proposing(i)
        /\ \E at \in Stamps : \/ \E response : Answered(ClaimCommand(i, at), response)
                              \/ NotAnswered(ClaimCommand(i, at))
    BY <1>4 DEF Claimed, ClaimConflict, ClaimFails
  <2> QED BY <2>1, ClaimProper, CallStep
<1>5. CASE RenewFirst(i) \/ RenewWhileRunning(i)
  <2>1. pc[i] \in InHand
    BY <1>5 DEF RenewFirst, RenewWhileRunning, InHand, Working
  <2>2. \/ quiet
        \/ \E at \in Stamps : \/ \E response : Answered(RenewCommand(i, at), response)
                              \/ NotAnswered(RenewCommand(i, at))
    BY <1>5 DEF RenewFirst, RenewWhileRunning, Renewed, RenewFails, ledger
  <2>3. \A at \in Stamps :
          Proper(db, Latest, RenewCommand(i, at)) /\ Untaken(RenewCommand(i, at), late)
    BY <2>1, HandProper
  <2> HIDE DEF quiet
  <2> QED BY <1>1, <2>2, <2>3, CallStep
<1>6. CASE Save(i) \/ SaveFails(i)
  <2>1. pc[i] \in InHand
    BY <1>6 DEF Save, SaveFails, InHand, Working
  <2>2. \/ quiet
        \/ (\E response : Answered(SaveCommand(i), response)) \/ NotAnswered(SaveCommand(i))
    BY <1>6 DEF Save, SaveFails
  <2>3. Proper(db, Latest, SaveCommand(i)) /\ Untaken(SaveCommand(i), late)
    BY <2>1, HandProper
  <2> HIDE DEF quiet
  <2> QED BY <1>1, <2>2, <2>3, CallStep
<1>7. CASE Ack(i) \/ AckFails(i)
  <2>1. pc[i] = "ack" /\ pc[i] \in InHand
    BY <1>7 DEF Ack, AckFails, InHand, Working
  <2>2. (\E response : Answered(AckCommand(i), response)) \/ NotAnswered(AckCommand(i))
    BY <1>7 DEF Ack, AckFails
  <2>3. Proper(db, Latest, AckCommand(i)) /\ Untaken(AckCommand(i), late)
    BY <2>1, HandProper
  <2> QED BY <2>2, <2>3, CallStep
<1>8. CASE Release(i)
  <2> DEFINE cmd == [op |-> "ReleaseClaim", claim_id |-> claim[i], instance_id |-> i]
  <2>1. pc[i] \in InHand
    BY <1>8 DEF Release, InHand
  <2>2. (\E response : Answered(cmd, response)) \/ NotAnswered(cmd)
    BY <1>8 DEF Release
  <2>3. Proper(db, Latest, cmd) /\ Untaken(cmd, late)
    BY <2>1, HandProper
  <2> QED BY <2>2, <2>3, CallStep
<1> QED BY <1>2, <1>3, <1>4, <1>5, <1>6, <1>7, <1>8 DEF Step

(* The clock never goes back, and every step is a step of the ledger. *)
LEMMA NextLedgerStep ==
  ASSUME LedgerInv, LocalInv, [Next]_vars
  PROVE  LedgerStep /\ now' \in Nat /\ now <= now'
<1>1. now \in Nat
  BY DEF LedgerInv
<1>2. ASSUME NEW i \in Instances, Step(i) \/ RenewWhileRunning(i) \/ Crash(i)
      PROVE  LedgerStep /\ now' = now
  <2>1. now' = now
    BY <1>2 DEF Step, Enter, Sweep, SkipSweep, ScanEmpty, Scan, Claimed, ClaimConflict,
               ClaimFails, Load, LoadFails, RenewFirst, RunSucceeds, RunFails, Save,
               SaveEmpty, SaveNothing, SaveFails, Ack, AckFails, Release,
               RenewWhileRunning, Crash
  <2> QED BY <2>1, <1>2, RunnerLedgerStep
<1>3. ASSUME NEW cmd \in late, CommitLate(cmd)
      PROVE  LedgerStep /\ now' = now
  BY <1>3 DEF CommitLate, LedgerStep
<1>4. ASSUME NEW i \in Followers, CatchUp(i)
      PROVE  LedgerStep /\ now' = now
  BY <1>4 DEF CatchUp, LedgerStep
<1>5. CASE Tick
  BY <1>1, <1>5 DEF Tick, ledger, LedgerStep
<1>6. CASE UNCHANGED vars
  BY <1>1, <1>6 DEF vars, ledger, LedgerStep
<1>7. CASE LedgerStep /\ now' = now
  BY <1>1, <1>7
<1> QED BY <1>2, <1>3, <1>4, <1>5, <1>6, <1>7 DEF Next

----------------------------------------------------------------------------
(* The runners *)

(* What a growing ledger keeps for the runners. *)
Lasting ==
  /\ DOMAIN db.claims \subseteq DOMAIN db'.claims
  /\ \A c : Saved(db, c) => Saved(db', c)

(* On the way out of an iteration the runner drops its claim. *)
LEMMA LeaveKeeps ==
  ASSUME LocalInv, Lasting, replica' = replica, NEW i \in Instances,
         NEW place \in {"idle", "loop"}, Leave(i, place)
  PROVE  LocalInv'
<1>1. 1 \in 1..Len(SaveStages) /\ NoClaim \in MaybeClaim
  BY RunnerAssumption DEF MaybeClaim
<1>2. LocalType'
  BY <1>1 DEF LocalInv, LocalType, Leave, Goto, Places
<1>3. /\ pc'[i] = place /\ step'[i] = 1
      /\ \A j \in Instances : j # i => /\ pc'[j] = pc[j] /\ step'[j] = step[j]
                                       /\ claim'[j] = claim[j] /\ scanned'[j] = scanned[j]
  BY DEF Leave, Goto, LocalInv, LocalType
<1>4. pc'[i] \notin InHand \cup {"propose", "save", "ack", "release"}
  BY <1>3 DEF InHand, Working
<1>5. ASSUME NEW j \in Instances
      PROVE  /\ pc'[j] = "propose" => scanned'[j] \in Pending
             /\ pc'[j] \in InHand => claim'[j] \in DOMAIN db'.claims
             /\ pc'[j] \notin {"save", "ack", "release"} => step'[j] = 1
             /\ pc'[j] = "ack" \/ (pc'[j] = "save" /\ step'[j] > 1) => Saved(db', claim'[j])
  <2>1. CASE j = i
    BY <2>1, <1>3, <1>4
  <2>2. CASE j # i
    BY <2>2, <1>3 DEF LocalInv, Lasting
  <2> QED BY <2>1, <2>2
<1> QED BY <1>2, <1>5 DEF LocalInv

(* A runner goes on to the next save or to the ack. *)
LEMMA NextSaveKeeps ==
  ASSUME LocalInv, Lasting, replica' = replica, NEW i \in Instances, pc[i] = "save",
         NextSave(i), Saved(db', claim[i])
  PROVE  LocalInv'
<1>1. Len(SaveStages) \in Nat /\ step[i] \in 1..Len(SaveStages)
  BY RunnerAssumption DEF LocalInv, LocalType
<1>2. CASE step[i] < Len(SaveStages)
  <2>1. step' = [step EXCEPT ![i] = step[i] + 1] /\ pc' = pc
    BY <1>2 DEF NextSave
  <2>2. step[i] + 1 \in 1..Len(SaveStages)
    BY <1>1, <1>2
  <2> QED BY <2>1, <2>2 DEF NextSave, LocalInv, LocalType, Lasting
<1>3. CASE ~(step[i] < Len(SaveStages))
  <2>1. step' = step /\ pc' = [pc EXCEPT ![i] = "ack"]
    BY <1>3 DEF NextSave, Goto
  <2> QED BY <2>1 DEF NextSave, LocalInv, LocalType, Lasting, Places, InHand, Working
<1> QED BY <1>2, <1>3

(* Every step of a runner keeps what is known of the runners. *)
LEMMA LocalKept ==
  ASSUME LedgerInv, LocalInv, Lasting, NEW i \in Instances,
         Step(i) \/ RenewWhileRunning(i) \/ Crash(i)
  PROVE  LocalInv'
<1>1. /\ DOMAIN db.claims \subseteq DOMAIN db'.claims
      /\ \A c : Saved(db, c) => Saved(db', c)
  BY DEF Lasting
<1>2. /\ SaveStages \in Seq(Stages) /\ Len(SaveStages) \in Nat /\ Len(SaveStages) > 0
      /\ NoClaim \in MaybeClaim
  BY RunnerAssumption DEF MaybeClaim
<1>3. \A place \in {"idle", "loop"} : replica' = replica /\ Leave(i, place) => LocalInv'
  BY LeaveKeeps
<1>4. CASE Enter(i)
  BY <1>1, <1>2, <1>4
      DEF Enter, LocalInv, LocalType, Goto, ReleaseThen, Places, InHand, Working, local,
          ledger
<1>5. CASE Sweep(i)
  BY <1>1, <1>2, <1>5
      DEF Sweep, Answered, NotAnswered, Fault, LocalInv, LocalType, Goto, ReleaseThen,
          Places, InHand, Working, local, ledger
<1>6. CASE SkipSweep(i)
  BY <1>1, <1>2, <1>6
      DEF SkipSweep, LocalInv, LocalType, Goto, ReleaseThen, Places, InHand, Working,
          local, ledger
<1>7. CASE Load(i)
  BY <1>1, <1>2, <1>7
      DEF Load, LocalInv, LocalType, Goto, ReleaseThen, Places, InHand, Working, local,
          ledger
<1>8. CASE RenewFirst(i)
  BY <1>1, <1>2, <1>8
      DEF RenewFirst, Renewed, RenewFails, Answered, NotAnswered, LocalInv, LocalType, Goto,
          ReleaseThen, Places, InHand, Working, local, ledger
<1>9. CASE RenewWhileRunning(i)
  BY <1>1, <1>2, <1>9
      DEF RenewWhileRunning, Renewed, RenewFails, Answered, NotAnswered, LocalInv, LocalType, Goto,
          ReleaseThen, Places, InHand, Working, local, ledger
<1>10. CASE RunSucceeds(i)
  BY <1>1, <1>2, <1>10
      DEF RunSucceeds, LocalInv, LocalType, Goto, ReleaseThen, Places, InHand, Working,
          local, ledger
<1>11. CASE RunFails(i)
  BY <1>1, <1>2, <1>11
      DEF RunFails, LocalInv, LocalType, Goto, ReleaseThen, Places, InHand, Working,
          local, ledger
<1>12. CASE SaveFails(i)
  BY <1>1, <1>2, <1>12
      DEF SaveFails, NotAnswered, LocalInv, LocalType, Goto, ReleaseThen, Places, InHand,
          Working, local, ledger
<1>13. CASE ScanEmpty(i)
  BY <1>3, <1>13 DEF ScanEmpty, ledger
<1>14. CASE ClaimFails(i)
  BY <1>3, <1>14 DEF ClaimFails, NotAnswered
<1>15. CASE AckFails(i)
  BY <1>3, <1>15 DEF AckFails, Answered, NotAnswered
<1>16. CASE Ack(i)
  BY <1>3, <1>16 DEF Ack, Answered
<1>17. CASE Crash(i)
  BY <1>3, <1>17 DEF Crash
<1>18. CASE Release(i)
  <2>1. after[i] \in {"idle", "loop"}
    BY DEF LocalInv, LocalType
  <2> QED BY <1>3, <1>18, <2>1 DEF Release, Answered, NotAnswered
<1>19. CASE LoadFails(i)
  <2>1. CASE ReleaseThen(i, "loop")
    BY <1>1, <1>2, <1>19, <2>1
        DEF LoadFails, LocalInv, LocalType, Goto, ReleaseThen, Places, InHand, Working,
            local, ledger
  <2> QED BY <1>3, <1>19, <2>1 DEF LoadFails
<1>20. CASE ClaimConflict(i)
  <2>1. CASE Goto(i, "scan") /\ UNCHANGED <<after, claim, step, prior, timer>>
    BY <1>1, <1>2, <1>20, <2>1
        DEF ClaimConflict, Proposing, Answered, Leave, LocalInv, LocalType, Goto,
            ReleaseThen, Places, InHand, Working, local, ledger
  <2> QED BY <1>3, <1>20, <2>1 DEF ClaimConflict, Answered
<1>21. CASE Scan(i)
  <2>1. DbType(LocalDb(i))
    BY DEF LocalDb, LocalInv, LedgerInv, DbInv
  <2>2. FindFirstPendingBatch(LocalDb(i)) \in Pending
    BY <1>21, <2>1, ScanType DEF Scan
  <2> QED BY <1>1, <1>2, <1>21, <2>2
      DEF Scan, LocalInv, LocalType, Goto, ReleaseThen, Places, InHand, Working, local,
          ledger
<1>22. CASE Claimed(i)
  <2>1. Fresh \in ClaimIds
    BY <1>22, FreshId DEF Claimed
  <2>2. PICK at \in Stamps : Answered(ClaimCommand(i, at), "BatchClaimed")
    BY <1>22 DEF Claimed
  <2>3. Fresh \in DOMAIN db'.claims
    <3>1. /\ ClaimCommand(i, at).op = "ClaimRowRange"
          /\ ClaimCommand(i, at).claim_id = Fresh
      BY DEF ClaimCommand
    <3> QED BY <2>2, <3>1, AnswerLands DEF Answered, LedgerInv, DbInv
  <2> HIDE DEF Fresh
  <2> QED BY <1>1, <1>2, <1>22, <2>1, <2>3
      DEF Claimed, Proposing, Answered, MaybeClaim, LocalInv, LocalType, Goto,
          ReleaseThen, Places, InHand, Working, local, ledger
<1>23. CASE Save(i)
  <2>1. /\ SaveCommand(i).op = "Checkpoint" /\ SaveCommand(i).claim_id = claim[i]
        /\ SaveCommand(i).stage_idx = SaveStages[step[i]]
    BY DEF SaveCommand
  <2>2. step[i] = 1 => Saved(db', claim[i])
    BY <1>23, <2>1, AnswerLands DEF Save, Answered, LedgerInv, DbInv, Saved
  <2>3. Saved(db', claim[i])
    BY <1>1, <1>23, <2>2 DEF Save, LocalInv, LocalType
  <2> QED BY <1>23, <2>3, NextSaveKeeps DEF Save, Answered
<1>24. CASE SaveEmpty(i) \/ SaveNothing(i)
  <2>1. Saved(db', claim[i])
    BY <1>1, <1>24 DEF SaveEmpty, SaveNothing, LocalInv
  <2> QED BY <1>24, <2>1, NextSaveKeeps DEF SaveEmpty, SaveNothing, ledger
<1> QED BY <1>4, <1>5, <1>6, <1>7, <1>8, <1>9, <1>10, <1>11, <1>12, <1>13,
           <1>14, <1>15, <1>16, <1>17, <1>18, <1>19, <1>20, <1>21, <1>22, <1>23, <1>24
    DEF Step

(* Nobody gets a claim into the hand. *)
NoNewHand == \A j \in Instances : pc'[j] \in InHand => pc[j] \in InHand /\ claim'[j] = claim[j]

(* Only the answer to a claim command puts a claim into a runner's hand. *)
LEMMA OnlyClaimedFills ==
  ASSUME LocalType, NEW i \in Instances,
         Step(i) \/ RenewWhileRunning(i) \/ Crash(i), ~Claimed(i)
  PROVE  NoNewHand
<1> USE DEF NoNewHand, LocalType, Goto
<1>1. ASSUME NEW place \in {"idle", "loop"}, Leave(i, place)
      PROVE  NoNewHand
  BY <1>1 DEF Leave, InHand, Working
<1>2. CASE Enter(i) \/ Sweep(i) \/ SkipSweep(i) \/ Scan(i)
  BY <1>2 DEF Enter, Sweep, SkipSweep, Scan, InHand, Working, local
<1>3. CASE ScanEmpty(i) \/ ClaimFails(i) \/ Ack(i) \/ AckFails(i) \/ Crash(i)
  BY <1>1, <1>3 DEF ScanEmpty, ClaimFails, Ack, AckFails, Crash
<1>4. CASE Release(i)
  BY <1>1, <1>4 DEF Release
<1>5. CASE ClaimConflict(i)
  <2>1. CASE Goto(i, "scan") /\ UNCHANGED <<after, claim, step, prior, timer>>
    BY <2>1 DEF InHand, Working
  <2> QED BY <1>1, <1>5, <2>1 DEF ClaimConflict
<1>6. ASSUME NEW place, ReleaseThen(i, place), pc[i] \in Working
      PROVE  NoNewHand
  BY <1>6 DEF ReleaseThen, InHand
<1>7. CASE Load(i) \/ RunSucceeds(i)
  BY <1>7 DEF Load, RunSucceeds, InHand, Working, local
<1>8. CASE LoadFails(i) \/ RunFails(i) \/ SaveFails(i)
  BY <1>1, <1>6, <1>8 DEF LoadFails, RunFails, SaveFails, Working
<1>9. CASE RenewFirst(i) \/ RenewWhileRunning(i)
  <2>1. pc[i] \in Working
    BY <1>9 DEF RenewFirst, RenewWhileRunning, Working
  <2>2. CASE (Goto(i, "run") \/ pc' = pc) /\ UNCHANGED local
    BY <2>1, <2>2 DEF InHand, local
  <2> QED BY <1>6, <1>9, <2>1, <2>2 DEF RenewFirst, RenewWhileRunning
<1>10. CASE Save(i) \/ SaveEmpty(i) \/ SaveNothing(i)
  <2>1. pc[i] \in Working /\ NextSave(i)
    BY <1>10 DEF Save, SaveEmpty, SaveNothing, Working
  <2> QED BY <2>1 DEF NextSave, InHand
<1> QED BY <1>2, <1>3, <1>4, <1>5, <1>7, <1>8, <1>9, <1>10 DEF Step

(* A release on its way was left behind by a runner that has dropped the   *)
(* claim.                                                                  *)
LEMMA LateReleases ==
  ASSUME LocalType, NEW i \in Instances, Step(i) \/ RenewWhileRunning(i) \/ Crash(i),
         NEW l \in late', l.op = "ReleaseClaim", l \notin late
  PROVE  pc[i] = "release" /\ l.claim_id = claim[i] /\ pc'[i] \notin InHand
<1>1. ASSUME NEW cmd, NotAnswered(cmd)
      PROVE  l = cmd
  BY <1>1 DEF NotAnswered
<1>2. ASSUME NEW cmd, NEW response, Answered(cmd, response)
      PROVE  FALSE
  BY <1>2 DEF Answered
<1>3. late' # late
  OBVIOUS
<1>4. CASE Release(i)
  <2> DEFINE cmd == [op |-> "ReleaseClaim", claim_id |-> claim[i], instance_id |-> i]
  <2>1. pc[i] = "release" /\ NotAnswered(cmd) /\ Leave(i, after[i])
    BY <1>2, <1>4 DEF Release
  <2>2. l.claim_id = claim[i]
    BY <1>1, <2>1
  <2>3. pc'[i] \notin InHand
    BY <2>1 DEF Leave, Goto, LocalType, InHand, Working
  <2> QED BY <2>1, <2>2, <2>3
<1>5. ~Sweep(i)
  <2> DEFINE cmd(at) == [op |-> "ReclaimExpired", now_at_propose |-> at]
  <2>1. \A at : cmd(at).op = "ReclaimExpired"
    OBVIOUS
  <2>2. Sweep(i) => \E at : Answered(cmd(at), "ExpiredReclaimed") \/ NotAnswered(cmd(at))
    BY DEF Sweep
  <2> HIDE DEF cmd
  <2> QED BY <1>1, <1>2, <2>1, <2>2
<1>6. ~(Claimed(i) \/ ClaimConflict(i) \/ ClaimFails(i))
  <2>1. \A at : ClaimCommand(i, at).op = "ClaimRowRange"
    BY DEF ClaimCommand
  <2> QED BY <1>1, <1>2, <2>1 DEF Claimed, ClaimConflict, ClaimFails
<1>7. ~(RenewFirst(i) \/ RenewWhileRunning(i))
  <2>1. \A at : RenewCommand(i, at).op = "RenewClaim"
    BY DEF RenewCommand
  <2> QED BY <1>1, <1>2, <1>3, <2>1
      DEF RenewFirst, RenewWhileRunning, Renewed, RenewFails, ledger
<1>8. ~(Save(i) \/ SaveFails(i))
  BY <1>1, <1>2, <1>3 DEF Save, SaveFails, SaveCommand
<1>9. ~(Ack(i) \/ AckFails(i))
  BY <1>1, <1>2 DEF Ack, AckFails, AckCommand
<1>10. ~(\/ Enter(i) \/ SkipSweep(i) \/ ScanEmpty(i) \/ Scan(i) \/ Load(i) \/ LoadFails(i)
         \/ RunSucceeds(i) \/ RunFails(i) \/ SaveEmpty(i) \/ SaveNothing(i) \/ Crash(i))
  BY <1>3 DEF Enter, SkipSweep, ScanEmpty, Scan, Load, LoadFails, RunSucceeds, RunFails,
              SaveEmpty, SaveNothing, Crash, ledger
<1> QED BY <1>4, <1>5, <1>6, <1>7, <1>8, <1>9, <1>10 DEF Step

(* Claims stay in one hand, out of reach of any release on its way. *)
LEMMA HandKept ==
  ASSUME LedgerInv, LocalInv, HandInv, NEW i \in Instances,
         Step(i) \/ RenewWhileRunning(i) \/ Crash(i)
  PROVE  HandInv'
<1>1. CASE ~Claimed(i)
  <2>1. NoNewHand
    BY <1>1, OnlyClaimedFills DEF LocalInv
  <2> SUFFICES ASSUME NEW j \in Instances, pc'[j] \in InHand
               PROVE  /\ \A k \in Instances : pc'[k] \in InHand /\ claim'[k] = claim'[j] => k = j
                      /\ \A l \in late' : l.op = "ReleaseClaim" => l.claim_id # claim'[j]
    BY DEF HandInv
  <2>2. pc[j] \in InHand /\ claim'[j] = claim[j]
    BY <2>1 DEF NoNewHand
  <2>3. \A k \in Instances : pc'[k] \in InHand /\ claim'[k] = claim'[j] => k = j
    BY <2>1, <2>2 DEF NoNewHand, HandInv
  <2>4. ASSUME NEW l \in late', l.op = "ReleaseClaim", l.claim_id = claim'[j]
        PROVE  FALSE
    <3>1. l \notin late
      BY <2>2, <2>4 DEF HandInv
    <3>2. pc[i] = "release" /\ l.claim_id = claim[i] /\ pc'[i] \notin InHand
      BY <2>4, <3>1, LateReleases DEF LocalInv
    <3>3. pc[i] \in InHand
      BY <3>2 DEF InHand
    <3>4. i = j
      BY <2>2, <2>4, <3>2, <3>3 DEF HandInv
    <3> QED BY <3>2, <3>4
  <2> QED BY <2>3, <2>4
<1>2. CASE Claimed(i)
  <2>1. Fresh \notin Traced
    BY <1>2, FreshId DEF Claimed
  <2>2. /\ claim' = [claim EXCEPT ![i] = Fresh] /\ pc' = [pc EXCEPT ![i] = "load"]
        /\ late' = late
    BY <1>2 DEF Claimed, Answered, Goto
  <2> HIDE DEF Fresh
  <2>3. \A j \in Instances : pc[j] \in InHand => claim[j] # Fresh
    BY <2>1 DEF LocalInv, Traced
  <2>4. ASSUME NEW l \in late, l.op = "ReleaseClaim"
        PROVE  l.claim_id # Fresh
    <3>1. l \in ConsensusCommand
      BY DEF LedgerInv, Proper
    <3>2. "claim_id" \in DOMAIN l
      BY <2>4, <3>1 DEF ConsensusCommand
    <3> QED BY <2>1, <3>2 DEF Traced
  <2> QED BY <2>2, <2>3, <2>4 DEF HandInv, LocalInv, LocalType
<1> QED BY <1>1, <1>2

----------------------------------------------------------------------------
(* The invariant *)

(* The registered batches, before any runner starts. *)
LEMMA RegisteredInv ==
  ASSUME NEW batches \in SUBSET BatchIds
  PROVE  DbInv(RegisteredDb(batches))
<1> DEFINE record == [total_rows |-> RowsPerBatch, checkpoint_seq |-> 0,
                      release_attempts |-> 0, status |-> "Active",
                      poisoned_at |-> NeverPoisoned]
<1>1. record \in MasterBatchRecord
  BY RunnerAssumption, StateMachineAssumption DEF MasterBatchRecord, BatchStatus, NeverPoisoned
<1>2. /\ RegisteredDb(batches).batches = [b \in batches |-> record]
      /\ RegisteredDb(batches).pending = batches
      /\ RegisteredDb(batches).claims = EmptyTable /\ RegisteredDb(batches).index = EmptyTable
      /\ RegisteredDb(batches).checkpoints = EmptyTable /\ RegisteredDb(batches).instances = EmptyTable
      /\ DOMAIN RegisteredDb(batches) = Tables
  BY DEF RegisteredDb, EmptyDb, Tables
<1>3. DOMAIN EmptyTable = {}
  BY DEF EmptyTable
<1>4. DbType(RegisteredDb(batches))
  BY <1>1, <1>2, <1>3 DEF DbType, IsPartialFn
<1>5. Mirror(RegisteredDb(batches)) /\ Exclusive(RegisteredDb(batches))
  BY <1>2, <1>3 DEF Mirror, Exclusive
<1> QED BY <1>2, <1>3, <1>4, <1>5 DEF DbInv

(* The invariant holds when the runners start. *)
LEMMA RunnerInvInit == Init => RunnerInv
<1> SUFFICES ASSUME Init PROVE RunnerInv
  OBVIOUS
<1> USE DEF Init
<1>0. DbInv(db)
  BY RegisteredInv
<1>1. LedgerInv
  BY <1>0 DEF LedgerInv
<1>2. LocalInv
  <2>1. 1 \in 1..Len(SaveStages) /\ NoClaim \in MaybeClaim
    BY RunnerAssumption DEF MaybeClaim
  <2>2. LocalType
    BY <2>1 DEF LocalType, Places
  <2>3. \A i \in Followers : DbType(replica[i])
    BY <1>0 DEF DbInv
  <2>4. \A i \in Instances : pc[i] = "idle" /\ step[i] = 1
    OBVIOUS
  <2> QED BY <2>2, <2>3, <2>4 DEF LocalInv, InHand, Working
<1>3. HandInv /\ ProcessedInv
  BY DEF HandInv, ProcessedInv, InHand, Working
<1> QED BY <1>1, <1>2, <1>3 DEF RunnerInv

(* What was counted stays Completed, and an ack counts a claim that is. *)
LEMMA ProcessedKept ==
  ASSUME LedgerInv, ProcessedInv, Grows(db, db'), [Next]_vars
  PROVE  ProcessedInv'
<1>1. \A c \in processed : c \in DOMAIN db'.claims /\ db'.claims[c].status = "Completed"
  BY DEF ProcessedInv, Grows
<1>2. ASSUME NEW i \in Instances, Ack(i)
      PROVE  ProcessedInv'
  <2>1. AckCommand(i).op = "AckClaim" /\ AckCommand(i).claim_id = claim[i]
    BY DEF AckCommand
  <2>2. claim[i] \in DOMAIN db'.claims /\ db'.claims[claim[i]].status = "Completed"
    <3>1. /\ Apply(db, AckCommand(i)).response = "ClaimAcked"
          /\ db' = Apply(db, AckCommand(i)).db /\ DbType(db)
      BY <1>2 DEF Ack, Answered, LedgerInv, DbInv
    <3> QED BY <2>1, <3>1, AnswerLands
  <2> QED BY <1>1, <1>2, <2>2 DEF Ack, ProcessedInv
<1>3. CASE processed' = processed
  BY <1>1, <1>3 DEF ProcessedInv
<1>4. ASSUME NEW i \in Instances, Step(i) \/ RenewWhileRunning(i) \/ Crash(i), ~Ack(i)
      PROVE  processed' = processed
  BY <1>4 DEF Step, Enter, Sweep, SkipSweep, ScanEmpty, Scan, Claimed, ClaimConflict,
             ClaimFails, Load, LoadFails, RenewFirst, RunSucceeds, RunFails, Save,
             SaveEmpty, SaveNothing, SaveFails, AckFails, Release, RenewWhileRunning, Crash
<1>5. CASE (\E cmd \in late : CommitLate(cmd)) \/ (\E i \in Followers : CatchUp(i))
           \/ Tick \/ UNCHANGED vars
  BY <1>3, <1>5 DEF CommitLate, CatchUp, Tick, vars
<1> QED BY <1>2, <1>3, <1>4, <1>5 DEF Next

(* Every step keeps the invariant. *)
LEMMA RunnerInvKept ==
  ASSUME RunnerInv, [Next]_vars
  PROVE  RunnerInv' /\ Grows(db, db')
<1>1. LedgerInv /\ LocalInv /\ HandInv /\ ProcessedInv
  BY DEF RunnerInv
<1>2. LedgerInv' /\ Grows(db, db')
  BY <1>1, NextLedgerStep, LedgerKept
<1>3. Lasting
  BY <1>2 DEF Grows, Lasting, Saved
<1>4. ProcessedInv'
  BY <1>1, <1>2, ProcessedKept
<1>5. LocalInv' /\ HandInv'
  <2>1. ASSUME NEW i \in Instances, Step(i) \/ RenewWhileRunning(i) \/ Crash(i)
        PROVE  LocalInv' /\ HandInv'
    BY <1>1, <1>3, <2>1, LocalKept, HandKept
  <2>2. ASSUME UNCHANGED <<pc, after, claim, scanned, step>>, late' \subseteq late,
               DOMAIN replica' = Followers, \A i \in Followers : DbType(replica'[i])
        PROVE  LocalInv' /\ HandInv'
    BY <1>1, <1>3, <2>2 DEF LocalInv, LocalType, HandInv, Lasting
  <2>3. DOMAIN replica = Followers /\ (\A i \in Followers : DbType(replica[i])) /\ DbType(db)
    BY <1>1 DEF LocalInv, LedgerInv, DbInv
  <2>4. ASSUME NEW cmd \in late, CommitLate(cmd)
        PROVE  LocalInv' /\ HandInv'
    BY <2>2, <2>3, <2>4 DEF CommitLate, local
  <2>5. ASSUME NEW i \in Followers, CatchUp(i)
        PROVE  LocalInv' /\ HandInv'
    BY <2>2, <2>3, <2>5 DEF CatchUp, local
  <2>6. CASE Tick \/ UNCHANGED vars
    BY <2>2, <2>3, <2>6 DEF Tick, vars, ledger, local
  <2> QED BY <2>1, <2>4, <2>5, <2>6 DEF Next
<1> QED BY <1>2, <1>4, <1>5 DEF RunnerInv

(* The invariant holds for any number of instances, batches and faults. *)
LEMMA RunnerInvHolds == Spec => []RunnerInv
<1>1. RunnerInv /\ [Next]_vars => RunnerInv'
  BY RunnerInvKept
<1> QED BY <1>1, RunnerInvInit, PTL DEF Spec

(* Whatever calls of any number of runners are lost, late or answered to a *)
(* runner that has lost its claim: a Completed claim has the data          *)
(* checkpoint of its own execution.                                        *)
THEOREM AckNeverOvertakesSave == Spec => []AckedIsSaved
<1>1. RunnerInv => AckedIsSaved
  <2> SUFFICES ASSUME RunnerInv, NEW c \in DOMAIN db.claims,
                      db.claims[c].status = "Completed"
               PROVE  /\ <<c, SaveStages[1]>> \in DOMAIN db.checkpoints
                      /\ db.checkpoints[<<c, SaveStages[1]>>].payload = c
    BY DEF AckedIsSaved
  <2>1. <<c, SaveStages[1]>> \in DOMAIN db.checkpoints
    BY DEF RunnerInv, LedgerInv, DbInv, Saved
  <2>2. <<c, SaveStages[1]>>[1] = c
    OBVIOUS
  <2> QED BY <2>1, <2>2 DEF RunnerInv, LedgerInv, DbInv
<1> QED BY <1>1, RunnerInvHolds, PTL

(* Runners race, lose their leases and execute the same rows again; all    *)
(* together they count a row at most once, and only if it is Completed.    *)
THEOREM RowsCountedOnce == Spec => []CountedOnce
<1>1. RunnerInv => CountedOnce
  <2> SUFFICES ASSUME RunnerInv PROVE CountedOnce
    OBVIOUS
  <2>1. \A c \in processed : /\ c \in DOMAIN db.claims
                             /\ db.claims[c].status = "Completed"
                             /\ db.claims[c].row_range_start \in Nat
                             /\ db.claims[c].row_range_end \in Nat
    BY DEF RunnerInv, ProcessedInv, LedgerInv, DbInv, DbType, IsPartialFn, ClaimRecord
  <2>2. Exclusive(db)
    BY DEF RunnerInv, LedgerInv, DbInv
  <2> QED BY <2>1, <2>2 DEF CountedOnce, Exclusive, ShareRows, Occupying
<1> QED BY <1>1, RunnerInvHolds, PTL

----------------------------------------------------------------------------
(* Leases *)

(* A claim goes back to Pending by a release of it or by a sweep that      *)
(* found its lease expired.                                                *)
LEMMA WhatFreesAClaim ==
  ASSUME NEW d, DbInv(d), NEW t, NEW cmd, Proper(d, t, cmd), NEW e, e = Apply(d, cmd).db,
         NEW c \in DOMAIN d.claims, d.claims[c].status = "Claimed",
         e.claims[c].status = "Pending"
  PROVE  \/ cmd.op = "ReleaseClaim" /\ cmd.claim_id = c
         \/ cmd.op = "ReclaimExpired" /\ d.claims[c].lease_expires_at < cmd.now_at_propose
<1>1. DbType(d) /\ Mirror(d) /\ Exclusive(d) /\ d.claims[c] \in ClaimRecord
  BY DEF DbInv, DbType, IsPartialFn
<1>2. cmd.op # "ClaimRowRange"
  BY <1>1, ProperClaims
<1>3. cmd.op # "Checkpoint"
  <2> SUFFICES ASSUME cmd.op = "Checkpoint" PROVE FALSE
    OBVIOUS
  <2>1. e.claims = d.claims
    BY <1>1, CheckpointEffect, Zenon
  <2> QED BY <2>1
<1>4. cmd.op # "RenewClaim"
  <2> SUFFICES ASSUME cmd.op = "RenewClaim" PROVE FALSE
    OBVIOUS
  <2>1. \/ e = d
        \/ \E n : e.claims = Put(d.claims, cmd.claim_id, [d.claims[cmd.claim_id] EXCEPT
                                                            !.lease_expires_at = n])
    BY <1>1 DEF Apply, ApplyRenewClaim, Reply, DbType, Tables
  <2>2. ASSUME NEW n, e.claims = Put(d.claims, cmd.claim_id, [d.claims[cmd.claim_id] EXCEPT
                                                            !.lease_expires_at = n])
        PROVE  e.claims[c].status = d.claims[c].status
    <3>1. CASE cmd.claim_id = c
      BY <1>1, <2>2, <3>1 DEF Put, ClaimRecord
    <3>2. CASE cmd.claim_id # c
      BY <2>2, <3>2 DEF Put
    <3> QED BY <3>1, <3>2
  <2> QED BY <2>1, <2>2
<1>5. cmd.op # "AckClaim"
  <2> SUFFICES ASSUME cmd.op = "AckClaim" PROVE FALSE
    OBVIOUS
  <2>1. \/ e = d
        \/ e.claims = Put(d.claims, cmd.claim_id, [d.claims[cmd.claim_id] EXCEPT
                                                     !.status = "Completed",
                                                     !.lease_expires_at = 0])
    BY <1>1 DEF Apply, ApplyAckClaim, Reply, DbType, Tables
  <2> QED BY <1>1, <2>1 DEF Put, ClaimRecord
<1>6. CASE cmd.op = "ReleaseClaim"
  <2>1. \/ e = d
        \/ e.claims = Put(d.claims, cmd.claim_id, [d.claims[cmd.claim_id] EXCEPT
                                                     !.status = "Pending",
                                                     !.lease_expires_at = 0,
                                                     !.instance_id = NoInstance])
    BY <1>1, <1>6 DEF Apply, ApplyReleaseClaim, Reply, DbType, Tables
  <2> QED BY <1>6, <2>1 DEF Put
<1>7. CASE cmd.op = "ReclaimExpired"
  <2> DEFINE E == Expired(d, cmd.now_at_propose)
  <2>1. \/ e = d
        \/ e.claims = [x \in DOMAIN d.claims |->
                         IF x \in E THEN [d.claims[x] EXCEPT !.status = "Pending",
                                                             !.lease_expires_at = 0]
                         ELSE d.claims[x]]
    BY <1>1, <1>7 DEF Apply, ApplyReclaimExpired, Reply, DbType, Tables
  <2> HIDE DEF E
  <2>2. c \in E
    BY <2>1
  <2> QED BY <1>7, <2>2 DEF E, Expired
<1> QED BY <1>2, <1>3, <1>4, <1>5, <1>6, <1>7 DEF Proper

(* What a step of a runner writes: the effect of a proper command, a       *)
(* release only of the claim it is giving up, a checkpoint only in a save. *)
LEMMA RunnerWrites ==
  ASSUME LedgerInv, LocalInv, NEW i \in Instances,
         Step(i) \/ RenewWhileRunning(i) \/ Crash(i), db' # db
  PROVE  \E cmd : /\ Proper(db, Latest, cmd) /\ db' = Apply(db, cmd).db
                  /\ cmd.op = "ReleaseClaim" => pc[i] = "release" /\ cmd.claim_id = claim[i]
                  /\ cmd.op = "Checkpoint" => Save(i) /\ cmd = SaveCommand(i)
<1>1. ASSUME NEW cmd, NotAnswered(cmd)
      PROVE  FALSE
  BY <1>1 DEF NotAnswered
<1>2. ASSUME NEW cmd, NEW response, Answered(cmd, response)
      PROVE  db' = Apply(db, cmd).db
  BY <1>2 DEF Answered
<1>3. CASE Sweep(i)
  <2> DEFINE cmd(at) == [op |-> "ReclaimExpired", now_at_propose |-> at]
  <2>1. PICK at \in Stamps : Answered(cmd(at), "ExpiredReclaimed")
    BY <1>1, <1>3 DEF Sweep
  <2>2. Proper(db, Latest, cmd(at)) /\ db' = Apply(db, cmd(at)).db
    BY <1>2, <2>1, SweepProper DEF LedgerInv
  <2>3. cmd(at).op = "ReclaimExpired"
    OBVIOUS
  <2> HIDE DEF cmd
  <2> QED BY <2>2, <2>3
<1>4. CASE Claimed(i) \/ ClaimConflict(i) \/ ClaimFails(i)
  <2>1. PICK at \in Stamps :
          Proper(db, Latest, ClaimCommand(i, at)) /\ db' = Apply(db, ClaimCommand(i, at)).db
    BY <1>1, <1>2, <1>4, ClaimProper DEF Claimed, ClaimConflict, ClaimFails
  <2>2. ClaimCommand(i, at).op = "ClaimRowRange"
    BY DEF ClaimCommand
  <2> QED BY <2>1, <2>2
<1>5. CASE RenewFirst(i) \/ RenewWhileRunning(i)
  <2>1. pc[i] \in InHand
    BY <1>5 DEF RenewFirst, RenewWhileRunning, InHand, Working
  <2>2. PICK at \in Stamps :
          Proper(db, Latest, RenewCommand(i, at)) /\ db' = Apply(db, RenewCommand(i, at)).db
    <3>1. \E at \in Stamps : db' = Apply(db, RenewCommand(i, at)).db
      BY <1>1, <1>2, <1>5 DEF RenewFirst, RenewWhileRunning, Renewed, RenewFails, ledger
    <3> QED BY <2>1, <3>1, HandProper
  <2>3. RenewCommand(i, at).op = "RenewClaim"
    BY DEF RenewCommand
  <2> QED BY <2>2, <2>3
<1>6. CASE Save(i) \/ SaveFails(i)
  <2>1. pc[i] \in InHand
    BY <1>6 DEF Save, SaveFails, InHand, Working
  <2>2. Proper(db, Latest, SaveCommand(i)) /\ db' = Apply(db, SaveCommand(i)).db
    BY <1>1, <1>2, <1>6, <2>1, HandProper DEF Save, SaveFails
  <2>3. Save(i)
    BY <1>1, <1>6 DEF SaveFails
  <2>4. SaveCommand(i).op = "Checkpoint"
    BY DEF SaveCommand
  <2> QED BY <2>2, <2>3, <2>4
<1>7. CASE Ack(i) \/ AckFails(i)
  <2>1. pc[i] = "ack" /\ pc[i] \in InHand
    BY <1>7 DEF Ack, AckFails, InHand, Working
  <2>2. Proper(db, Latest, AckCommand(i)) /\ db' = Apply(db, AckCommand(i)).db
    BY <1>1, <1>2, <1>7, <2>1, HandProper DEF Ack, AckFails
  <2>3. AckCommand(i).op = "AckClaim"
    BY DEF AckCommand
  <2> QED BY <2>2, <2>3
<1>8. ~(\/ Enter(i) \/ SkipSweep(i) \/ ScanEmpty(i) \/ Scan(i) \/ Load(i) \/ LoadFails(i)
        \/ RunSucceeds(i) \/ RunFails(i) \/ SaveEmpty(i) \/ SaveNothing(i) \/ Crash(i))
  BY DEF Enter, SkipSweep, ScanEmpty, Scan, Load, LoadFails, RunSucceeds, RunFails,
         SaveEmpty, SaveNothing, Crash, ledger
<1>9. CASE Release(i)
  <2> DEFINE cmd == [op |-> "ReleaseClaim", claim_id |-> claim[i], instance_id |-> i]
  <2>1. pc[i] = "release" /\ pc[i] \in InHand
    BY <1>9 DEF Release, InHand
  <2>2. Proper(db, Latest, cmd)
    BY <2>1, HandProper
  <2>3. db' = Apply(db, cmd).db
    BY <1>9 DEF Release, Answered, NotAnswered
  <2>4. cmd.claim_id = claim[i] /\ cmd.op = "ReleaseClaim"
    OBVIOUS
  <2> HIDE DEF cmd
  <2> QED BY <2>1, <2>2, <2>3, <2>4
<1> QED BY <1>3, <1>4, <1>5, <1>6, <1>7, <1>8, <1>9 DEF Step

(* Which release a step applies: the runner's own, or one left behind. *)
LEMMA WhoReleases ==
  ASSUME LedgerInv, LocalInv, [Next]_vars, db' # db
  PROVE  \E cmd : /\ Proper(db, Latest, cmd) /\ db' = Apply(db, cmd).db
                  /\ cmd.op = "ReleaseClaim" =>
                       \/ cmd \in late
                       \/ \E i \in Instances : pc[i] = "release" /\ cmd.claim_id = claim[i]
<1>1. ASSUME NEW cmd \in late, CommitLate(cmd)
      PROVE  Proper(db, Latest, cmd) /\ db' = Apply(db, cmd).db
  BY <1>1 DEF CommitLate, LedgerInv
<1>2. ASSUME NEW i \in Followers, CatchUp(i)
      PROVE  FALSE
  BY <1>2 DEF CatchUp
<1>3. CASE Tick \/ UNCHANGED vars
  BY <1>3 DEF Tick, ledger, vars
<1>4. ASSUME NEW i \in Instances, Step(i) \/ RenewWhileRunning(i) \/ Crash(i)
      PROVE  \E cmd : /\ Proper(db, Latest, cmd) /\ db' = Apply(db, cmd).db
                      /\ cmd.op = "ReleaseClaim" => pc[i] = "release" /\ cmd.claim_id = claim[i]
  BY <1>4, RunnerWrites
<1> QED BY <1>1, <1>2, <1>3, <1>4 DEF Next

(* Neither a sweep, by whichever clock, nor a command another caller gave  *)
(* up on takes a claim from a runner at work before its lease has run out  *)
(* by the clock that is furthest ahead.                                    *)
THEOREM WorkIsLeased == Spec => LeaseProtectsWork
<1> DEFINE P == \A i \in Instances :
                  /\ pc[i] \in Working
                  /\ db.claims[claim[i]].status = "Claimed"
                  /\ db'.claims[claim[i]].status = "Pending"
                  => db.claims[claim[i]].lease_expires_at < Latest
<1>1. RunnerInv /\ [Next]_vars => [P]_vars
  <2> SUFFICES ASSUME RunnerInv, [Next]_vars, NEW i \in Instances, pc[i] \in Working,
                      db.claims[claim[i]].status = "Claimed",
                      db'.claims[claim[i]].status = "Pending"
               PROVE  db.claims[claim[i]].lease_expires_at < Latest
    OBVIOUS
  <2> HIDE DEF Latest
  <2>1. LedgerInv /\ LocalInv /\ HandInv /\ DbInv(db) /\ Latest \in Nat
    BY RunnerAssumption DEF RunnerInv, LedgerInv, Latest
  <2>2. pc[i] \in InHand /\ pc[i] # "release"
    BY DEF InHand, Working
  <2>3. claim[i] \in DOMAIN db.claims
    BY <2>1, <2>2 DEF LocalInv
  <2>4. PICK cmd : /\ Proper(db, Latest, cmd) /\ db' = Apply(db, cmd).db
                   /\ cmd.op = "ReleaseClaim" =>
                        \/ cmd \in late
                        \/ \E j \in Instances : pc[j] = "release" /\ cmd.claim_id = claim[j]
    BY <2>1, WhoReleases
  <2>5. CASE cmd.op = "ReleaseClaim" /\ cmd.claim_id = claim[i]
    BY <2>1, <2>2, <2>4, <2>5 DEF HandInv, InHand
  <2>6. CASE cmd.op = "ReclaimExpired" /\
             db.claims[claim[i]].lease_expires_at < cmd.now_at_propose
    <3>1. cmd.now_at_propose <= Latest /\ cmd.now_at_propose \in Nat
      BY <2>4, <2>6 DEF Proper, ConsensusCommand
    <3>2. db.claims[claim[i]].lease_expires_at \in Nat
      BY <2>1, <2>3 DEF DbInv, DbType, IsPartialFn, ClaimRecord
    <3> QED BY <2>1, <2>6, <3>1, <3>2
  <2> QED BY <2>1, <2>3, <2>4, <2>5, <2>6, WhatFreesAClaim
<1> QED BY <1>1, RunnerInvHolds, PTL DEF Spec, LeaseProtectsWork, Latest

----------------------------------------------------------------------------
(* The state a runtime gets back *)

ChainType ==
  /\ chain \in [Instances -> [Chained -> MaybeClaim]]
  /\ kept \in [Instances -> [Chained -> MaybeClaim]]

(* Checkpoints and chains name claims that exist. *)
ChainKnown ==
  /\ \A k \in DOMAIN db.checkpoints : k[1] \in DOMAIN db.claims
  /\ \A i \in Instances, s \in Chained : chain[i][s] \in DOMAIN db.claims \cup {NoClaim}

(* What the runtime left is what the chain leads to. *)
ChainLeads ==
  \A i \in Instances, s \in Chained :
    kept[i][s] = IF <<chain[i][s], s>> \in DOMAIN db.checkpoints THEN chain[i][s] ELSE NoClaim

(* Nothing is there yet, or on its way, of what a runner is still to save. *)
UnsavedYet ==
  \A i \in Instances : pc[i] \in {"load", "renew", "run", "save"} =>
    \A k \in step[i]..Len(SaveStages) :
      /\ <<claim[i], SaveStages[k]>> \notin DOMAIN db.checkpoints
      /\ \A l \in late : l.op = "Checkpoint" /\ l.stage_idx = SaveStages[k]
                         => l.claim_id # claim[i]
      /\ SaveStages[k] \in Chained => \A j \in Instances : chain[j][SaveStages[k]] # claim[i]

(* A save that its caller gave up on is of no claim a chain leads to. *)
LateSavesUnchained ==
  \A l \in late : l.op = "Checkpoint" /\ l.stage_idx \in Chained =>
    \A j \in Instances : chain[j][l.stage_idx] # l.claim_id

ChainInv == ChainType /\ ChainKnown /\ ChainLeads /\ UnsavedYet /\ LateSavesUnchained

(* Claims still to be saved stay in the hand that holds them. *)
Unsaved == {"load", "renew", "run", "save"}

StillUnsaved(j) ==
  pc'[j] \in Unsaved => pc[j] \in Unsaved /\ claim'[j] = claim[j] /\ step[j] <= step'[j]

(* The claims a chain may lead to are told apart from no claim. *)
LEMMA ClaimsAreIds ==
  ASSUME LedgerInv
  PROVE  /\ DOMAIN db.claims \subseteq ClaimIds /\ NoClaim \notin DOMAIN db.claims
         /\ \A l \in late : l.op = "Checkpoint" => l.claim_id \in ClaimIds
<1>1. DOMAIN db.claims \subseteq ClaimIds
  BY DEF LedgerInv, DbInv, DbType, IsPartialFn
<1>2. ASSUME NEW l \in late, l.op = "Checkpoint"
      PROVE  l.claim_id \in ClaimIds
  <2>1. l \in ConsensusCommand
    BY DEF LedgerInv, Proper
  <2> QED BY <1>2, <2>1 DEF ConsensusCommand
<1> QED BY <1>1, <1>2, RunnerAssumption

(* Which checkpoints a proper command adds. *)
LEMMA AddedKeys ==
  ASSUME NEW d, DbType(d), NEW t, NEW cmd, Proper(d, t, cmd), NEW e, e = Apply(d, cmd).db
  PROVE  \/ DOMAIN e.checkpoints = DOMAIN d.checkpoints
         \/ /\ cmd.op = "Checkpoint" /\ cmd.claim_id \in DOMAIN d.claims
            /\ DOMAIN e.checkpoints =
                 DOMAIN d.checkpoints \cup {<<cmd.claim_id, cmd.stage_idx>>}
<1>1. CASE cmd.op # "Checkpoint"
  <2>1. e.checkpoints = d.checkpoints
    BY <1>1, CheckpointsKept DEF Proper
  <2> QED BY <2>1
<1>2. CASE cmd.op = "Checkpoint"
  <2>1. \/ e.checkpoints = d.checkpoints
        \/ /\ cmd.claim_id \in DOMAIN d.claims
           /\ e.checkpoints =
                Put(d.checkpoints, <<cmd.claim_id, cmd.stage_idx>>,
                    [batch_id |-> d.claims[cmd.claim_id].batch_id,
                     payload |-> cmd.payload])
    BY <1>2, CheckpointEffect
  <2> QED BY <1>2, <2>1 DEF Put
<1> QED BY <1>1, <1>2

(* Which checkpoints a step of a runner adds: those it saves. *)
LEMMA SavedKeys ==
  ASSUME LedgerInv, LocalInv, NEW i \in Instances,
         Step(i) \/ RenewWhileRunning(i) \/ Crash(i)
  PROVE  \/ DOMAIN db'.checkpoints = DOMAIN db.checkpoints
         \/ /\ Save(i) /\ claim[i] \in DOMAIN db.claims
            /\ DOMAIN db'.checkpoints =
                 DOMAIN db.checkpoints \cup {<<claim[i], SaveStages[step[i]]>>}
<1>1. CASE db' = db
  BY <1>1
<1>2. CASE db' # db
  <2>1. PICK cmd : /\ Proper(db, Latest, cmd) /\ db' = Apply(db, cmd).db
                   /\ cmd.op = "Checkpoint" => Save(i) /\ cmd = SaveCommand(i)
    BY <1>2, RunnerWrites
  <2>2. SaveCommand(i).claim_id = claim[i] /\ SaveCommand(i).stage_idx = SaveStages[step[i]]
    BY DEF SaveCommand
  <2>3. DbType(db)
    BY DEF LedgerInv, DbInv
  <2> QED BY <2>1, <2>2, <2>3, AddedKeys
<1> QED BY <1>1, <1>2

(* A checkpoint on its way was left behind by a save that failed. *)
LEMMA LateSaves ==
  ASSUME NEW i \in Instances, Step(i) \/ RenewWhileRunning(i) \/ Crash(i),
         NEW l \in late', l.op = "Checkpoint", l \notin late
  PROVE  SaveFails(i) /\ l.claim_id = claim[i] /\ l.stage_idx = SaveStages[step[i]]
<1>1. ASSUME NEW cmd, NotAnswered(cmd)
      PROVE  l = cmd
  BY <1>1 DEF NotAnswered
<1>2. ASSUME NEW cmd, NEW response, Answered(cmd, response)
      PROVE  FALSE
  BY <1>2 DEF Answered
<1>3. late' # late
  OBVIOUS
<1>4. CASE SaveFails(i)
  <2>1. NotAnswered(SaveCommand(i))
    BY <1>3, <1>4 DEF SaveFails
  <2> QED BY <1>1, <1>4, <2>1 DEF SaveCommand
<1>5. ~Sweep(i)
  <2> DEFINE cmd(at) == [op |-> "ReclaimExpired", now_at_propose |-> at]
  <2>1. \A at : cmd(at).op = "ReclaimExpired"
    OBVIOUS
  <2>2. Sweep(i) => \E at : Answered(cmd(at), "ExpiredReclaimed") \/ NotAnswered(cmd(at))
    BY DEF Sweep
  <2> HIDE DEF cmd
  <2> QED BY <1>1, <1>2, <2>1, <2>2
<1>6. ~(Claimed(i) \/ ClaimConflict(i) \/ ClaimFails(i))
  <2>1. \A at : ClaimCommand(i, at).op = "ClaimRowRange"
    BY DEF ClaimCommand
  <2> QED BY <1>1, <1>2, <2>1 DEF Claimed, ClaimConflict, ClaimFails
<1>7. ~(RenewFirst(i) \/ RenewWhileRunning(i))
  <2>1. \A at : RenewCommand(i, at).op = "RenewClaim"
    BY DEF RenewCommand
  <2> QED BY <1>1, <1>2, <1>3, <2>1
      DEF RenewFirst, RenewWhileRunning, Renewed, RenewFails, ledger
<1>8. ~(Ack(i) \/ AckFails(i))
  BY <1>1, <1>2 DEF Ack, AckFails, AckCommand
<1>9. ~Release(i)
  BY <1>1, <1>2 DEF Release
<1>10. ~(\/ Enter(i) \/ SkipSweep(i) \/ ScanEmpty(i) \/ Scan(i) \/ Load(i) \/ LoadFails(i)
         \/ RunSucceeds(i) \/ RunFails(i) \/ SaveEmpty(i) \/ SaveNothing(i) \/ Crash(i))
  BY <1>3 DEF Enter, SkipSweep, ScanEmpty, Scan, Load, LoadFails, RunSucceeds, RunFails,
              SaveEmpty, SaveNothing, Crash, ledger
<1>11. ~Save(i)
  BY <1>2 DEF Save
<1> QED BY <1>4, <1>5, <1>6, <1>7, <1>8, <1>9, <1>10, <1>11 DEF Step

(* A chain as one save leaves it. *)
LEMMA AtStageIs ==
  ASSUME NEW f \in [Instances -> [Chained -> MaybeClaim]], NEW i \in Instances, NEW x
  PROVE  \A j \in Instances, s \in Chained :
           AtStage(f, i, x)[j][s] = IF j = i /\ s = SaveStages[step[i]] THEN x ELSE f[j][s]
<1>1. AtStage(f, i, x)[i] = [s \in Chained |-> IF s = SaveStages[step[i]] THEN x ELSE f[i][s]]
  BY DEF AtStage
<1>2. \A j \in Instances : j # i => AtStage(f, i, x)[j] = f[j]
  BY DEF AtStage
<1> QED BY <1>1, <1>2

LEMMA AtStageType ==
  ASSUME NEW f \in [Instances -> [Chained -> MaybeClaim]], NEW i \in Instances,
         NEW x \in MaybeClaim
  PROVE  AtStage(f, i, x) \in [Instances -> [Chained -> MaybeClaim]]
<1>1. [s \in Chained |-> IF s = SaveStages[step[i]] THEN x ELSE f[i][s]] \in [Chained -> MaybeClaim]
  OBVIOUS
<1> QED BY <1>1 DEF AtStage

(* Steps that move no chain and save nothing. *)
LEMMA ChainQuiet ==
  ASSUME ChainInv, LocalType, LocalType', chain' = chain, kept' = kept,
         DOMAIN db.claims \subseteq DOMAIN db'.claims,
         DOMAIN db'.checkpoints = DOMAIN db.checkpoints,
         \A l \in late' : l.op = "Checkpoint" => l \in late,
         \A j \in Instances : StillUnsaved(j)
  PROVE  ChainInv'
<1>1. ChainType' /\ ChainKnown' /\ ChainLeads' /\ LateSavesUnchained'
  BY DEF ChainInv, ChainType, ChainKnown, ChainLeads, LateSavesUnchained
<1>2. ASSUME NEW i \in Instances, pc'[i] \in Unsaved, NEW k \in step'[i]..Len(SaveStages)
      PROVE  /\ <<claim'[i], SaveStages[k]>> \notin DOMAIN db'.checkpoints
             /\ \A l \in late' : l.op = "Checkpoint" /\ l.stage_idx = SaveStages[k]
                                => l.claim_id # claim'[i]
             /\ SaveStages[k] \in Chained =>
                  \A j \in Instances : chain'[j][SaveStages[k]] # claim'[i]
  <2>1. pc[i] \in Unsaved /\ claim'[i] = claim[i] /\ step[i] <= step'[i]
    BY <1>2 DEF StillUnsaved
  <2>2. k \in step[i]..Len(SaveStages)
    BY <1>2, <2>1, RunnerAssumption DEF LocalType
  <2> QED BY <2>1, <2>2 DEF ChainInv, UnsavedYet, Unsaved
<1>3. UnsavedYet'
  BY <1>2 DEF UnsavedYet, Unsaved
<1> QED BY <1>1, <1>3 DEF ChainInv

(* A save, durable or empty, moves the chain of its stage. *)
LEMMA ChainMoves ==
  ASSUME ChainInv, LedgerInv, LocalInv, HandInv, LocalType', NEW i \in Instances,
         pc[i] = "save", NextSave(i), late' = late, DOMAIN db.claims \subseteq DOMAIN db'.claims,
         NEW key, key = <<claim[i], SaveStages[step[i]]>>,
         DOMAIN db'.checkpoints \in {DOMAIN db.checkpoints, DOMAIN db.checkpoints \cup {key}},
         NEW x, x = IF key \in DOMAIN db'.checkpoints THEN claim[i] ELSE NoClaim,
         chain' = AtStage(chain, i, claim[i]), kept' = AtStage(kept, i, x)
  PROVE  ChainInv'
<1> DEFINE s0 == SaveStages[step[i]]
<1>1. /\ step[i] \in 1..Len(SaveStages) /\ Len(SaveStages) \in Nat
      /\ \A k \in 1..Len(SaveStages) : SaveStages[k] = s0 => k = step[i]
  BY RunnerAssumption DEF LocalInv, LocalType, IsInjective
<1>2. /\ claim[i] \in DOMAIN db.claims /\ claim[i] \in ClaimIds
      /\ pc[i] \in Unsaved /\ pc[i] \in InHand
  BY ClaimsAreIds DEF LocalInv, Unsaved, InHand, Working
<1>3. ChainType /\ ChainType'
  BY <1>2, AtStageType DEF ChainInv, ChainType, MaybeClaim
<1>4. \A j \in Instances, s \in Chained :
        /\ chain'[j][s] = IF j = i /\ s = s0 THEN claim[i] ELSE chain[j][s]
        /\ kept'[j][s] = IF j = i /\ s = s0 THEN x ELSE kept[j][s]
  <2>1. /\ chain \in [Instances -> [Chained -> MaybeClaim]]
        /\ kept \in [Instances -> [Chained -> MaybeClaim]]
    BY <1>3 DEF ChainType
  <2>2. \A j \in Instances, s \in Chained :
          AtStage(chain, i, claim[i])[j][s] = IF j = i /\ s = s0 THEN claim[i] ELSE chain[j][s]
    BY <2>1, AtStageIs
  <2>3. \A j \in Instances, s \in Chained :
          AtStage(kept, i, x)[j][s] = IF j = i /\ s = s0 THEN x ELSE kept[j][s]
    BY <2>1, AtStageIs
  <2> QED BY <2>2, <2>3
<1>5. /\ key \notin DOMAIN db.checkpoints
      /\ \A l \in late : l.op = "Checkpoint" /\ l.stage_idx = s0 => l.claim_id # claim[i]
      /\ s0 \in Chained => \A j \in Instances : chain[j][s0] # claim[i]
  <2>1. step[i] \in step[i]..Len(SaveStages)
    BY <1>1
  <2> QED BY <1>2, <2>1 DEF ChainInv, UnsavedYet, Unsaved
<1>6. /\ DOMAIN db.checkpoints \subseteq DOMAIN db'.checkpoints
      /\ \A k \in DOMAIN db'.checkpoints : k \in DOMAIN db.checkpoints \/ k = key
      /\ \A c, s : <<c, s>> = key => c = claim[i] /\ s = s0
  OBVIOUS
<1> HIDE DEF s0
<1>7. ChainKnown'
  <2>1. key[1] = claim[i]
    OBVIOUS
  <2>2. \A k \in DOMAIN db'.checkpoints : k[1] \in DOMAIN db'.claims
    BY <1>2, <1>6, <2>1 DEF ChainInv, ChainKnown
  <2>3. \A j \in Instances, s \in Chained : chain'[j][s] \in DOMAIN db'.claims \cup {NoClaim}
    BY <1>2, <1>4 DEF ChainInv, ChainKnown
  <2> QED BY <2>2, <2>3 DEF ChainKnown
<1>8. ASSUME NEW j \in Instances, NEW s \in Chained
      PROVE  kept'[j][s] =
               IF <<chain'[j][s], s>> \in DOMAIN db'.checkpoints THEN chain'[j][s] ELSE NoClaim
  <2>1. CASE j = i /\ s = s0
    BY <1>4, <2>1 DEF s0
  <2>2. CASE ~(j = i /\ s = s0)
    <3>1. chain'[j][s] = chain[j][s] /\ kept'[j][s] = kept[j][s]
      BY <1>4, <2>2
    <3>2. <<chain[j][s], s>> # key
      BY <1>5, <1>6
    <3>3. <<chain[j][s], s>> \in DOMAIN db'.checkpoints
            <=> <<chain[j][s], s>> \in DOMAIN db.checkpoints
      BY <1>6, <3>2
    <3> QED BY <3>1, <3>3 DEF ChainInv, ChainLeads
  <2> QED BY <2>1, <2>2
<1>9. ASSUME NEW j \in Instances, pc'[j] \in Unsaved, NEW k \in step'[j]..Len(SaveStages)
      PROVE  /\ <<claim'[j], SaveStages[k]>> \notin DOMAIN db'.checkpoints
             /\ \A l \in late' : l.op = "Checkpoint" /\ l.stage_idx = SaveStages[k]
                                => l.claim_id # claim'[j]
             /\ SaveStages[k] \in Chained =>
                  \A m \in Instances : chain'[m][SaveStages[k]] # claim'[j]
  <2>1. claim' = claim
    BY DEF NextSave
  <2>2. pc[j] \in Unsaved /\ step[j] <= step'[j] /\ (j = i => step[i] < step'[i])
    <3>1. CASE step[i] < Len(SaveStages)
      <4>1. step' = [step EXCEPT ![i] = step[i] + 1] /\ pc' = pc
        BY <3>1 DEF NextSave
      <4> QED BY <1>9, <4>1 DEF LocalInv, LocalType
    <3>2. CASE ~(step[i] < Len(SaveStages))
      <4>1. step' = step /\ pc' = [pc EXCEPT ![i] = "ack"]
        BY <3>2 DEF NextSave, Goto
      <4>2. j # i /\ pc[j] \in Unsaved
        BY <1>9, <4>1 DEF LocalInv, LocalType, Unsaved
      <4> QED BY <4>1, <4>2 DEF LocalInv, LocalType
    <3> QED BY <3>1, <3>2
  <2>3. k \in step[j]..Len(SaveStages) /\ k \in 1..Len(SaveStages)
    BY <1>1, <1>9, <2>2 DEF LocalInv, LocalType
  <2>4. /\ <<claim[j], SaveStages[k]>> \notin DOMAIN db.checkpoints
        /\ \A l \in late : l.op = "Checkpoint" /\ l.stage_idx = SaveStages[k]
                           => l.claim_id # claim[j]
        /\ SaveStages[k] \in Chained => \A m \in Instances : chain[m][SaveStages[k]] # claim[j]
    BY <2>2, <2>3 DEF ChainInv, UnsavedYet, Unsaved
  <2>5. claim[j] = claim[i] => SaveStages[k] # s0
    <3> SUFFICES ASSUME claim[j] = claim[i] PROVE SaveStages[k] # s0
      OBVIOUS
    <3>1. pc[j] \in InHand
      BY <2>2 DEF Unsaved, InHand, Working
    <3>2. j = i
      BY <1>2, <3>1 DEF HandInv
    <3>3. k # step[i]
      BY <1>1, <1>9, <2>2, <3>2 DEF LocalType
    <3> QED BY <1>1, <2>3, <3>3
  <2>6. <<claim[j], SaveStages[k]>> # key
    BY <1>6, <2>5
  <2> QED BY <1>4, <1>6, <2>1, <2>4, <2>5, <2>6
<1>10. LateSavesUnchained'
  BY <1>4, <1>5 DEF ChainInv, LateSavesUnchained
<1>11. UnsavedYet'
  BY <1>9 DEF UnsavedYet, Unsaved
<1>12. ChainLeads'
  BY <1>8 DEF ChainLeads
<1> QED BY <1>3, <1>7, <1>10, <1>11, <1>12 DEF ChainInv

(* A runner that enters run() starts with empty chains. *)
LEMMA ChainForgets ==
  ASSUME ChainInv, LedgerInv, LocalInv, NEW i \in Instances, Enter(i)
  PROVE  ChainInv'
<1>1. /\ pc' = [pc EXCEPT ![i] = "loop"] /\ chain' = [chain EXCEPT ![i] = NoChain]
      /\ kept' = [kept EXCEPT ![i] = NoChain] /\ db' = db /\ late' = late
      /\ claim' = claim /\ step' = step
  BY DEF Enter, Goto, ledger
<1>2. NoChain \in [Chained -> MaybeClaim] /\ \A s \in Chained : NoChain[s] = NoClaim
  BY DEF NoChain, MaybeClaim
<1>3. ChainType /\ ChainType'
  BY <1>1, <1>2 DEF ChainInv, ChainType
<1>4. \A j \in Instances, s \in Chained :
        /\ chain'[j][s] = IF j = i THEN NoClaim ELSE chain[j][s]
        /\ kept'[j][s] = IF j = i THEN NoClaim ELSE kept[j][s]
  BY <1>1, <1>2, <1>3 DEF ChainType
<1>5. \A s : <<NoClaim, s>> \notin DOMAIN db.checkpoints
  <2>1. \A s : <<NoClaim, s>>[1] = NoClaim
    OBVIOUS
  <2> QED BY <2>1, ClaimsAreIds DEF ChainInv, ChainKnown
<1>6. ChainKnown'
  BY <1>1, <1>4 DEF ChainInv, ChainKnown
<1>7. ChainLeads'
  BY <1>1, <1>4, <1>5 DEF ChainInv, ChainLeads
<1>8. \A j \in Instances : pc'[j] \in Unsaved => pc[j] \in Unsaved /\ claim[j] # NoClaim
  <2>1. \A j \in Instances : pc'[j] \in Unsaved => pc[j] \in Unsaved /\ pc[j] \in InHand
    BY <1>1 DEF LocalInv, LocalType, Unsaved, InHand, Working
  <2> QED BY <2>1, ClaimsAreIds DEF LocalInv
<1>9. UnsavedYet'
  <2> SUFFICES ASSUME NEW j \in Instances, pc'[j] \in Unsaved,
                      NEW k \in step'[j]..Len(SaveStages)
               PROVE  /\ <<claim'[j], SaveStages[k]>> \notin DOMAIN db'.checkpoints
                      /\ \A l \in late' : l.op = "Checkpoint" /\ l.stage_idx = SaveStages[k]
                                          => l.claim_id # claim'[j]
                      /\ SaveStages[k] \in Chained =>
                           \A m \in Instances : chain'[m][SaveStages[k]] # claim'[j]
    BY DEF UnsavedYet, Unsaved
  <2> QED BY <1>1, <1>4, <1>8 DEF ChainInv, UnsavedYet, Unsaved
<1>10. LateSavesUnchained'
  BY <1>1, <1>4, ClaimsAreIds, RunnerAssumption DEF ChainInv, LateSavesUnchained
<1> QED BY <1>3, <1>6, <1>7, <1>9, <1>10 DEF ChainInv

(* A claim just granted has neither checkpoint nor chain. *)
LEMMA ChainFresh ==
  ASSUME ChainInv, LedgerInv, LocalInv, NEW i \in Instances, Claimed(i),
         DOMAIN db.claims \subseteq DOMAIN db'.claims,
         DOMAIN db'.checkpoints = DOMAIN db.checkpoints
  PROVE  ChainInv'
<1>1. Fresh \in ClaimIds /\ Fresh \notin Traced
  BY FreshId DEF Claimed
<1>2. /\ pc' = [pc EXCEPT ![i] = "load"] /\ claim' = [claim EXCEPT ![i] = Fresh]
      /\ late' = late /\ chain' = chain /\ kept' = kept /\ step' = step
  BY DEF Claimed, Answered, Goto
<1> HIDE DEF Fresh
<1>3. ChainType' /\ ChainKnown' /\ ChainLeads' /\ LateSavesUnchained'
  BY <1>2 DEF ChainInv, ChainType, ChainKnown, ChainLeads, LateSavesUnchained
<1>4. /\ Fresh \notin DOMAIN db.claims
      /\ \A l \in late : l.op = "Checkpoint" => l.claim_id # Fresh
  <2>1. ASSUME NEW l \in late, l.op = "Checkpoint"
        PROVE  "claim_id" \in DOMAIN l
    <3>1. l \in ConsensusCommand
      BY DEF LedgerInv, Proper
    <3> QED BY <2>1, <3>1 DEF ConsensusCommand
  <2> QED BY <1>1, <2>1 DEF Traced
<1>5. \A s : <<Fresh, s>> \notin DOMAIN db.checkpoints
  <2>1. \A s : <<Fresh, s>>[1] = Fresh
    OBVIOUS
  <2> QED BY <1>4, <2>1 DEF ChainInv, ChainKnown
<1>6. \A j \in Instances, s \in Chained : chain[j][s] # Fresh
  BY <1>1, <1>4, RunnerAssumption DEF ChainInv, ChainKnown
<1>7. ASSUME NEW j \in Instances, pc'[j] \in Unsaved, NEW k \in step'[j]..Len(SaveStages)
      PROVE  /\ <<claim'[j], SaveStages[k]>> \notin DOMAIN db'.checkpoints
             /\ \A l \in late' : l.op = "Checkpoint" /\ l.stage_idx = SaveStages[k]
                                => l.claim_id # claim'[j]
             /\ SaveStages[k] \in Chained =>
                  \A m \in Instances : chain'[m][SaveStages[k]] # claim'[j]
  <2>1. CASE j = i
    <3>1. claim'[j] = Fresh
      BY <1>2, <2>1 DEF LocalInv, LocalType
    <3> QED BY <1>2, <1>4, <1>5, <1>6, <3>1
  <2>2. CASE j # i
    <3>1. pc'[j] = pc[j] /\ claim'[j] = claim[j] /\ step'[j] = step[j]
      BY <1>2, <2>2 DEF LocalInv, LocalType
    <3> QED BY <1>2, <1>7, <3>1 DEF ChainInv, UnsavedYet, Unsaved
  <2> QED BY <2>1, <2>2
<1>8. UnsavedYet'
  BY <1>7 DEF UnsavedYet, Unsaved
<1> QED BY <1>3, <1>8 DEF ChainInv

(* A failed save leaves a checkpoint behind that nothing leads to. *)
LEMMA ChainOutlivesFailedSave ==
  ASSUME ChainInv, LedgerInv, LocalInv, HandInv, NEW i \in Instances, SaveFails(i)
  PROVE  ChainInv'
<1>1. /\ pc[i] = "save" /\ pc' = [pc EXCEPT ![i] = "release"] /\ db' = db
      /\ claim' = claim /\ step' = step /\ chain' = chain /\ kept' = kept
      /\ late' \subseteq late \cup {SaveCommand(i)}
  BY DEF SaveFails, NotAnswered, ReleaseThen, Goto
<1>2. SaveCommand(i).claim_id = claim[i] /\ SaveCommand(i).stage_idx = SaveStages[step[i]]
  BY DEF SaveCommand
<1>3. ChainType' /\ ChainKnown' /\ ChainLeads'
  BY <1>1 DEF ChainInv, ChainType, ChainKnown, ChainLeads
<1>4. SaveStages[step[i]] \in Chained =>
        \A j \in Instances : chain[j][SaveStages[step[i]]] # claim[i]
  <2>1. step[i] \in step[i]..Len(SaveStages)
    BY RunnerAssumption DEF LocalInv, LocalType
  <2> QED BY <1>1, <2>1 DEF ChainInv, UnsavedYet
<1>5. LateSavesUnchained'
  BY <1>1, <1>2, <1>4 DEF ChainInv, LateSavesUnchained
<1>6. ASSUME NEW j \in Instances, pc'[j] \in Unsaved
      PROVE  pc[j] \in Unsaved /\ claim[j] # claim[i]
  <2>1. j # i /\ pc[j] \in Unsaved
    BY <1>1, <1>6 DEF LocalInv, LocalType, Unsaved
  <2>2. pc[j] \in InHand /\ pc[i] \in InHand
    BY <1>1, <2>1 DEF Unsaved, InHand, Working
  <2> QED BY <2>1, <2>2 DEF HandInv
<1>7. UnsavedYet'
  <2> SUFFICES ASSUME NEW j \in Instances, pc'[j] \in Unsaved,
                      NEW k \in step'[j]..Len(SaveStages)
               PROVE  /\ <<claim'[j], SaveStages[k]>> \notin DOMAIN db'.checkpoints
                      /\ \A l \in late' : l.op = "Checkpoint" /\ l.stage_idx = SaveStages[k]
                                          => l.claim_id # claim'[j]
                      /\ SaveStages[k] \in Chained =>
                           \A m \in Instances : chain'[m][SaveStages[k]] # claim'[j]
    BY DEF UnsavedYet, Unsaved
  <2> QED BY <1>1, <1>2, <1>6 DEF ChainInv, UnsavedYet, Unsaved
<1> QED BY <1>3, <1>5, <1>7 DEF ChainInv

(* A command that commits late saves nothing a chain leads to. *)
LEMMA ChainOutlivesLateSave ==
  ASSUME ChainInv, LedgerInv, LocalInv, NEW cmd \in late, CommitLate(cmd),
         DOMAIN db.claims \subseteq DOMAIN db'.claims
  PROVE  ChainInv'
<1>1. /\ late' \subseteq late /\ chain' = chain /\ kept' = kept /\ pc' = pc
      /\ claim' = claim /\ step' = step
  BY DEF CommitLate, local
<1>2. DbType(db) /\ Proper(db, Latest, cmd) /\ db' = Apply(db, cmd).db
  BY DEF LedgerInv, DbInv, CommitLate
<1>3. CASE DOMAIN db'.checkpoints = DOMAIN db.checkpoints
  <2>1. LocalType /\ LocalType' /\ \A j \in Instances : StillUnsaved(j)
    BY <1>1 DEF CommitLate, local, LocalInv, LocalType, StillUnsaved
  <2> QED BY <1>1, <1>3, <2>1, ChainQuiet
<1>4. CASE /\ cmd.op = "Checkpoint" /\ cmd.claim_id \in DOMAIN db.claims
           /\ DOMAIN db'.checkpoints =
                DOMAIN db.checkpoints \cup {<<cmd.claim_id, cmd.stage_idx>>}
  <2> DEFINE key == <<cmd.claim_id, cmd.stage_idx>>
  <2>1. key[1] = cmd.claim_id /\ \A c, s : <<c, s>> = key => c = cmd.claim_id /\ s = cmd.stage_idx
    OBVIOUS
  <2>2. DOMAIN db'.checkpoints = DOMAIN db.checkpoints \cup {key}
    BY <1>4
  <2> HIDE DEF key
  <2>3. ChainType' /\ LateSavesUnchained'
    BY <1>1 DEF ChainInv, ChainType, LateSavesUnchained
  <2>4. ChainKnown'
    BY <1>1, <1>4, <2>1, <2>2 DEF ChainInv, ChainKnown
  <2>5. ASSUME NEW j \in Instances, NEW s \in Chained
        PROVE  <<chain[j][s], s>> # key
    BY <1>4, <2>1 DEF ChainInv, LateSavesUnchained
  <2>6. ChainLeads'
    BY <1>1, <2>2, <2>5 DEF ChainInv, ChainLeads
  <2>7. UnsavedYet'
    <3> SUFFICES ASSUME NEW j \in Instances, pc'[j] \in Unsaved,
                        NEW k \in step'[j]..Len(SaveStages)
                 PROVE  /\ <<claim'[j], SaveStages[k]>> \notin DOMAIN db'.checkpoints
                        /\ \A l \in late' : l.op = "Checkpoint" /\ l.stage_idx = SaveStages[k]
                                            => l.claim_id # claim'[j]
                        /\ SaveStages[k] \in Chained =>
                             \A m \in Instances : chain'[m][SaveStages[k]] # claim'[j]
      BY DEF UnsavedYet, Unsaved
    <3>1. /\ <<claim[j], SaveStages[k]>> \notin DOMAIN db.checkpoints
          /\ \A l \in late : l.op = "Checkpoint" /\ l.stage_idx = SaveStages[k]
                             => l.claim_id # claim[j]
          /\ SaveStages[k] \in Chained => \A m \in Instances : chain[m][SaveStages[k]] # claim[j]
      BY <1>1 DEF ChainInv, UnsavedYet, Unsaved
    <3>2. <<claim[j], SaveStages[k]>> # key
      BY <1>4, <2>1, <3>1
    <3> QED BY <1>1, <2>2, <3>1, <3>2
  <2> QED BY <2>3, <2>4, <2>6, <2>7 DEF ChainInv
<1> QED BY <1>2, <1>3, <1>4, AddedKeys

(* Only the answer to a claim command gives a runner something to save. *)
LEMMA OnlyClaimedStarts ==
  ASSUME LocalInv, NEW i \in Instances,
         Step(i) \/ RenewWhileRunning(i) \/ Crash(i), ~Claimed(i)
  PROVE  \A j \in Instances : StillUnsaved(j)
<1>1. \A j \in Instances : step[j] \in Nat /\ step[j] <= step[j]
  BY DEF LocalInv, LocalType
<1>2. pc \in [Instances -> Places] /\ step \in [Instances -> 1..Len(SaveStages)]
      /\ after[i] \in {"idle", "loop"} /\ claim \in [Instances -> MaybeClaim]
  BY DEF LocalInv, LocalType
<1> USE DEF StillUnsaved, Unsaved, Goto
<1>3. ASSUME NEW place \in {"idle", "loop"}, Leave(i, place)
      PROVE  \A j \in Instances : StillUnsaved(j)
  BY <1>1, <1>2, <1>3 DEF Leave
<1>4. ASSUME NEW place, ReleaseThen(i, place)
      PROVE  \A j \in Instances : StillUnsaved(j)
  BY <1>1, <1>2, <1>4 DEF ReleaseThen
<1>5. CASE Enter(i) \/ Sweep(i) \/ SkipSweep(i) \/ Scan(i)
  BY <1>1, <1>2, <1>5 DEF Enter, Sweep, SkipSweep, Scan, local
<1>6. CASE ScanEmpty(i) \/ ClaimFails(i) \/ Ack(i) \/ AckFails(i) \/ Crash(i)
  BY <1>3, <1>6 DEF ScanEmpty, ClaimFails, Ack, AckFails, Crash
<1>7. CASE Release(i)
  BY <1>2, <1>3, <1>7 DEF Release
<1>8. CASE ClaimConflict(i)
  <2>1. CASE Goto(i, "scan") /\ UNCHANGED <<after, claim, step, prior, timer>>
    BY <1>1, <1>2, <2>1
  <2> QED BY <1>3, <1>8, <2>1 DEF ClaimConflict
<1>9. CASE Load(i) \/ RunSucceeds(i)
  BY <1>1, <1>2, <1>9 DEF Load, RunSucceeds, local
<1>10. CASE LoadFails(i) \/ RunFails(i) \/ SaveFails(i)
  BY <1>3, <1>4, <1>10 DEF LoadFails, RunFails, SaveFails
<1>11. CASE RenewFirst(i) \/ RenewWhileRunning(i)
  <2>1. CASE (Goto(i, "run") \/ pc' = pc) /\ UNCHANGED local
    BY <1>1, <1>2, <1>11, <2>1 DEF RenewFirst, RenewWhileRunning, local
  <2> QED BY <1>4, <1>11, <2>1 DEF RenewFirst, RenewWhileRunning
<1>12. CASE Save(i) \/ SaveEmpty(i) \/ SaveNothing(i)
  <2>1. pc[i] = "save" /\ NextSave(i)
    BY <1>12 DEF Save, SaveEmpty, SaveNothing
  <2> QED BY <1>1, <1>2, <2>1 DEF NextSave
<1> QED BY <1>5, <1>6, <1>7, <1>8, <1>9, <1>10, <1>11, <1>12 DEF Step

(* Chains move when a runner saves and when it enters run(). *)
LEMMA WhenChainsMove ==
  ASSUME NEW i \in Instances, Step(i) \/ RenewWhileRunning(i) \/ Crash(i),
         ~Enter(i), ~Save(i), ~SaveEmpty(i)
  PROVE  chain' = chain /\ kept' = kept
<1>1. \A place : ReleaseThen(i, place) => chain' = chain /\ kept' = kept
  BY DEF ReleaseThen
<1> QED BY <1>1 DEF Step, Sweep, SkipSweep, ScanEmpty, Scan, Claimed, ClaimConflict,
             ClaimFails, Load, LoadFails, RenewFirst, RunSucceeds, RunFails, SaveNothing,
             SaveFails, Ack, AckFails, Release, RenewWhileRunning, Crash, local

(* Every step keeps the chains. *)
LEMMA ChainInvKept ==
  ASSUME RunnerInv, ChainInv, [Next]_vars
  PROVE  ChainInv'
<1>1. LedgerInv /\ LocalInv /\ HandInv /\ LocalType /\ LocalType'
      /\ DOMAIN db.claims \subseteq DOMAIN db'.claims
  BY RunnerInvKept DEF RunnerInv, LocalInv, Grows
<1>2. ASSUME NEW i \in Instances, Step(i) \/ RenewWhileRunning(i) \/ Crash(i)
      PROVE  ChainInv'
  <2> DEFINE key == <<claim[i], SaveStages[step[i]]>>
  <2>1. \/ DOMAIN db'.checkpoints = DOMAIN db.checkpoints
        \/ Save(i) /\ DOMAIN db'.checkpoints = DOMAIN db.checkpoints \cup {key}
    BY <1>1, <1>2, SavedKeys
  <2>2. CASE Enter(i)
    BY <1>1, <2>2, ChainForgets
  <2>3. CASE Claimed(i)
    <3>1. ~Save(i)
      BY <2>3 DEF Claimed, Proposing, Save
    <3> QED BY <1>1, <2>1, <2>3, <3>1, ChainFresh
  <2>4. CASE SaveFails(i)
    BY <1>1, <2>4, ChainOutlivesFailedSave
  <2>5. CASE Save(i)
    <3>1. key \in DOMAIN db'.checkpoints
      <4>1. SaveCommand(i).op = "Checkpoint" /\ SaveCommand(i).claim_id = claim[i]
            /\ SaveCommand(i).stage_idx = SaveStages[step[i]]
        BY DEF SaveCommand
      <4> QED BY <1>1, <2>5, <4>1, AnswerLands DEF Save, Answered, LedgerInv, DbInv
    <3>2. /\ pc[i] = "save" /\ NextSave(i) /\ late' = late
          /\ chain' = AtStage(chain, i, claim[i]) /\ kept' = AtStage(kept, i, claim[i])
      BY <2>5 DEF Save, Answered
    <3> HIDE DEF key
    <3>3. claim[i] = IF key \in DOMAIN db'.checkpoints THEN claim[i] ELSE NoClaim
      BY <3>1
    <3>4. /\ DOMAIN db'.checkpoints \in {DOMAIN db.checkpoints, DOMAIN db.checkpoints \cup {key}}
          /\ key = <<claim[i], SaveStages[step[i]]>>
      BY <2>1 DEF key
    <3> QED BY <1>1, <3>2, <3>3, <3>4, ChainMoves
  <2>6. CASE SaveEmpty(i)
    <3>1. /\ pc[i] = "save" /\ NextSave(i) /\ late' = late /\ db' = db
          /\ chain' = AtStage(chain, i, claim[i]) /\ kept' = AtStage(kept, i, NoClaim)
      BY <2>6 DEF SaveEmpty, ledger
    <3>2. key \notin DOMAIN db'.checkpoints
      <4>1. step[i] \in step[i]..Len(SaveStages)
        BY <1>1, RunnerAssumption DEF LocalType
      <4> QED BY <3>1, <4>1 DEF ChainInv, UnsavedYet
    <3> HIDE DEF key
    <3>3. NoClaim = IF key \in DOMAIN db'.checkpoints THEN claim[i] ELSE NoClaim
      BY <3>2
    <3>4. /\ DOMAIN db'.checkpoints \in {DOMAIN db.checkpoints, DOMAIN db.checkpoints \cup {key}}
          /\ key = <<claim[i], SaveStages[step[i]]>>
      BY <3>1 DEF key
    <3> QED BY <1>1, <3>1, <3>3, <3>4, ChainMoves
  <2>7. CASE ~(Enter(i) \/ Claimed(i) \/ SaveFails(i) \/ Save(i) \/ SaveEmpty(i))
    <3>1. chain' = chain /\ kept' = kept
      BY <1>2, <2>7, WhenChainsMove
    <3>2. \A l \in late' : l.op = "Checkpoint" => l \in late
      BY <1>2, <2>7, LateSaves
    <3>3. \A j \in Instances : StillUnsaved(j)
      BY <1>1, <1>2, <2>7, OnlyClaimedStarts
    <3> QED BY <1>1, <2>1, <2>7, <3>1, <3>2, <3>3, ChainQuiet
  <2> QED BY <2>2, <2>3, <2>4, <2>5, <2>6, <2>7
<1>3. ASSUME NEW cmd \in late, CommitLate(cmd)
      PROVE  ChainInv'
  BY <1>1, <1>3, ChainOutlivesLateSave
<1>4. ASSUME UNCHANGED <<db, late, pc, claim, step, chain, kept>>
      PROVE  ChainInv'
  <2>1. \A j \in Instances : StillUnsaved(j)
    BY <1>1, <1>4 DEF StillUnsaved, LocalType
  <2> QED BY <1>1, <1>4, <2>1, ChainQuiet
<1>5. ASSUME NEW i \in Followers, CatchUp(i)
      PROVE  ChainInv'
  BY <1>4, <1>5 DEF CatchUp, local
<1>6. CASE Tick \/ UNCHANGED vars
  BY <1>4, <1>6 DEF Tick, vars, ledger, local
<1> QED BY <1>2, <1>3, <1>5, <1>6 DEF Next

(* Before the first run() there is nothing a chain could lead to. *)
LEMMA ChainInvInit == Init => ChainInv
<1> SUFFICES ASSUME Init PROVE ChainInv
  OBVIOUS
<1>1. DOMAIN db.checkpoints = {} /\ late = {}
  <2>1. \A batches : RegisteredDb(batches).checkpoints = EmptyTable
    BY DEF RegisteredDb, EmptyDb
  <2> QED BY <2>1 DEF Init, EmptyTable
<1>2. NoChain \in [Chained -> MaybeClaim] /\ \A s \in Chained : NoChain[s] = NoClaim
  BY DEF NoChain, MaybeClaim
<1>3. /\ chain = [i \in Instances |-> NoChain] /\ kept = [i \in Instances |-> NoChain]
      /\ \A i \in Instances : pc[i] = "idle"
  BY DEF Init
<1>4. ChainType /\ ChainKnown /\ ChainLeads
  BY <1>1, <1>2, <1>3 DEF ChainType, ChainKnown, ChainLeads
<1> QED BY <1>1, <1>3, <1>4 DEF ChainInv, UnsavedYet, LateSavesUnchained

----------------------------------------------------------------------------
(* A runner that reads the leader's database has got back what it left. *)
HandedInv ==
  /\ DOMAIN prior = Instances
  /\ \A i \in Instances \ Followers : pc[i] \in {"renew", "run"} => prior[i] = kept[i]

(* What a runtime has been given stays what it was given. *)
StillGiven ==
  /\ DOMAIN prior' = DOMAIN prior
  /\ \A j \in Instances : pc'[j] \in {"renew", "run"} =>
       pc[j] \in {"renew", "run"} /\ prior'[j] = prior[j] /\ kept'[j] = kept[j]

(* Only a load gives a runtime its state. *)
LEMMA OnlyLoadGives ==
  ASSUME LocalInv, ChainType, DOMAIN prior = Instances, NEW i \in Instances,
         Step(i) \/ RenewWhileRunning(i) \/ Crash(i), ~Load(i)
  PROVE  StillGiven
<1>1. /\ pc \in [Instances -> Places] /\ after[i] \in {"idle", "loop"}
      /\ DOMAIN kept = Instances
  BY DEF LocalInv, LocalType, ChainType
<1> USE DEF StillGiven, Goto
<1>2. ASSUME NEW place \in {"idle", "loop"}, Leave(i, place), kept' = kept
      PROVE  StillGiven
  BY <1>1, <1>2 DEF Leave
<1>3. ASSUME NEW place, ReleaseThen(i, place)
      PROVE  StillGiven
  BY <1>1, <1>3 DEF ReleaseThen
<1>4. CASE Enter(i) \/ Sweep(i) \/ SkipSweep(i) \/ Scan(i) \/ Claimed(i)
  BY <1>1, <1>4 DEF Enter, Sweep, SkipSweep, Scan, Claimed, local
<1>5. CASE ScanEmpty(i) \/ ClaimFails(i) \/ Ack(i) \/ AckFails(i) \/ Crash(i)
  BY <1>2, <1>5 DEF ScanEmpty, ClaimFails, Ack, AckFails, Crash
<1>6. CASE Release(i)
  BY <1>1, <1>2, <1>6 DEF Release
<1>7. CASE ClaimConflict(i)
  <2>1. CASE Goto(i, "scan") /\ UNCHANGED <<after, claim, step, prior, timer>>
    BY <1>1, <1>7, <2>1 DEF ClaimConflict
  <2> QED BY <1>2, <1>7, <2>1 DEF ClaimConflict
<1>8. CASE RunSucceeds(i)
  BY <1>1, <1>8 DEF RunSucceeds, local
<1>9. CASE LoadFails(i) \/ RunFails(i) \/ SaveFails(i)
  BY <1>2, <1>3, <1>9 DEF LoadFails, RunFails, SaveFails
<1>10. CASE RenewFirst(i) \/ RenewWhileRunning(i)
  <2>1. CASE (Goto(i, "run") \/ pc' = pc) /\ UNCHANGED local
    BY <1>1, <1>10, <2>1 DEF RenewFirst, RenewWhileRunning, local
  <2> QED BY <1>3, <1>10, <2>1 DEF RenewFirst, RenewWhileRunning
<1>11. CASE Save(i) \/ SaveEmpty(i) \/ SaveNothing(i)
  <2>1. /\ pc[i] = "save" /\ NextSave(i)
        /\ \A j \in Instances : j # i => kept'[j] = kept[j]
    BY <1>1, <1>11 DEF Save, SaveEmpty, SaveNothing, AtStage
  <2> QED BY <1>1, <2>1 DEF NextSave
<1> QED BY <1>4, <1>5, <1>6, <1>7, <1>8, <1>9, <1>10, <1>11 DEF Step

(* On the leader a load finds what the chains lead to. *)
LEMMA LoadFindsKept ==
  ASSUME RunnerInv, ChainInv, NEW i \in Instances \ Followers
  PROVE  [s \in Chained |-> Loaded(i, s)] = kept[i]
<1>1. LocalDb(i) = db
  BY DEF LocalDb
<1>2. ASSUME NEW s \in Chained
      PROVE  Loaded(i, s) = kept[i][s]
  <2> DEFINE key == <<chain[i][s], s>>
  <2>1. Loaded(i, s) =
          IF key \in DOMAIN db.checkpoints THEN db.checkpoints[key].payload ELSE NoClaim
    BY <1>1 DEF Loaded
  <2>2. key[1] = chain[i][s]
    OBVIOUS
  <2>3. kept[i][s] = IF key \in DOMAIN db.checkpoints THEN chain[i][s] ELSE NoClaim
    BY DEF ChainInv, ChainLeads
  <2> HIDE DEF key
  <2>4. key \in DOMAIN db.checkpoints => db.checkpoints[key].payload = chain[i][s]
    BY <2>2 DEF RunnerInv, LedgerInv, DbInv
  <2> QED BY <2>1, <2>3, <2>4
<1>3. kept[i] \in [Chained -> MaybeClaim]
  BY DEF ChainInv, ChainType
<1> QED BY <1>2, <1>3

(* Every step keeps what the runtimes were given. *)
LEMMA HandedKept ==
  ASSUME RunnerInv, ChainInv, HandedInv, [Next]_vars
  PROVE  HandedInv'
<1>1. LocalInv /\ ChainType /\ DOMAIN prior = Instances
  BY DEF RunnerInv, ChainInv, HandedInv
<1>2. StillGiven => HandedInv'
  BY DEF StillGiven, HandedInv
<1>3. ASSUME NEW i \in Instances, Step(i) \/ RenewWhileRunning(i) \/ Crash(i)
      PROVE  HandedInv'
  <2>1. CASE ~Load(i)
    BY <1>1, <1>2, <1>3, <2>1, OnlyLoadGives
  <2>2. CASE Load(i)
    <3>1. /\ prior' = [prior EXCEPT ![i] = [s \in Chained |-> Loaded(i, s)]]
          /\ pc' = [pc EXCEPT ![i] = "renew"] /\ kept' = kept
      BY <2>2 DEF Load, Goto
    <3>2. i \notin Followers => prior'[i] = kept'[i]
      BY <1>1, <3>1, LoadFindsKept
    <3>3. \A j \in Instances : j # i => prior'[j] = prior[j] /\ pc'[j] = pc[j]
      BY <1>1, <3>1 DEF LocalInv, LocalType
    <3>4. DOMAIN prior' = Instances
      BY <1>1, <3>1
    <3> QED BY <3>1, <3>2, <3>3, <3>4 DEF HandedInv
  <2> QED BY <2>1, <2>2
<1>4. ASSUME UNCHANGED <<pc, prior, kept>>
      PROVE  HandedInv'
  BY <1>4 DEF HandedInv
<1>5. CASE \/ \E cmd \in late : CommitLate(cmd)
           \/ \E i \in Followers : CatchUp(i)
           \/ Tick \/ UNCHANGED vars
  BY <1>4, <1>5 DEF CommitLate, CatchUp, Tick, vars, local
<1> QED BY <1>3, <1>5 DEF Next

(* Whoever reads the leader's database gets it right. *)
LEMMA HandedHolds == Spec => []HandedInv
<1>1. Init => HandedInv
  BY DEF Init, HandedInv
<1>2. RunnerInv /\ ChainInv /\ HandedInv /\ [Next]_vars => (RunnerInv /\ ChainInv /\ HandedInv)'
  BY RunnerInvKept, ChainInvKept, HandedKept
<1> QED BY <1>1, <1>2, RunnerInvInit, ChainInvInit, PTL DEF Spec

(* A runner on the leader hands its runtime exactly the state that runtime *)
(* last left to keep in this run(), across failed saves, saves that commit *)
(* late, empty blobs, lost leases and any number of other runners, on      *)
(* whichever nodes.                                                        *)
THEOREM LeaderHandsBackState == Spec => []StateHandedBack
<1>1. HandedInv => StateHandedBack
  BY DEF HandedInv, StateHandedBack
<1> QED BY <1>1, HandedHolds, PTL
=============================================================================
