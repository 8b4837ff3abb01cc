--------------------------- MODULE ReplicatedApply --------------------------
(***************************************************************************)
(* The replicas of the consensus state machine: how a node stores, applies *)
(* and purges committed log entries, how it recovers from a crash, and how *)
(* a snapshot replaces a log that is gone (consensus/storage,              *)
(* consensus/snapshot.rs, the start of consensus/driver.rs).               *)
(*                                                                         *)
(* Raft itself is openraft's and external: log is the sequence of          *)
(* committed entries, the same for everybody, and a node holds a prefix of *)
(* it less what it purged.  openraft serialises the calls on a state       *)
(* machine: a snapshot is dated, sent or installed between two calls of    *)
(* apply.  Blank and membership entries are left out.                      *)
(***************************************************************************)
EXTENDS ArrowStateMachine

CONSTANTS
  Replicas,
  Commands,      \* the proposals that may be committed, each at most once
  MaxLog,        \* bound on the log
  MaxCrashes     \* bound on crashes

ASSUME ReplicationAssumption ==
  /\ IsFiniteSet(Replicas)
  /\ MaxLog \in Nat
  /\ MaxCrashes \in Nat
  /\ Commands \subseteq ConsensusCommand

(* A claim id is minted for one proposal (claim_next_batch), so it never   *)
(* stands for two batches.                                                 *)
ASSUME MintedOnce ==
  \A x, y \in Commands :
    /\ x.op = "ClaimRowRange" /\ y.op = "ClaimRowRange"
    /\ x.claim_id = y.claim_id
    => x.batch_id = y.batch_id

VARIABLES
  log,         \* the committed entries
  stored,      \* per replica: index of the last entry in its log store
  purged,      \* per replica: index of the last purged entry
  db,          \* per replica: the application tables
  applied,     \* per replica: last_applied in memory
  watermark,   \* per replica: last_applied in arrow_sm_meta
  reached,     \* per replica: the last entry its tables have seen (history)
  replayed,    \* whether some entry had to be applied again (history)
  snapshot,    \* per replica: index openraft knows a snapshot for
  up,          \* per replica: whether it runs
  transfer,    \* the snapshot under way
  crashes

vars == <<log, stored, purged, db, applied, watermark, reached, replayed, snapshot, up, transfer, crashes>>

NoTransfer == [meta |-> 0]

Init ==
  /\ log = <<>>
  /\ stored = [r \in Replicas |-> 0]
  /\ purged = [r \in Replicas |-> 0]
  /\ db = [r \in Replicas |-> EmptyDb]
  /\ applied = [r \in Replicas |-> 0]
  /\ watermark = [r \in Replicas |-> 0]
  /\ reached = [r \in Replicas |-> 0]
  /\ replayed = FALSE
  /\ snapshot = [r \in Replicas |-> 0]
  /\ up = [r \in Replicas |-> TRUE]
  /\ transfer = NoTransfer
  /\ crashes = 0

(* Between two calls of apply the watermark is on disk. *)
Settled(r) == up[r] /\ applied[r] = watermark[r]

----------------------------------------------------------------------------
(* The log store *)

(* A runner claims rows of a batch it has seen registered, and acks or     *)
(* releases a claim it has proposed; proposals may be long under way.      *)
Proposable(cmd) ==
  /\ cmd.op = "ClaimRowRange" =>
       \E entry \in ToSet(log) : /\ entry.op = "RegisterMasterBatch"
                                 /\ entry.batch_id = cmd.batch_id
  /\ cmd.op \in {"AckClaim", "ReleaseClaim"} =>
       \E entry \in ToSet(log) : /\ entry.op = "ClaimRowRange"
                                 /\ entry.claim_id = cmd.claim_id

Commit(r, cmd) ==
  /\ up[r] /\ stored[r] = Len(log) /\ Len(log) < MaxLog
  /\ cmd \notin ToSet(log) /\ Proposable(cmd)
  /\ log' = Append(log, cmd)
  /\ stored' = [stored EXCEPT ![r] = @ + 1]
  /\ UNCHANGED <<purged, db, applied, watermark, snapshot, up, transfer, crashes, reached, replayed>>

(* append, from a node that still has the next entry. *)
Replicate(r) ==
  /\ up[r]
  /\ \E s \in Replicas : up[s] /\ purged[s] <= stored[r] /\ stored[r] < stored[s]
  /\ stored' = [stored EXCEPT ![r] = @ + 1]
  /\ UNCHANGED <<log, purged, db, applied, watermark, snapshot, up, transfer, crashes, reached, replayed>>

(* openraft purges what a snapshot covers. *)
Purge(r, index) ==
  /\ up[r]
  /\ purged[r] < index /\ index <= snapshot[r]
  /\ purged' = [purged EXCEPT ![r] = index]
  /\ UNCHANGED <<log, stored, db, applied, watermark, snapshot, up, transfer, crashes, reached, replayed>>

----------------------------------------------------------------------------
(* apply: every entry commits its own transaction, and the client is       *)
(* answered; the watermark follows once, at the end of the batch.          *)

ApplyEntry(r) ==
  /\ up[r] /\ applied[r] < stored[r]
  /\ applied[r] >= purged[r]
  /\ db' = [db EXCEPT ![r] = Apply(@, log[applied[r] + 1]).db]
  /\ applied' = [applied EXCEPT ![r] = @ + 1]
  /\ reached' = [reached EXCEPT ![r] = Max({@, applied[r] + 1})]
  /\ UNCHANGED <<log, stored, purged, watermark, snapshot, up, transfer, crashes, replayed>>

PersistWatermark(r) ==
  /\ up[r] /\ watermark[r] < applied[r]
  /\ watermark' = [watermark EXCEPT ![r] = applied[r]]
  /\ UNCHANGED <<log, stored, purged, db, applied, snapshot, up, transfer, crashes, reached, replayed>>

----------------------------------------------------------------------------
(* Snapshots *)

(* Faulty variant: built in the middle of an apply batch. *)
BuildUnsettled(r) ==
  /\ up[r] /\ snapshot[r] < applied[r]
  /\ snapshot' = [snapshot EXCEPT ![r] = applied[r]]
  /\ UNCHANGED <<log, stored, purged, db, applied, watermark, up, transfer, crashes, reached, replayed>>

(* The builder takes last_applied with it and may finish later; its bytes  *)
(* are dropped, because get_current_snapshot dumps the tables anew.        *)
BuildSnapshot(r) ==
  /\ Settled(r) /\ snapshot[r] < applied[r]
  /\ snapshot' = [snapshot EXCEPT ![r] = applied[r]]
  /\ UNCHANGED <<log, stored, purged, db, applied, watermark, up, transfer, crashes, reached, replayed>>

(* r lacks entries that s has purged. *)
GetCurrentSnapshot(s, r) ==
  /\ Settled(s) /\ applied[s] > 0
  /\ stored[r] < purged[s]
  /\ transfer = NoTransfer
  /\ transfer' = [meta |-> applied[s], to |-> r, dump |-> DumpState(db[s])]
  /\ UNCHANGED <<log, stored, purged, db, applied, watermark, snapshot, up, crashes, reached, replayed>>

(* Faulty variant: the data is installed, last_applied in memory is not.   *)
InstallForgetsApplied(r) ==
  /\ Settled(r)
  /\ transfer # NoTransfer /\ transfer.to = r /\ transfer.meta > applied[r]
  /\ db' = [db EXCEPT ![r] = RestoreState(transfer.dump)]
  /\ watermark' = [watermark EXCEPT ![r] = transfer.meta]
  /\ reached' = [reached EXCEPT ![r] = transfer.meta]
  /\ snapshot' = [snapshot EXCEPT ![r] = transfer.meta]
  /\ stored' = [stored EXCEPT ![r] = Max({@, transfer.meta})]
  /\ purged' = [purged EXCEPT ![r] = IF stored[r] < transfer.meta THEN transfer.meta ELSE @]
  /\ transfer' = NoTransfer
  /\ UNCHANGED <<log, applied, up, crashes, replayed>>

(* Tables and watermark change in one transaction.  A log that ends before *)
(* the snapshot restarts behind it.                                        *)
InstallSnapshot(r) ==
  /\ Settled(r)
  /\ transfer # NoTransfer /\ transfer.to = r /\ transfer.meta > applied[r]
  /\ db' = [db EXCEPT ![r] = RestoreState(transfer.dump)]
  /\ applied' = [applied EXCEPT ![r] = transfer.meta]
  /\ watermark' = [watermark EXCEPT ![r] = transfer.meta]
  /\ reached' = [reached EXCEPT ![r] = transfer.meta]
  /\ snapshot' = [snapshot EXCEPT ![r] = transfer.meta]
  /\ stored' = [stored EXCEPT ![r] = Max({@, transfer.meta})]
  /\ purged' = [purged EXCEPT ![r] = IF stored[r] < transfer.meta THEN transfer.meta ELSE @]
  /\ transfer' = NoTransfer
  /\ UNCHANGED <<log, up, crashes, replayed>>

(* The transfer breaks off. *)
LoseTransfer ==
  /\ transfer # NoTransfer
  /\ crashes < MaxCrashes /\ crashes' = crashes + 1
  /\ transfer' = NoTransfer
  /\ UNCHANGED <<log, stored, purged, db, applied, watermark, snapshot, up, reached, replayed>>

----------------------------------------------------------------------------
(* The node dies and starts again: last_applied is what arrow_sm_meta      *)
(* holds, and the driver refuses to start if the log was purged beyond it. *)
(* On start openraft asks for the current snapshot, dated last_applied.    *)
Restart(r) ==
  /\ up[r] /\ crashes < MaxCrashes
  /\ crashes' = crashes + 1
  /\ applied' = [applied EXCEPT ![r] = watermark[r]]
  /\ replayed' = (replayed \/ watermark[r] < reached[r])
  /\ snapshot' = [snapshot EXCEPT ![r] = watermark[r]]
  /\ up' = [up EXCEPT ![r] = purged[r] <= watermark[r]]
  /\ transfer' = IF transfer # NoTransfer /\ transfer.to = r THEN NoTransfer ELSE transfer
  /\ UNCHANGED <<log, stored, purged, db, watermark, reached>>

Work(r) == Replicate(r) \/ ApplyEntry(r) \/ PersistWatermark(r) \/ InstallSnapshot(r)

Next ==
  \/ \E r \in Replicas, cmd \in Commands : Commit(r, cmd)
  \/ \E r \in Replicas : Work(r) \/ BuildSnapshot(r) \/ Restart(r)
  \/ \E r \in Replicas, index \in 1..MaxLog : Purge(r, index)
  \/ \E s, r \in Replicas : GetCurrentSnapshot(s, r)
  \/ LoseTransfer

Spec == Init /\ [][Next]_vars

(* openraft keeps replicating to a member that lags and its state machine  *)
(* worker keeps applying; nobody owes a proposal, a purge or a crash.      *)
Fairness ==
  /\ \A r \in Replicas : WF_vars(Work(r))
  /\ \A r \in Replicas : WF_vars(\E s \in Replicas : GetCurrentSnapshot(s, r))

FairSpec == Spec /\ Fairness
----------------------------------------------------------------------------
(* The indexes of a node stay ordered, which is what the start-up check    *)
(* relies on: wherever it dies, a node finds the log from its watermark    *)
(* on, and starts again.                                                   *)
AlwaysRestartable ==
  \A r \in Replicas :
    /\ up[r]
    /\ purged[r] <= watermark[r]
    /\ watermark[r] <= applied[r]
    /\ applied[r] <= stored[r]
    /\ stored[r] <= Len(log)

(* Replicas that have applied the same entries hold the same batches,      *)
(* claims, checkpoints and instances, whether they applied the log or were *)
(* brought up by a snapshot, and whoever crashed, as long as no crash fell *)
(* between applying an entry and the watermark (state_machine/mod.rs: two  *)
(* replicas applying the same committed log entry produce byte-identical   *)
(* database state).                                                        *)
ReplicasAgree ==
  \A r, s \in Replicas :
    ~replayed /\ applied[r] = applied[s] => DumpState(db[r]) = DumpState(db[s])

Holders(d) == {c \in DOMAIN d.claims : d.claims[c].status \in Occupying}

(* The same across crashes, and of ownership only: a claim that is held or *)
(* completed on one replica is so on every replica that has applied as     *)
(* much of the log and has finished its replay (the comment in apply: a    *)
(* crash before the watermark is safe, entries are applied again).         *)
ReplaysAgreeOnOwners ==
  \A r, s \in Replicas :
    /\ applied[r] = applied[s]
    /\ reached[r] = applied[r] /\ reached[s] = applied[s]
    => Holders(db[r]) = Holders(db[s])

(* Every replica ends up with the whole log applied and recorded, also one *)
(* whose missing entries nobody has any more.                              *)
EveryoneCatchesUp ==
  <>[](\A r \in Replicas : watermark[r] = Len(log))
=============================================================================
