----------------------- MODULE ReplicatedApplyProofs -----------------------
(***************************************************************************)
(* A node can always start again, for any number of replicas, entries and  *)
(* crashes.  AlwaysRestartable alone is not inductive: a purge goes up to  *)
(* the snapshot openraft knows, so the snapshot must be known to lie below *)
(* the watermark on disk, not merely below what is applied in memory; and  *)
(* a snapshot under way must be one of committed entries.                  *)
(***************************************************************************)
EXTENDS ReplicatedApply, ArrowStateMachineProofs, PendingScanProofs

IndexType ==
  /\ log \in Seq(Commands)
  /\ stored \in [Replicas -> Nat]
  /\ purged \in [Replicas -> Nat]
  /\ applied \in [Replicas -> Nat]
  /\ watermark \in [Replicas -> Nat]
  /\ snapshot \in [Replicas -> Nat]
  /\ up \in [Replicas -> BOOLEAN]

SnapshotsCovered == \A r \in Replicas : snapshot[r] <= watermark[r]

TransferCommitted ==
  transfer # NoTransfer =>
    transfer.meta \in Nat /\ transfer.meta <= Len(log) /\ transfer.to \in Replicas

RestartInv == IndexType /\ AlwaysRestartable /\ SnapshotsCovered /\ TransferCommitted

(* The log store: an entry is appended, copied or purged (append, purge).  *)
LEMMA LogStepsKeep ==
  ASSUME RestartInv, NEW r \in Replicas,
         \/ \E cmd \in Commands : Commit(r, cmd)
         \/ Replicate(r)
         \/ \E index \in 1..MaxLog : Purge(r, index)
  PROVE  RestartInv'
<1> USE DEF RestartInv, IndexType, AlwaysRestartable, SnapshotsCovered, TransferCommitted
<1>1. CASE \E cmd \in Commands : Commit(r, cmd)
  <2>1. PICK cmd \in Commands : Commit(r, cmd)
    BY <1>1
  <2>2. log' \in Seq(Commands) /\ Len(log') = Len(log) + 1
    BY <2>1 DEF Commit
  <2> QED BY <2>1, <2>2 DEF Commit
<1>2. CASE Replicate(r)
  <2>1. PICK s \in Replicas : stored[r] < stored[s]
    BY <1>2 DEF Replicate
  <2>2. stored[r] + 1 \in Nat /\ stored[r] + 1 <= Len(log) /\ applied[r] <= stored[r] + 1
    BY <2>1
  <2>3. stored' = [stored EXCEPT ![r] = stored[r] + 1]
    BY <1>2 DEF Replicate
  <2>4. UNCHANGED <<log, purged, applied, watermark, snapshot, up, transfer>>
    BY <1>2 DEF Replicate
  <2> QED BY <2>2, <2>3, <2>4
<1>3. CASE \E index \in 1..MaxLog : Purge(r, index)
  BY <1>3, ReplicationAssumption DEF Purge
<1> QED BY <1>1, <1>2, <1>3

(* apply moves the position in memory up to the log's end, and the         *)
(* watermark up to that position.                                          *)
LEMMA ApplyStepsKeep ==
  ASSUME RestartInv, NEW r \in Replicas, ApplyEntry(r) \/ PersistWatermark(r)
  PROVE  RestartInv'
<1> USE DEF RestartInv, IndexType, AlwaysRestartable, SnapshotsCovered, TransferCommitted
<1>1. CASE ApplyEntry(r)
  BY <1>1 DEF ApplyEntry
<1>2. CASE PersistWatermark(r)
  BY <1>2 DEF PersistWatermark
<1> QED BY <1>1, <1>2

(* Snapshots are dated, sent and installed only where the watermark is on  *)
(* disk (build_snapshot, get_current_snapshot, install_snapshot).          *)
LEMMA SnapshotStepsKeep ==
  ASSUME RestartInv, NEW r \in Replicas,
         BuildSnapshot(r) \/ InstallSnapshot(r) \/ \E s \in Replicas : GetCurrentSnapshot(s, r)
  PROVE  RestartInv'
<1> USE DEF RestartInv, IndexType, AlwaysRestartable, SnapshotsCovered, TransferCommitted, Settled
<1>1. CASE BuildSnapshot(r)
  BY <1>1 DEF BuildSnapshot
<1>2. CASE InstallSnapshot(r)
  <2> DEFINE meta == transfer.meta
             last == Max({stored[r], meta})
             cut  == IF stored[r] < meta THEN meta ELSE purged[r]
  <2>1. meta \in Nat /\ meta <= Len(log) /\ applied[r] < meta
    BY <1>2 DEF InstallSnapshot
  <2>2. stored[r] \in Nat /\ stored[r] <= Len(log) /\ purged[r] \in Nat
        /\ purged[r] <= applied[r] /\ applied[r] \in Nat
    OBVIOUS
  <2>3. last \in Nat /\ last = IF stored[r] < meta THEN meta ELSE stored[r]
    BY <2>1, <2>2, LargerOfTwo
  <2>4. last >= meta /\ last <= Len(log) /\ cut \in Nat /\ cut <= meta
    BY <2>1, <2>2, <2>3
  <2>5. /\ applied' = [applied EXCEPT ![r] = meta]
        /\ watermark' = [watermark EXCEPT ![r] = meta]
        /\ snapshot' = [snapshot EXCEPT ![r] = meta]
        /\ stored' = [stored EXCEPT ![r] = last]
        /\ purged' = [purged EXCEPT ![r] = cut]
        /\ transfer' = NoTransfer
        /\ UNCHANGED <<log, up>>
    BY <1>2 DEF InstallSnapshot
  <2>6. meta <= last /\ cut <= meta /\ last <= Len(log)
    BY <2>3, <2>4, <2>1
  <2> HIDE DEF meta, last, cut
  <2>7. IndexType'
    BY <2>1, <2>3, <2>4, <2>5
  <2>8. AlwaysRestartable'
    BY <2>1, <2>3, <2>4, <2>5, <2>6
  <2>9. SnapshotsCovered' /\ TransferCommitted'
    BY <2>1, <2>5
  <2> QED BY <2>7, <2>8, <2>9
<1>3. CASE \E s \in Replicas : GetCurrentSnapshot(s, r)
  <2>1. PICK s \in Replicas : GetCurrentSnapshot(s, r)
    BY <1>3
  <2>2. transfer'.meta = applied[s] /\ transfer'.to = r
    BY <2>1 DEF GetCurrentSnapshot
  <2> QED BY <2>1, <2>2 DEF GetCurrentSnapshot
<1> QED BY <1>1, <1>2, <1>3

(* A crash anywhere, or a transfer that breaks off: the node comes back at *)
(* its watermark, and the start-up check of the driver lets it.            *)
LEMMA FaultsKeep ==
  ASSUME RestartInv, LoseTransfer \/ \E r \in Replicas : Restart(r)
  PROVE  RestartInv'
<1> USE DEF RestartInv, IndexType, AlwaysRestartable, SnapshotsCovered, TransferCommitted
<1>1. CASE LoseTransfer
  BY <1>1 DEF LoseTransfer
<1>2. CASE \E r \in Replicas : Restart(r)
  BY <1>2 DEF Restart
<1> QED BY <1>1, <1>2

LEMMA RestartInit == Init => RestartInv
BY DEF Init, RestartInv, IndexType, AlwaysRestartable, SnapshotsCovered, TransferCommitted

LEMMA RestartStep == RestartInv /\ [Next]_vars => RestartInv'
<1> SUFFICES ASSUME RestartInv, [Next]_vars PROVE RestartInv'
  OBVIOUS
<1>1. CASE UNCHANGED vars
  BY <1>1 DEF vars, RestartInv, IndexType, AlwaysRestartable, SnapshotsCovered,
              TransferCommitted
<1>2. CASE Next
  BY <1>2, LogStepsKeep, ApplyStepsKeep, SnapshotStepsKeep, FaultsKeep DEF Next, Work
<1> QED BY <1>1, <1>2

(* Wherever a node dies, in an apply batch, between two snapshots or with  *)
(* a transfer half done, it finds the log from its watermark on and starts *)
(* again, for every number of replicas, entries and crashes.               *)
THEOREM NodesRestart == Spec => []AlwaysRestartable
<1>1. RestartInv => AlwaysRestartable
  BY DEF RestartInv
<1> QED BY <1>1, RestartInit, RestartStep, PTL DEF Spec

----------------------------------------------------------------------------
(* Replicas agree *)

(* Every claim comes from a proposal. *)
FromCommands(d) ==
  \A c \in DOMAIN d.claims :
    \E cmd \in Commands : /\ cmd.op = "ClaimRowRange" /\ cmd.claim_id = c
                          /\ cmd.batch_id = d.claims[c].batch_id

Sound(d) == DbType(d) /\ Mirror(d) /\ Exclusive(d) /\ FromCommands(d)

LEMMA ApplySound ==
  ASSUME NEW d, Sound(d), NEW cmd \in Commands
  PROVE  Sound(Apply(d, cmd).db)
<1>1. cmd \in ConsensusCommand
  BY ReplicationAssumption
<1>2. DbType(Apply(d, cmd).db)
  BY <1>1, ApplyType DEF Sound
<1>3. CASE cmd.op # "ClaimRowRange"
  <2>1. Shrinks(d, Apply(d, cmd).db)
    BY <1>1, <1>3, ApplyShrinks DEF Sound
  <2>2. Mirror(Apply(d, cmd).db) /\ Exclusive(Apply(d, cmd).db)
    BY <2>1, ShrinksExclusive DEF Sound, Shrinks
  <2>3. FromCommands(Apply(d, cmd).db)
    BY <2>1 DEF Sound, FromCommands, Shrinks, NoNewHolder
  <2> QED BY <1>2, <2>2, <2>3 DEF Sound
<1>4. CASE cmd.op = "ClaimRowRange"
  <2> DEFINE e == ApplyClaimRowRange(d, cmd).db
  <2>1. Apply(d, cmd).db = e
    BY <1>4 DEF Apply
  <2>2. cmd.row_range_start \in Nat /\ cmd.row_range_end \in Nat
    BY <1>1, <1>4 DEF ConsensusCommand
  <2>3. cmd.claim_id \in DOMAIN d.claims => d.claims[cmd.claim_id].batch_id = cmd.batch_id
    BY <1>4, MintedOnce DEF Sound, FromCommands
  <2>4. Mirror(e) /\ Exclusive(e)
    BY <2>2, <2>3, GrantKeeps DEF Sound
  <2>5. FromCommands(e)
    <3>1. CASE e = d
      BY <3>1 DEF Sound
    <3>2. CASE e # d
      <4>1. e.claims = Put(d.claims, cmd.claim_id, Granted(cmd))
        BY <3>2 DEF ApplyClaimRowRange, Reply, Sound, DbType, Tables, Granted
      <4>2. Granted(cmd).batch_id = cmd.batch_id
        BY DEF Granted
      <4> HIDE DEF e
      <4>3. ASSUME NEW c \in DOMAIN e.claims
            PROVE  \E x \in Commands : /\ x.op = "ClaimRowRange" /\ x.claim_id = c
                                       /\ x.batch_id = e.claims[c].batch_id
        <5>1. CASE c = cmd.claim_id
          BY <5>1, <4>1, <4>2, <1>4 DEF Put
        <5>2. CASE c # cmd.claim_id
          <6>1. c \in DOMAIN d.claims /\ e.claims[c] = d.claims[c]
            BY <5>2, <4>1 DEF Put
          <6> QED BY <6>1 DEF Sound, FromCommands
        <5> QED BY <5>1, <5>2
      <4> QED BY <4>3 DEF FromCommands
    <3> QED BY <3>1, <3>2
  <2> QED BY <1>2, <2>1, <2>4, <2>5 DEF Sound
<1> QED BY <1>3, <1>4

(* A snapshot is as sound as the database it was taken from. *)
LEMMA RestoreSound ==
  ASSUME NEW d, Sound(d)
  PROVE  Sound(RestoreState(DumpState(d))) /\ SameTables(RestoreState(DumpState(d)), d)
<1> DEFINE e == RestoreState(DumpState(d))
<1>1. DbType(e) /\ Shrinks(d, e)
  BY RestoreType, RestoreShrinks DEF Sound
<1>2. SameTables(e, d)
  BY DEF RestoreState, DumpState, SameTables
<1> HIDE DEF e
<1>3. Mirror(e) /\ Exclusive(e)
  BY <1>1, ShrinksExclusive DEF Sound, Shrinks
<1>4. FromCommands(e)
  BY <1>2 DEF Sound, FromCommands, SameTables
<1>5. Sound(e) /\ SameTables(e, d)
  BY <1>1, <1>2, <1>3, <1>4 DEF Sound
<1> QED BY <1>5 DEF e

(* h is the history of a state machine that applied the log and nothing    *)
(* else; every replica is somewhere on it.                                 *)
OnHistory(h) ==
  /\ \A n \in 0 .. Len(log) : Sound(h[n])
  /\ \A n \in 0 .. Len(log) - 1 : h[n + 1] = Apply(h[n], log[n + 1]).db
  /\ \A r \in Replicas : /\ Sound(db[r]) /\ SameTables(db[r], h[applied[r]])
                         /\ reached[r] = applied[r]
  /\ transfer # NoTransfer => transfer.dump = DumpState(h[transfer.meta])

AgreeInv ==
  /\ RestartInv
  /\ DOMAIN db = Replicas /\ reached \in [Replicas -> Nat]
  /\ ~replayed => \E h : OnHistory(h)

LEMMA AgreeInit == Init => AgreeInv
<1> SUFFICES ASSUME Init PROVE AgreeInv
  OBVIOUS
<1>1. RestartInv
  BY RestartInit
<1> DEFINE h == [n \in {0} |-> EmptyDb]
<1>2. Sound(EmptyDb)
  <2>1. DbType(EmptyDb)
    BY DEF DbType, EmptyDb, EmptyTable, IsPartialFn, Tables
  <2>2. Mirror(EmptyDb) /\ Exclusive(EmptyDb) /\ FromCommands(EmptyDb)
    BY DEF Mirror, Exclusive, FromCommands, EmptyDb, EmptyTable
  <2> QED BY <2>1, <2>2 DEF Sound
<1>3. OnHistory(h)
  BY <1>2 DEF Init, OnHistory, SameTables
<1> QED BY <1>1, <1>3 DEF Init, AgreeInv

(* Indexes that the history is read at. *)
LEMMA IndexesInLog ==
  ASSUME RestartInv
  PROVE  /\ Len(log) \in Nat /\ log \in Seq(Commands)
         /\ \A r \in Replicas : applied[r] \in 0 .. Len(log)
         /\ transfer # NoTransfer => transfer.meta \in 0 .. Len(log)
BY DEF RestartInv, IndexType, AlwaysRestartable, TransferCommitted

(* A step that changes neither log nor tables, and starts no transfer. *)
LEMMA QuietStep ==
  ASSUME NEW h, OnHistory(h), UNCHANGED <<log, db, applied, reached>>,
         transfer' \in {transfer, NoTransfer}
  PROVE  OnHistory(h)'
BY DEF OnHistory

(* The history grows with the log. *)
LEMMA CommitOnHistory ==
  ASSUME RestartInv, NEW h, OnHistory(h), NEW r \in Replicas, NEW cmd \in Commands,
         Commit(r, cmd)
  PROVE  \E g : OnHistory(g)'
<1>1. /\ log' = Append(log, cmd)
      /\ UNCHANGED <<db, applied, transfer, reached>>
  BY DEF Commit
<1>2. /\ Len(log) \in Nat /\ log \in Seq(Commands)
      /\ \A x \in Replicas : applied[x] \in 0 .. Len(log)
      /\ transfer # NoTransfer => transfer.meta \in 0 .. Len(log)
  BY IndexesInLog
<1>3. /\ Len(log') = Len(log) + 1
      /\ \A n \in 1 .. Len(log) : log'[n] = log[n]
      /\ log'[Len(log) + 1] = cmd
  BY <1>1, <1>2
<1>4. PICK L : L = Len(log)
  OBVIOUS
<1>5. PICK g : g = [n \in 0 .. L + 1 |-> IF n = L + 1 THEN Apply(h[L], cmd).db ELSE h[n]]
  OBVIOUS
<1>6. g[L + 1] = Apply(h[L], cmd).db /\ \A n \in 0 .. L : g[n] = h[n]
  BY <1>2, <1>4, <1>5
<1>7. Sound(h[L])
  BY <1>2, <1>4 DEF OnHistory
<1>8. \A n \in 0 .. Len(log') : Sound(g[n])
  <2>1. Sound(g[L + 1])
    BY <1>6, <1>7, ApplySound
  <2>2. \A n \in 0 .. L : Sound(g[n])
    BY <1>4, <1>6 DEF OnHistory
  <2>3. \A n \in 0 .. Len(log') : n \in 0 .. L \/ n = L + 1
    BY <1>2, <1>3, <1>4
  <2> QED BY <2>1, <2>2, <2>3
<1>9. ASSUME NEW n \in 0 .. Len(log') - 1
      PROVE  g[n + 1] = Apply(g[n], log'[n + 1]).db
  <2>1. CASE n = L
    <3>1. g[n] = h[n] /\ log'[n + 1] = cmd
      BY <2>1, <1>2, <1>3, <1>4, <1>6
    <3> QED BY <2>1, <3>1, <1>6
  <2>2. CASE n # L
    <3>1. n \in 0 .. L - 1
      BY <2>2, <1>2, <1>3, <1>4
    <3>2. n + 1 \in 0 .. L /\ n \in 0 .. L /\ n + 1 \in 1 .. L
      BY <3>1, <1>2, <1>4
    <3>3. h[n + 1] = Apply(h[n], log[n + 1]).db
      BY <3>1, <1>4 DEF OnHistory
    <3>4. g[n + 1] = h[n + 1] /\ g[n] = h[n] /\ log'[n + 1] = log[n + 1]
      BY <3>2, <1>3, <1>4, <1>6
    <3> QED BY <3>3, <3>4
  <2> QED BY <2>1, <2>2
<1>10. \A x \in Replicas : g[applied[x]] = h[applied[x]]
  BY <1>2, <1>4, <1>6
<1>11. transfer # NoTransfer => g[transfer.meta] = h[transfer.meta]
  BY <1>2, <1>4, <1>6
<1>12. OnHistory(g)'
  BY <1>1, <1>8, <1>9, <1>10, <1>11 DEF OnHistory
<1> QED BY <1>12

(* A replica that applies its next entry moves one step along. *)
LEMMA ApplyOnHistory ==
  ASSUME AgreeInv, NEW h, OnHistory(h), NEW r \in Replicas, ApplyEntry(r)
  PROVE  OnHistory(h)'
<1>1. PICK n : n = applied[r]
  OBVIOUS
<1>2. /\ db' = [db EXCEPT ![r] = Apply(@, log[n + 1]).db]
      /\ applied' = [applied EXCEPT ![r] = n + 1]
      /\ reached' = [reached EXCEPT ![r] = Max({@, n + 1})]
      /\ UNCHANGED <<log, transfer>> /\ n < stored[r]
  BY <1>1 DEF ApplyEntry
<1>3. /\ n \in 0 .. Len(log) - 1 /\ n \in 0 .. Len(log) /\ n + 1 \in 1 .. Len(log)
      /\ n + 1 \in 0 .. Len(log)
  BY <1>1, <1>2 DEF AgreeInv, RestartInv, IndexType, AlwaysRestartable
<1>4. log[n + 1] \in Commands /\ log[n + 1] \in ConsensusCommand
  BY <1>3, IndexesInLog, ReplicationAssumption DEF AgreeInv
<1>5. Sound(db[r]) /\ Sound(h[n]) /\ SameTables(db[r], h[n])
  BY <1>1, <1>3 DEF OnHistory
<1>6. Sound(Apply(db[r], log[n + 1]).db)
  BY <1>4, <1>5, ApplySound
<1>7. SameTables(Apply(db[r], log[n + 1]).db, h[n + 1])
  <2>1. h[n + 1] = Apply(h[n], log[n + 1]).db
    BY <1>3 DEF OnHistory
  <2> QED BY <2>1, <1>4, <1>5, ApplySameTables DEF Sound
<1>8. /\ db'[r] = Apply(db[r], log[n + 1]).db
      /\ applied'[r] = n + 1
      /\ \A x \in Replicas : x # r => db'[x] = db[x] /\ applied'[x] = applied[x]
                                      /\ reached'[x] = reached[x]
  BY <1>2 DEF AgreeInv, RestartInv, IndexType
<1>9. reached'[r] = n + 1
  <2>1. reached[r] = n /\ n \in Nat
    BY <1>1, <1>3 DEF OnHistory
  <2>2. Max({n, n + 1}) = n + 1
    BY <2>1, LargerOfTwo
  <2> QED BY <2>1, <2>2, <1>2 DEF AgreeInv
<1>10. ASSUME NEW x \in Replicas
       PROVE  Sound(db'[x]) /\ SameTables(db'[x], h[applied'[x]]) /\ reached'[x] = applied'[x]
  <2>1. CASE x = r
    BY <2>1, <1>6, <1>7, <1>8, <1>9
  <2>2. CASE x # r
    BY <2>2, <1>8 DEF OnHistory
  <2> QED BY <2>1, <2>2
<1> QED BY <1>2, <1>10 DEF OnHistory

(* A snapshot is dated with the point of the history it was taken at. *)
LEMMA SendOnHistory ==
  ASSUME AgreeInv, NEW h, OnHistory(h), NEW s \in Replicas, NEW r \in Replicas,
         GetCurrentSnapshot(s, r)
  PROVE  OnHistory(h)'
<1>1. /\ transfer' = [meta |-> applied[s], to |-> r, dump |-> DumpState(db[s])]
      /\ UNCHANGED <<log, db, applied, reached>>
  BY DEF GetCurrentSnapshot
<1>2. transfer'.dump = DumpState(h[transfer'.meta])
  <2>1. SameTables(db[s], h[applied[s]])
    BY DEF OnHistory
  <2> QED BY <1>1, <2>1, SameDump
<1> QED BY <1>1, <1>2 DEF OnHistory

(* A node that installs a snapshot jumps to that point. *)
LEMMA InstallOnHistory ==
  ASSUME AgreeInv, NEW h, OnHistory(h), NEW r \in Replicas, InstallSnapshot(r)
  PROVE  OnHistory(h)'
<1>1. PICK m : m = transfer.meta
  OBVIOUS
<1>2. /\ db' = [db EXCEPT ![r] = RestoreState(transfer.dump)]
      /\ applied' = [applied EXCEPT ![r] = m]
      /\ reached' = [reached EXCEPT ![r] = m]
      /\ transfer # NoTransfer /\ transfer' = NoTransfer /\ UNCHANGED log
  BY <1>1 DEF InstallSnapshot
<1>3. m \in 0 .. Len(log)
  BY <1>1, <1>2, IndexesInLog DEF AgreeInv
<1>4. Sound(h[m]) /\ transfer.dump = DumpState(h[m])
  BY <1>1, <1>2, <1>3 DEF OnHistory
<1>5. Sound(RestoreState(transfer.dump)) /\ SameTables(RestoreState(transfer.dump), h[m])
  BY <1>4, RestoreSound
<1>6. /\ db'[r] = RestoreState(transfer.dump) /\ applied'[r] = m /\ reached'[r] = m
      /\ \A x \in Replicas : x # r => db'[x] = db[x] /\ applied'[x] = applied[x]
                                      /\ reached'[x] = reached[x]
  BY <1>2 DEF AgreeInv, RestartInv, IndexType
<1>7. ASSUME NEW x \in Replicas
      PROVE  Sound(db'[x]) /\ SameTables(db'[x], h[applied'[x]]) /\ reached'[x] = applied'[x]
  <2>1. CASE x = r
    BY <2>1, <1>5, <1>6
  <2>2. CASE x # r
    BY <2>2, <1>6 DEF OnHistory
  <2> QED BY <2>1, <2>2
<1> QED BY <1>2, <1>7 DEF OnHistory

(* A crash that loses no watermark loses nothing. *)
LEMMA RestartOnHistory ==
  ASSUME AgreeInv, NEW h, OnHistory(h), NEW r \in Replicas, Restart(r), ~replayed'
  PROVE  OnHistory(h)'
<1>1. ~(watermark[r] < reached[r]) /\ transfer' \in {transfer, NoTransfer}
      /\ applied' = [applied EXCEPT ![r] = watermark[r]]
      /\ UNCHANGED <<log, db, reached>>
  BY DEF Restart
<1>2. watermark[r] = applied[r]
  <2>1. watermark[r] \in Nat /\ applied[r] \in Nat /\ watermark[r] <= applied[r]
    BY DEF AgreeInv, RestartInv, IndexType, AlwaysRestartable
  <2>2. reached[r] = applied[r]
    BY DEF OnHistory
  <2> QED BY <2>1, <2>2, <1>1
<1>3. applied' = applied
  BY <1>1, <1>2 DEF AgreeInv, RestartInv, IndexType
<1> QED BY <1>1, <1>3, QuietStep

LEMMA AgreeStep == AgreeInv /\ [Next]_vars => AgreeInv'
<1> SUFFICES ASSUME AgreeInv, [Next]_vars PROVE AgreeInv'
  OBVIOUS
<1>1. RestartInv'
  BY RestartStep DEF AgreeInv
<1>2. DOMAIN db' = Replicas
  BY DEF AgreeInv, Next, Work, vars, Commit, Replicate, Purge, ApplyEntry, PersistWatermark,
         BuildSnapshot, GetCurrentSnapshot, InstallSnapshot, LoseTransfer, Restart
<1>3. reached' \in [Replicas -> Nat]
  <2>1. ASSUME NEW r \in Replicas, ApplyEntry(r)
        PROVE  reached' \in [Replicas -> Nat]
    <3>1. reached[r] \in Nat /\ applied[r] + 1 \in Nat
      BY DEF AgreeInv, RestartInv, IndexType
    <3>2. Max({reached[r], applied[r] + 1}) \in Nat
      BY <3>1, LargerOfTwo
    <3> QED BY <2>1, <3>2 DEF ApplyEntry, AgreeInv
  <2>2. ASSUME NEW r \in Replicas, InstallSnapshot(r)
        PROVE  reached' \in [Replicas -> Nat]
    BY <2>2 DEF InstallSnapshot, AgreeInv, RestartInv, TransferCommitted
  <2>3. CASE UNCHANGED reached
    BY <2>3 DEF AgreeInv
  <2> QED BY <2>1, <2>2, <2>3 DEF Next, Work, vars, Commit, Replicate, Purge,
             PersistWatermark, BuildSnapshot, GetCurrentSnapshot, LoseTransfer, Restart
<1>4. ASSUME ~replayed'
      PROVE  \E h : OnHistory(h)'
  <2>1. ~replayed
    BY <1>4 DEF Next, Work, vars, Commit, Replicate, Purge, ApplyEntry, PersistWatermark,
         BuildSnapshot, GetCurrentSnapshot, InstallSnapshot, LoseTransfer, Restart
  <2>2. PICK h : OnHistory(h)
    BY <2>1 DEF AgreeInv
  <2>3. ASSUME NEW r \in Replicas, NEW cmd \in Commands, Commit(r, cmd)
        PROVE  \E g : OnHistory(g)'
    BY <2>2, <2>3, CommitOnHistory DEF AgreeInv
  <2>4. ASSUME NEW r \in Replicas,
               ApplyEntry(r) \/ InstallSnapshot(r) \/ Restart(r)
               \/ \E s \in Replicas : GetCurrentSnapshot(s, r)
        PROVE  OnHistory(h)'
    BY <1>4, <2>2, <2>4, ApplyOnHistory, InstallOnHistory, RestartOnHistory, SendOnHistory
  <2>5. CASE UNCHANGED <<log, db, applied, reached>> /\ transfer' \in {transfer, NoTransfer}
    BY <2>2, <2>5, QuietStep
  <2>6. ASSUME NEW r \in Replicas, Replicate(r) \/ PersistWatermark(r) \/ BuildSnapshot(r)
               \/ \E index \in 1 .. MaxLog : Purge(r, index)
        PROVE  UNCHANGED <<log, db, applied, reached, transfer>>
    BY <2>6 DEF Replicate, PersistWatermark, BuildSnapshot, Purge
  <2> QED BY <2>3, <2>4, <2>5, <2>6 DEF Next, Work, vars, LoseTransfer
<1> QED BY <1>1, <1>2, <1>3, <1>4 DEF AgreeInv

(***************************************************************************)
(* Replicas that have applied the same entries hold the same tables, by    *)
(* log or by snapshot, as long as no crash fell between an entry and the   *)
(* watermark: for any number of replicas, any commands that mint their     *)
(* claim ids, any log length and any number of crashes.                    *)
(***************************************************************************)
THEOREM ReplicasStayEqual == Spec => []ReplicasAgree
<1>1. AgreeInv => ReplicasAgree
  <2> SUFFICES ASSUME AgreeInv, NEW r \in Replicas, NEW s \in Replicas, ~replayed,
                      applied[r] = applied[s]
               PROVE  DumpState(db[r]) = DumpState(db[s])
    BY DEF ReplicasAgree
  <2>1. PICK h : OnHistory(h)
    BY DEF AgreeInv
  <2>2. SameTables(db[r], h[applied[r]]) /\ SameTables(db[s], h[applied[r]])
    BY <2>1 DEF OnHistory
  <2>3. SameTables(db[r], db[s])
    BY <2>2 DEF SameTables
  <2> QED BY <2>3, SameDump
<1> QED BY <1>1, AgreeInit, AgreeStep, PTL DEF Spec

=============================================================================
