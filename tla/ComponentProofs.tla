-------------------------- MODULE ComponentProofs --------------------------
(***************************************************************************)
(* Proofs about components that share no state: the pending scan, the      *)
(* healing gate of a connector, the parquet checkpoint store, the broker   *)
(* sources, the flow controller, the transport, the windows, the scheduler,*)
(* the pipeline, and the binlog and slot sources.                          *)
(***************************************************************************)
EXTENDS PendingScanProofs, BatchScan, ConnectorHealing, ParquetCheckpoint,
        RaftTransport, FlowController, EventTimeWindows, PipelineScheduler,
        PipelineExecution, ChangeSources

(***************************************************************************)
(* The scan, on every set of ranges that grants and releases lead to.      *)
(***************************************************************************)
ScanInv ==
  /\ totalRows \in Nat
  /\ occupied \in SUBSET RowRange
  /\ IsFiniteSet(occupied)
  /\ \A x \in occupied : x.start < x.end /\ x.end <= totalRows

(* Whatever was granted and given back, in any order and for a batch of    *)
(* any size, find_first_pending_claim returns the first free run of rows.  *)
THEOREM ScanFindsEveryGap == ScanSpec => []ScanFindsFirstGap
<1>1. ScanInit => ScanInv
  BY ScanRowsAssumption, FS_EmptySet DEF ScanInit, ScanInv
<1>2. ScanInv /\ [ScanNext]_scanVars => ScanInv'
  <2> SUFFICES ASSUME ScanInv, [ScanNext]_scanVars
               PROVE  ScanInv'
    OBVIOUS
  <2> USE DEF ScanInv
  <2>1. ASSUME NEW start \in 0..totalRows, NEW end \in 1..totalRows, start < end,
               GrantRange(start, end)
        PROVE  ScanInv'
    <3>1. [start |-> start, end |-> end] \in RowRange
      BY DEF RowRange
    <3>2. IsFiniteSet(occupied')
      BY <2>1, FS_AddElement DEF GrantRange
    <3> QED BY <2>1, <3>1, <3>2 DEF GrantRange
  <2>2. ASSUME NEW range \in occupied, ReleaseRange(range)
        PROVE  ScanInv'
    <3>1. IsFiniteSet(occupied')
      BY <2>2, FS_RemoveElement DEF ReleaseRange
    <3> QED BY <2>2, <3>1 DEF ReleaseRange
  <2>3. CASE UNCHANGED scanVars
    BY <2>3 DEF scanVars
  <2> QED BY <2>1, <2>2, <2>3 DEF ScanNext
<1>3. ScanInv => ScanFindsFirstGap
  BY ScanIsReference DEF ScanInv, ScanFindsFirstGap
<1> QED BY <1>1, <1>2, <1>3, PTL DEF ScanSpec

----------------------------------------------------------------------------
(***************************************************************************)
(* The backoff of a healing node, for every threshold and every budget.    *)
(* BackoffGoesOn alone is not inductive: a node that has not scheduled a   *)
(* rebuild must also be known to have tried none, and a scheduled attempt  *)
(* to be within the budget before it is made.                              *)
(***************************************************************************)
HealTypeOK ==
  /\ heal \in [at : {"Healthy", "Failing", "Scheduled", "Probing", "Exhausted"}, n : Nat]
  /\ tries \in Nat

HealInv ==
  /\ HealTypeOK
  /\ heal.at \in {"Healthy", "Failing"} => tries = 0
  /\ heal.at = "Scheduled" /\ MaxAttempts # 0 => heal.n <= MaxAttempts
  /\ BackoffGoesOn

(* Scheduling the attempt that follows the ones already tried keeps the    *)
(* invariant: a node within its budget waits for that attempt, and a node  *)
(* beyond it is left exhausted (HealState::scheduled).                     *)
LEMMA ScheduledNext ==
  ASSUME NEW k \in Nat, MaxAttempts # 0 => k <= MaxAttempts,
         heal' = Scheduled(k + 1), tries' = k
  PROVE  HealInv'
BY HealAssumption DEF Scheduled, At, HealInv, HealTypeOK, BackoffGoesOn

(* An instance that answers, by success or failure, keeps the invariant in *)
(* whichever state it answers: the one the node is in, or the probation of *)
(* the instance just built (record_success, record_failure).               *)
LEMMA AnswerKeeps ==
  ASSUME NEW h \in [at : {"Healthy", "Failing", "Scheduled", "Probing", "Exhausted"}, n : Nat],
         NEW count \in Nat,
         h.at \in {"Healthy", "Failing"} => count = 0,
         h.at = "Scheduled" => h.n = count + 1,
         h.at = "Scheduled" /\ MaxAttempts # 0 => h.n <= MaxAttempts,
         h.at = "Probing" => h.n = count,
         MaxAttempts # 0 => count <= MaxAttempts,
         Answer(h, count)
  PROVE  HealInv'
<1>1. CASE heal' = AfterSuccess /\ tries' = 0
  BY <1>1, HealAssumption DEF AfterSuccess, At, HealInv, HealTypeOK, BackoffGoesOn
<1>2. CASE heal' = AfterFailure(h) /\ tries' = count
  <2>1. CASE h.at \in {"Healthy", "Failing"}
    <3>1. heal' = Scheduled(count + 1) \/ \E n \in Nat : heal' = At("Failing", n)
      BY <1>2, <2>1 DEF AfterFailure
    <3>2. CASE heal' = Scheduled(count + 1)
      BY <1>2, <3>2, ScheduledNext
    <3>3. CASE \E n \in Nat : heal' = At("Failing", n)
      BY <1>2, <2>1, <3>3, HealAssumption DEF At, HealInv, HealTypeOK, BackoffGoesOn
    <3> QED BY <3>1, <3>2, <3>3
  <2>2. CASE h.at = "Probing"
    <3>1. heal' = Scheduled(count + 1)
      BY <1>2, <2>2 DEF AfterFailure
    <3> QED BY <1>2, <3>1, ScheduledNext
  <2>3. CASE h.at \in {"Scheduled", "Exhausted"}
    <3>1. heal' = h
      BY <1>2, <2>3 DEF AfterFailure
    <3> QED BY <1>2, <2>3, <3>1 DEF HealInv, HealTypeOK, BackoffGoesOn
  <2> QED BY <2>1, <2>2, <2>3
<1> QED BY <1>1, <1>2 DEF Answer

(* Every step of a healing node, the idle one included, keeps the          *)
(* invariant.                                                              *)
LEMMA HealInvInductive ==
  ASSUME HealInv, [HealNext]_healVars
  PROVE  HealInv'
<1> USE DEF HealInv, HealTypeOK, BackoffGoesOn
<1>1. CASE BuildFails
  <2>1. heal.at = "Scheduled" /\ heal' = Scheduled(heal.n + 1) /\ tries' = heal.n
    BY <1>1 DEF BuildFails, Due
  <2> QED BY <2>1, ScheduledNext
<1>2. CASE Rebuild
  <2>1. heal.at = "Scheduled" /\ heal.n = tries + 1 /\ Answer(At("Probing", heal.n), tries + 1)
    BY <1>2 DEF Rebuild, Due
  <2>2. At("Probing", heal.n) \in
          [at : {"Healthy", "Failing", "Scheduled", "Probing", "Exhausted"}, n : Nat]
    BY DEF At
  <2>3. At("Probing", heal.n).at = "Probing" /\ At("Probing", heal.n).n = tries + 1
    BY <2>1 DEF At
  <2> HIDE DEF HealInv
  <2> QED BY <2>1, <2>2, <2>3, AnswerKeeps DEF HealInv
<1>3. CASE RebuildInterrupted
  BY <1>3, HealAssumption DEF RebuildInterrupted, Due, At
<1>4. CASE Operate
  BY <1>4, AnswerKeeps DEF Operate
<1>5. CASE UNCHANGED <<heal, tries>>
  BY <1>5
<1> QED BY <1>1, <1>2, <1>3, <1>4, <1>5
        DEF HealNext, healVars, RebuildComesDue, TakeRecovered

(* For every threshold and budget, a rebuild that failed or broke on       *)
(* probation is followed by the next attempt and never by the first one    *)
(* again, and an outage is never given more rebuilds than its budget.      *)
THEOREM BackoffNeverRestarts == HealSpec => []BackoffGoesOn
<1>1. HealInit => HealInv
  BY HealAssumption DEF HealInit, At, HealInv, HealTypeOK, BackoffGoesOn
<1>2. HealInv /\ [HealNext]_healVars => HealInv'
  BY HealInvInductive
<1>3. HealInv => BackoffGoesOn
  BY DEF HealInv
<1> QED BY <1>1, <1>2, <1>3, PTL DEF HealSpec

----------------------------------------------------------------------------
(***************************************************************************)
(* What load_checkpoint returns is whole, for any number of saves.  The    *)
(* inductive invariant says what each step of a save has already put where *)
(* (ProgressInv), that no name ever points at a torn file (NamesInv), and, *)
(* as long as no directory sync was lost, that every pair of files a power *)
(* loss can leave behind is in order (PairsInv), not only the visible one. *)
(***************************************************************************)
Version == 0..saves

NamesInv ==
  /\ saves \in 0..MaxSaves
  /\ data \in Version /\ sidecar \in Version
  /\ syncedData \in Version /\ syncedSidecar \in Version
  /\ tmp \in [data : 0..Torn, sidecar : 0..Torn]

ProgressInv ==
  /\ step = "renameData" => tmp.data = saves
  /\ step \in {"syncData", "writeSidecar", "renameSidecar", "syncSidecar"} => data = saves
  /\ step = "renameSidecar" => tmp.sidecar = saves

Ordered(d, s) == d = 0 \/ s = 0 \/ s <= d

PairsInv ==
  ~unsynced =>
    /\ Ordered(data, sidecar) /\ Ordered(data, syncedSidecar)
    /\ Ordered(syncedData, sidecar) /\ Ordered(syncedData, syncedSidecar)
    /\ step \in {"writeSidecar", "renameSidecar", "syncSidecar"} => syncedData = saves

ArchiveInv == NamesInv /\ ProgressInv /\ PairsInv

(* The names stay whole, and within the saves begun, under every step of a *)
(* save or a delete and under every interruption.                          *)
LEMMA NamesKept ==
  ASSUME ArchiveInv, [ArchiveNext]_archiveVars
  PROVE  NamesInv'
<1> USE SaveAssumption DEF ArchiveInv, NamesInv, Version, Torn, files
<1>1. CASE BeginSave
  BY <1>1 DEF BeginSave, Goto
<1>2. CASE SyncDataFile \/ SyncSidecarFile
  BY <1>2 DEF SyncDataFile, SyncSidecarFile, Goto
<1>3. CASE RenameData \/ RenameSidecar
  BY <1>3 DEF RenameData, RenameSidecar, Goto, ProgressInv
<1>4. CASE SyncAfterData
  BY <1>4 DEF SyncAfterData, SyncDirectory, Goto
<1>5. CASE SyncAfterSidecar
  BY <1>5 DEF SyncAfterSidecar, SyncDirectory, Goto
<1>6. CASE DeleteData \/ DeleteSidecar
  BY <1>6 DEF DeleteData, DeleteSidecar, Goto
<1>7. CASE Abandon \/ Kill \/ UNCHANGED archiveVars
  BY <1>7 DEF Abandon, Kill, archiveVars
<1>8. CASE PowerLoss
  BY <1>8 DEF PowerLoss
<1> QED BY <1>1, <1>2, <1>3, <1>4, <1>5, <1>6, <1>7, <1>8 DEF ArchiveNext

(* What a save has reached is what its step says (write_checkpoint_internal *)
(* goes on only after the call before it returned).                        *)
LEMMA ProgressKept ==
  ASSUME ArchiveInv, [ArchiveNext]_archiveVars
  PROVE  ProgressInv'
<1> USE DEF ArchiveInv, ProgressInv, NamesInv, files, Goto
<1>1. CASE BeginSave \/ SyncDataFile \/ RenameData
  BY <1>1 DEF BeginSave, SyncDataFile, RenameData
<1>2. CASE SyncAfterData
  BY <1>2 DEF SyncAfterData, SyncDirectory
<1>3. CASE SyncSidecarFile \/ RenameSidecar
  BY <1>3 DEF SyncSidecarFile, RenameSidecar
<1>4. CASE SyncAfterSidecar
  BY <1>4 DEF SyncAfterSidecar, SyncDirectory
<1>5. CASE DeleteData \/ DeleteSidecar \/ Abandon \/ Kill \/ PowerLoss
  BY <1>5 DEF DeleteData, DeleteSidecar, Abandon, Kill, PowerLoss
<1>6. CASE UNCHANGED archiveVars
  BY <1>6 DEF archiveVars
<1> QED BY <1>1, <1>2, <1>3, <1>4, <1>5, <1>6 DEF ArchiveNext

(* Every pair a power loss may expose stays in order: new data becomes     *)
(* durable before a sidecar of its save is renamed into place.             *)
LEMMA PairsKept ==
  ASSUME ArchiveInv, [ArchiveNext]_archiveVars
  PROVE  PairsInv'
<1> USE DEF ArchiveInv, PairsInv, NamesInv, Version, Ordered, files, Goto
<1>1. CASE BeginSave
  BY <1>1 DEF BeginSave
<1>2. CASE SyncDataFile \/ SyncSidecarFile
  BY <1>2 DEF SyncDataFile, SyncSidecarFile
<1>3. CASE RenameData
  BY <1>3 DEF RenameData, ProgressInv
<1>4. CASE RenameSidecar
  BY <1>4 DEF RenameSidecar, ProgressInv
<1>5. CASE SyncAfterData
  BY <1>5 DEF SyncAfterData, SyncDirectory, ProgressInv
<1>6. CASE SyncAfterSidecar
  BY <1>6 DEF SyncAfterSidecar, SyncDirectory, ProgressInv
<1>7. CASE DeleteData \/ DeleteSidecar
  BY <1>7 DEF DeleteData, DeleteSidecar
<1>8. CASE Abandon \/ Kill
  BY <1>8 DEF Abandon, Kill
<1>9. CASE PowerLoss
  BY <1>9 DEF PowerLoss
<1>10. CASE UNCHANGED archiveVars
  BY <1>10 DEF archiveVars
<1> QED BY <1>1, <1>2, <1>3, <1>4, <1>5, <1>6, <1>7, <1>8, <1>9, <1>10 DEF ArchiveNext

(* However many saves and deletes are made and wherever each is cut off,   *)
(* load_checkpoint never returns a torn file, nor, while no directory sync *)
(* was lost, metadata newer than the data it describes.                    *)
THEOREM LoadIsNeverTorn == ArchiveSpec => []LoadedIsWhole
<1>1. ArchiveInit => ArchiveInv
  BY SaveAssumption
  DEF ArchiveInit, ArchiveInv, NamesInv, ProgressInv, PairsInv, Ordered, Version, Torn
<1>2. ArchiveInv /\ [ArchiveNext]_archiveVars => ArchiveInv'
  BY NamesKept, ProgressKept, PairsKept DEF ArchiveInv
<1>3. ArchiveInv => LoadedIsWhole
  BY SaveAssumption
  DEF ArchiveInv, NamesInv, PairsInv, Ordered, Version, Torn, LoadedIsWhole, Loaded
<1> QED BY <1>1, <1>2, <1>3, PTL DEF ArchiveSpec

----------------------------------------------------------------------------
(***************************************************************************)
(* The broker sources, for every queue, window size and number of decode   *)
(* attempts.                                                               *)
(***************************************************************************)

KafkaState == [offset : Nat, position : Nat, buffer : Seq(Ids), pending : BOOLEAN,
               handed : SUBSET Ids, failed : SUBSET Ids]

Delivery == [id : Ids, delivered : Nat]

NatsState == [server : [Ids -> {"waiting", "delivered", "gone"}], deliveries : [Ids -> Nat],
              buffer : Seq(Delivery), acks : SUBSET Ids,
              handed : SUBSET Ids]

(* The commit takes the position, which runs ahead of what was handed over *)
(* by the window a dropped call left: the invariant must say that whatever *)
(* lies between is in that window, and that the window is empty while a    *)
(* commit is due.                                                          *)
KafkaInv ==
  /\ kafka \in KafkaState
  /\ 1..kafka.offset \subseteq kafka.handed \cup kafka.failed
  /\ 1..kafka.position \subseteq kafka.handed \cup kafka.failed \cup ToSet(kafka.buffer)
  /\ kafka.pending => kafka.buffer = <<>>

GoneForAReason(m) ==
  m \in nats.handed \/ (m \in bad /\ nats.deliveries[m] >= DecodeAttempts)

(* Acknowledgements due are for messages handed over, and the server has   *)
(* counted every delivery a window holds.                                  *)
NatsInv ==
  /\ nats \in NatsState
  /\ nats.acks \subseteq nats.handed
  /\ \A k \in DOMAIN nats.buffer :
       nats.buffer[k].delivered <= nats.deliveries[nats.buffer[k].id]
  /\ \A m \in Ids : nats.server[m] = "gone" => GoneForAReason(m)

(* What a window holds, and what it holds with one message more. *)
LEMMA Windows ==
  ASSUME NEW S, NEW window \in Seq(S), NEW x \in S
  PROVE  /\ ToSet(<<>>) = {} /\ ToSet(window) \subseteq S
         /\ Append(window, x) \in Seq(S)
         /\ ToSet(Append(window, x)) = ToSet(window) \cup {x}
<1>1. ToSet(<<>>) = {} /\ ToSet(window) \subseteq S
  BY DEF ToSet
<1>2. Append(window, x) \in Seq(S) /\ DOMAIN Append(window, x) = DOMAIN window \cup {Len(window) + 1}
  OBVIOUS
<1>3. /\ \A k \in DOMAIN window : Append(window, x)[k] = window[k]
      /\ Append(window, x)[Len(window) + 1] = x
  OBVIOUS
<1> QED BY <1>1, <1>2, <1>3 DEF ToSet

(* A KafkaSource call, wherever it is dropped, and a consumer that starts  *)
(* again at the group's offset keep the invariant.                         *)
LEMMA KafkaKept ==
  ASSUME KafkaInv, [KafkaNext]_brokerVars
  PROVE  KafkaInv'
<1> USE BrokerAssumption DEF KafkaInv
<1> DEFINE Types == /\ kafka.offset \in Nat /\ kafka.position \in Nat
                    /\ kafka.buffer \in Seq(Ids) /\ kafka.pending \in BOOLEAN
                    /\ kafka.handed \in SUBSET Ids /\ kafka.failed \in SUBSET Ids
<1>1. Types /\ ToSet(kafka.buffer) \subseteq Ids
  BY DEF KafkaState, ToSet
<1>2. <<>> \in Seq(Ids) /\ ToSet(<<>>) = {}
  BY DEF ToSet
<1>3. CASE KafkaCommit
  <2>1. PICK offset \in {kafka.offset, kafka.position} :
          kafka' = [kafka EXCEPT !.pending = FALSE, !.offset = offset]
    BY <1>3 DEF KafkaCommit
  <2>2. kafka' \in KafkaState
    BY <1>1, <2>1 DEF KafkaState
  <2>3. /\ kafka'.offset = offset /\ kafka'.position = kafka.position
        /\ kafka'.buffer = kafka.buffer /\ kafka'.pending = FALSE
        /\ kafka'.handed = kafka.handed /\ kafka'.failed = kafka.failed
    BY <2>1 DEF KafkaState
  <2>4. kafka.buffer = <<>>
    BY <1>3 DEF KafkaCommit
  <2> QED BY <1>2, <2>2, <2>3, <2>4
<1>4. CASE KafkaReceive
  <2> DEFINE next == kafka.position + 1
  <2>1. next \in Ids
    BY <1>1, <1>4 DEF KafkaReceive, Ids
  <2>2. /\ kafka' = [kafka EXCEPT !.position = next, !.buffer = Append(kafka.buffer, next)]
        /\ ~kafka.pending
    BY <1>4 DEF KafkaReceive
  <2>3. /\ Append(kafka.buffer, next) \in Seq(Ids)
        /\ ToSet(Append(kafka.buffer, next)) = ToSet(kafka.buffer) \cup {next}
    BY <1>1, <2>1, Windows
  <2>4. 1..next = (1..kafka.position) \cup {next} /\ next \in Nat
    BY <1>1
  <2> HIDE DEF next
  <2>5. kafka' \in KafkaState
    BY <1>1, <2>2, <2>3, <2>4 DEF KafkaState
  <2>6. /\ kafka'.offset = kafka.offset /\ kafka'.position = next
        /\ kafka'.buffer = Append(kafka.buffer, next) /\ kafka'.pending = kafka.pending
        /\ kafka'.handed = kafka.handed /\ kafka'.failed = kafka.failed
    BY <2>2 DEF KafkaState
  <2> QED BY <2>2, <2>3, <2>4, <2>5, <2>6
<1>5. CASE KafkaHandOver
  <2>1. PICK pending \in BOOLEAN, handed \in SUBSET Ids, failed \in SUBSET Ids :
          /\ kafka' = [kafka EXCEPT !.buffer = <<>>, !.pending = pending,
                                    !.handed = handed, !.failed = failed]
          /\ handed \cup failed = kafka.handed \cup kafka.failed \cup ToSet(kafka.buffer)
    <3>1. CASE Decodes(kafka.buffer)
      <4>1. kafka' = [kafka EXCEPT !.buffer = <<>>, !.pending = TRUE,
                        !.handed = kafka.handed \cup ToSet(kafka.buffer), !.failed = kafka.failed]
        BY <1>5, <3>1 DEF KafkaHandOver, KafkaState
      <4>2. kafka.handed \cup ToSet(kafka.buffer) \in SUBSET Ids
        BY <1>1
      <4>3. (kafka.handed \cup ToSet(kafka.buffer)) \cup kafka.failed
              = kafka.handed \cup kafka.failed \cup ToSet(kafka.buffer)
        OBVIOUS
      <4> USE <1>1, <4>2
      <4> WITNESS TRUE \in BOOLEAN, kafka.handed \cup ToSet(kafka.buffer) \in SUBSET Ids,
                  kafka.failed \in SUBSET Ids
      <4> QED BY <4>1, <4>3
    <3>2. CASE ~Decodes(kafka.buffer)
      <4>1. kafka' = [kafka EXCEPT !.buffer = <<>>, !.pending = kafka.pending,
                        !.handed = kafka.handed, !.failed = kafka.failed \cup ToSet(kafka.buffer)]
        BY <1>5, <3>2 DEF KafkaHandOver, KafkaState
      <4>2. kafka.failed \cup ToSet(kafka.buffer) \in SUBSET Ids
        BY <1>1
      <4>3. kafka.handed \cup (kafka.failed \cup ToSet(kafka.buffer))
              = kafka.handed \cup kafka.failed \cup ToSet(kafka.buffer)
        OBVIOUS
      <4> USE <1>1, <4>2
      <4> WITNESS kafka.pending \in BOOLEAN, kafka.handed \in SUBSET Ids,
                  kafka.failed \cup ToSet(kafka.buffer) \in SUBSET Ids
      <4> QED BY <4>1, <4>3
    <3> QED BY <3>1, <3>2
  <2>2. kafka' \in KafkaState
    BY <1>1, <1>2, <2>1 DEF KafkaState
  <2>3. /\ kafka'.offset = kafka.offset /\ kafka'.position = kafka.position
        /\ kafka'.buffer = <<>> /\ kafka'.handed = handed /\ kafka'.failed = failed
    BY <2>1 DEF KafkaState
  <2> QED BY <1>2, <2>1, <2>2, <2>3
<1>6. CASE KafkaRestart
  <2>1. kafka' = [kafka EXCEPT !.position = kafka.offset, !.buffer = <<>>, !.pending = FALSE]
    BY <1>6 DEF KafkaRestart
  <2>2. kafka' \in KafkaState
    BY <1>1, <1>2, <2>1 DEF KafkaState
  <2>3. /\ kafka'.offset = kafka.offset /\ kafka'.position = kafka.offset
        /\ kafka'.buffer = <<>> /\ kafka'.pending = FALSE
        /\ kafka'.handed = kafka.handed /\ kafka'.failed = kafka.failed
    BY <2>1 DEF KafkaState
  <2> QED BY <1>2, <2>2, <2>3
<1>7. CASE UNCHANGED brokerVars
  BY <1>7 DEF brokerVars
<1> QED BY <1>3, <1>4, <1>5, <1>6, <1>7 DEF KafkaNext

(* The message retire_exhausted gives up does not decode and was delivered *)
(* as often as allowed.                                                    *)
LEMMA RetiredIsExhausted ==
  ASSUME NatsInv, ~Decodes(WindowIds), NEW m \in Retired
  PROVE  m \in bad /\ nats.deliveries[m] >= DecodeAttempts
<1> DEFINE wrong == {k \in DOMAIN WindowIds : WindowIds[k] \in bad}
           Culprit(k) == /\ WindowIds[k] \in bad
                         /\ \A other \in DOMAIN WindowIds : WindowIds[other] \in bad => k <= other
           culprit == CHOOSE k \in DOMAIN WindowIds : Culprit(k)
<1>1. DOMAIN WindowIds = DOMAIN nats.buffer /\ DOMAIN nats.buffer = 1..Len(nats.buffer)
  BY DEF WindowIds, NatsInv, NatsState
<1>2. wrong # {} /\ wrong \in SUBSET Nat
  BY <1>1 DEF Decodes
<1>3. \E k \in DOMAIN WindowIds : Culprit(k)
  BY <1>2, LeastExists
<1>4. culprit \in DOMAIN WindowIds /\ WindowIds[culprit] \in bad
  BY <1>3
<1>5. m \in IF nats.buffer[culprit].delivered < DecodeAttempts THEN {} ELSE {WindowIds[culprit]}
  BY DEF Retired
<1> HIDE DEF culprit
<1>6. /\ m = WindowIds[culprit] /\ ~(nats.buffer[culprit].delivered < DecodeAttempts)
      /\ m = nats.buffer[culprit].id
  BY <1>1, <1>4, <1>5 DEF WindowIds
<1>7. nats.buffer[culprit] \in Delivery /\ nats.deliveries \in [Ids -> Nat]
  BY <1>1, <1>4 DEF NatsInv, NatsState
<1>8. /\ nats.buffer[culprit].delivered \in Nat
      /\ nats.deliveries[m] \in Nat
      /\ nats.buffer[culprit].delivered <= nats.deliveries[m]
  BY <1>1, <1>4, <1>6, <1>7 DEF NatsInv, Delivery
<1> QED BY <1>4, <1>6, <1>8, BrokerAssumption

(* A NatsSource call, a redelivery and a new consumer keep the invariant.  *)
LEMMA NatsKept ==
  ASSUME NatsInv, [NatsNext]_brokerVars
  PROVE  NatsInv'
<1> USE DEF NatsInv
<1>1. /\ nats.server \in [Ids -> {"waiting", "delivered", "gone"}]
      /\ nats.deliveries \in [Ids -> Nat]
      /\ nats.buffer \in Seq(Delivery)
      /\ nats.acks \in SUBSET Ids /\ nats.handed \in SUBSET Ids
  BY DEF NatsState
<1> DEFINE WasCounted(buffer) ==
             \A k \in DOMAIN buffer : buffer[k].delivered <= nats.deliveries[buffer[k].id]
<1> DEFINE Server(gone) == [m \in Ids |-> IF m \in gone THEN "gone" ELSE nats.server[m]]
<1>2. ASSUME NEW gone,
             NEW buffer \in Seq(Delivery),
             WasCounted(buffer),
             NEW acks \in SUBSET Ids, NEW handed \in SUBSET Ids,
             nats' = [nats EXCEPT !.server = Server(gone), !.buffer = buffer,
                                  !.acks = acks, !.handed = handed],
             bad' = bad, acks \subseteq handed, nats.handed \subseteq handed,
             \A m \in gone : GoneForAReason(m)
      PROVE  NatsInv'
  <2> DEFINE server == Server(gone)
  <2>1. nats' = [nats EXCEPT !.server = server, !.buffer = buffer, !.acks = acks, !.handed = handed]
    BY <1>2 DEF NatsState
  <2>2. server \in [Ids -> {"waiting", "delivered", "gone"}]
    BY <1>1
  <2>3. \A m \in Ids : server[m] = "gone" => m \in gone \/ nats.server[m] = "gone"
    OBVIOUS
  <2> HIDE DEF server
  <2>4. nats' \in NatsState
    BY <1>1, <1>2, <2>1, <2>2 DEF NatsState
  <2>5. /\ nats'.server = server /\ nats'.deliveries = nats.deliveries
        /\ nats'.buffer = buffer /\ nats'.acks = acks /\ nats'.handed = handed
    BY <2>1 DEF NatsState
  <2>6. \A m \in Ids : server[m] = "gone" => GoneForAReason(m)'
    BY <1>2, <2>3, <2>5 DEF GoneForAReason
  <2> QED BY <1>2, <2>4, <2>5, <2>6
<1> DEFINE nobody == Ids \ Ids
<1>3. nats.server = Server(nobody) /\ \A m \in nobody : GoneForAReason(m)
  BY <1>1
<1>4. <<>> \in Seq(Delivery) /\ WasCounted(<<>>)
  OBVIOUS
<1>5. WasCounted(nats.buffer)
  OBVIOUS
<1>6. CASE NatsAck
  <2>1. PICK sent \in SUBSET nats.acks :
          nats' = [nats EXCEPT !.acks = {},
                     !.server = [m \in Ids |-> IF m \in sent THEN "gone" ELSE @[m]]]
    BY <1>6 DEF NatsAck
  <2>2. nats' = [nats EXCEPT !.server = Server(sent),
                   !.buffer = nats.buffer, !.acks = {}, !.handed = nats.handed]
    BY <2>1 DEF NatsState
  <2>3. \A m \in sent : GoneForAReason(m)
    BY DEF GoneForAReason
  <2>4. bad' = bad /\ {} \in SUBSET Ids
    BY <1>6 DEF NatsAck
  <2> HIDE DEF NatsInv, Server, WasCounted, nobody
  <2> QED BY <1>1, <1>2, <1>4, <1>5, <2>2, <2>3, <2>4
<1>7. CASE NatsHandOver
  <2>1. ToSet(WindowIds) \subseteq Ids
    <3>1. \A k \in DOMAIN nats.buffer : nats.buffer[k] \in Delivery
      BY <1>1
    <3> QED BY <3>1 DEF ToSet, WindowIds, Delivery
  <2>2. nats' = [nats EXCEPT !.server = Server(nobody),
                   !.buffer = <<>>, !.acks = ToSet(WindowIds),
                   !.handed = nats.handed \cup ToSet(WindowIds)]
    BY <1>3, <1>7 DEF NatsHandOver, NatsState
  <2>3. bad' = bad /\ nats.handed \cup ToSet(WindowIds) \in SUBSET Ids
    BY <1>1, <1>7, <2>1 DEF NatsHandOver
  <2> HIDE DEF NatsInv, Server, WasCounted, nobody
  <2> QED BY <1>2, <1>3, <1>4, <2>1, <2>2, <2>3
<1>8. CASE NatsDecodeFails
  <2>1. PICK terminated \in SUBSET Retired :
          nats' = [nats EXCEPT !.buffer = <<>>,
                     !.server = [m \in Ids |-> IF m \in terminated THEN "gone" ELSE @[m]]]
    BY <1>8 DEF NatsDecodeFails
  <2>2. \A m \in terminated : GoneForAReason(m)
    BY <1>8, RetiredIsExhausted DEF NatsDecodeFails, GoneForAReason
  <2>3. nats' = [nats EXCEPT !.server = Server(terminated),
                   !.buffer = <<>>, !.acks = nats.acks, !.handed = nats.handed]
    BY <2>1 DEF NatsState
  <2>4. bad' = bad /\ nats.acks \subseteq nats.handed
    BY <1>8 DEF NatsDecodeFails
  <2> HIDE DEF NatsInv, Server, WasCounted, nobody
  <2> QED BY <1>1, <1>2, <1>4, <1>5, <2>2, <2>3, <2>4
<1>9. CASE NatsRestart
  <2>1. nats' = [nats EXCEPT !.server = Server(nobody),
                   !.buffer = <<>>, !.acks = {}, !.handed = nats.handed]
    BY <1>3, <1>9 DEF NatsRestart, NatsState
  <2>2. bad' = bad /\ {} \in SUBSET Ids
    BY <1>9 DEF NatsRestart
  <2> HIDE DEF NatsInv, Server, WasCounted, nobody
  <2> QED BY <1>1, <1>2, <1>3, <1>4, <2>1, <2>2
<1>10. ASSUME NEW m \in Ids, NatsReceive(m) PROVE NatsInv'
  <2> DEFINE delivery == [id |-> m, delivered |-> nats.deliveries[m] + 1]
             buffer == Append(nats.buffer, delivery)
             server == [nats.server EXCEPT ![m] = "delivered"]
             deliveries == [nats.deliveries EXCEPT ![m] = @ + 1]
  <2>1. delivery \in Delivery
    BY <1>1 DEF Delivery
  <2>2. nats' = [nats EXCEPT !.server = server, !.deliveries = deliveries, !.buffer = buffer]
    BY <1>10 DEF NatsReceive, NatsState
  <2>3. /\ server \in [Ids -> {"waiting", "delivered", "gone"}]
        /\ deliveries \in [Ids -> Nat]
        /\ \A n \in Ids : deliveries[n] >= nats.deliveries[n]
        /\ \A n \in Ids : server[n] = "gone" => nats.server[n] = "gone"
    BY <1>1
  <2>4. buffer \in Seq(Delivery)
    BY <1>1, <2>1
  <2>5. \A k \in DOMAIN buffer : buffer[k].delivered <= deliveries[buffer[k].id]
    <3> SUFFICES ASSUME NEW k \in DOMAIN buffer
                 PROVE  buffer[k].delivered <= deliveries[buffer[k].id]
      OBVIOUS
    <3>1. CASE k \in DOMAIN nats.buffer
      <4>1. buffer[k] = nats.buffer[k] /\ nats.buffer[k] \in Delivery
        BY <1>1, <2>1, <3>1
      <4>2. /\ nats.buffer[k].delivered <= nats.deliveries[nats.buffer[k].id]
            /\ nats.buffer[k].delivered \in Nat /\ nats.buffer[k].id \in Ids
        BY <3>1, <4>1 DEF Delivery
      <4>3. /\ deliveries[nats.buffer[k].id] >= nats.deliveries[nats.buffer[k].id]
            /\ deliveries[nats.buffer[k].id] \in Nat /\ nats.deliveries[nats.buffer[k].id] \in Nat
        BY <1>1, <2>3, <4>2
      <4> HIDE DEF buffer, deliveries
      <4> QED BY <4>1, <4>2, <4>3
    <3>2. CASE k \notin DOMAIN nats.buffer
      <4>1. buffer[k] = delivery
        BY <1>1, <2>1, <3>2
      <4>2. deliveries[m] = nats.deliveries[m] + 1 /\ deliveries[m] \in Nat
        BY <1>1
      <4> HIDE DEF buffer, deliveries
      <4> QED BY <4>1, <4>2
    <3> QED BY <3>1, <3>2
  <2> HIDE DEF buffer, server, deliveries
  <2>6. nats' \in NatsState
    BY <1>1, <2>2, <2>3, <2>4 DEF NatsState
  <2>7. /\ nats'.server = server /\ nats'.deliveries = deliveries
        /\ nats'.buffer = buffer /\ nats'.acks = nats.acks /\ nats'.handed = nats.handed
    BY <2>2 DEF NatsState
  <2>8. \A n \in Ids : server[n] = "gone" => GoneForAReason(n)'
    <3> SUFFICES ASSUME NEW n \in Ids, server[n] = "gone"
                 PROVE  GoneForAReason(n)'
      OBVIOUS
    <3>1. GoneForAReason(n)
      BY <2>3
    <3>2. nats.deliveries[n] \in Nat /\ deliveries[n] \in Nat /\ deliveries[n] >= nats.deliveries[n]
      BY <1>1, <2>3
    <3>3. bad' = bad
      BY <1>10 DEF NatsReceive
    <3> QED BY <2>7, <3>1, <3>2, <3>3, BrokerAssumption DEF GoneForAReason
  <2> QED BY <2>5, <2>6, <2>7, <2>8
<1>11. ASSUME NEW m \in Ids, AckWaitExpires(m) PROVE NatsInv'
  <2> DEFINE server == [nats.server EXCEPT ![m] = "waiting"]
  <2>1. nats' = [nats EXCEPT !.server = server] /\ bad' = bad
    BY <1>11 DEF AckWaitExpires, NatsState
  <2>2. /\ server \in [Ids -> {"waiting", "delivered", "gone"}]
        /\ \A n \in Ids : server[n] = "gone" => nats.server[n] = "gone"
    BY <1>1
  <2> HIDE DEF server
  <2>3. nats' \in NatsState
    BY <1>1, <2>1, <2>2 DEF NatsState
  <2>4. /\ nats'.server = server /\ nats'.deliveries = nats.deliveries
        /\ nats'.buffer = nats.buffer /\ nats'.acks = nats.acks /\ nats'.handed = nats.handed
    BY <2>1 DEF NatsState
  <2> QED BY <2>1, <2>2, <2>3, <2>4 DEF GoneForAReason
<1>12. CASE UNCHANGED brokerVars
  BY <1>12 DEF brokerVars, GoneForAReason
<1> QED BY <1>6, <1>7, <1>8, <1>9, <1>10, <1>11, <1>12 DEF NatsNext

(* Whatever calls are dropped, however late acknowledgements and           *)
(* redeliveries come and whichever payloads do not decode, a broker never  *)
(* forgets a message its source has not handed over or given up with an    *)
(* error: commit_pending and flush_pending_acks acknowledge only what an   *)
(* earlier call returned.                                                  *)
THEOREM BrokersSkipNothingSilently == BrokerSpec => []SeenOrGivenUp
<1>1. BrokerInit => KafkaInv /\ NatsInv
  BY BrokerAssumption DEF BrokerInit, KafkaInv, NatsInv, KafkaState, NatsState, ToSet, GoneForAReason
<1>2. KafkaInv /\ NatsInv /\ [KafkaNext \/ NatsNext]_brokerVars => (KafkaInv /\ NatsInv)'
  <2> SUFFICES ASSUME KafkaInv, NatsInv, [KafkaNext \/ NatsNext]_brokerVars
               PROVE  KafkaInv' /\ NatsInv'
    OBVIOUS
  <2>1. CASE KafkaNext
    <3>1. UNCHANGED <<bad, nats>>
      BY <2>1 DEF KafkaNext, KafkaCommit, KafkaReceive, KafkaHandOver, KafkaRestart
    <3> QED BY <2>1, <3>1, KafkaKept DEF NatsInv, GoneForAReason
  <2>2. CASE NatsNext
    <3>1. UNCHANGED kafka
      BY <2>2 DEF NatsNext, NatsAck, NatsHandOver, NatsDecodeFails, NatsRestart,
                  NatsReceive, AckWaitExpires
    <3> QED BY <2>2, <3>1, NatsKept DEF KafkaInv
  <2>3. CASE UNCHANGED brokerVars
    BY <2>3, KafkaKept, NatsKept
  <2> QED BY <2>1, <2>2, <2>3
<1>3. KafkaInv /\ NatsInv => SeenOrGivenUp
  BY DEF KafkaInv, NatsInv, GoneForAReason, SeenOrGivenUp
<1> QED BY <1>1, <1>2, <1>3, PTL DEF BrokerSpec

----------------------------------------------------------------------------
(***************************************************************************)
(* The search of the flow controller, for all bounds and factors.          *)
(***************************************************************************)

(* Min, as the controller uses it. *)
LEMMA SmallerOfTwo ==
  ASSUME NEW a \in Nat, NEW b \in Nat
  PROVE  Min({a, b}) = IF a < b THEN a ELSE b
<1> DEFINE m == IF a < b THEN a ELSE b
<1>1. m \in {a, b} /\ \A y \in {a, b} : m <= y
  OBVIOUS
<1>2. \A x \in {a, b} : (\A y \in {a, b} : x <= y) => x = m
  OBVIOUS
<1> QED BY <1>1, <1>2 DEF Min

FlowRows == MinRows..MaxFlowRows

(* clamp, without Max and Min. *)
LEMMA ClampIs ==
  ASSUME NEW rows \in Nat
  PROVE  Clamp(rows) = IF rows < MinRows THEN MinRows
                       ELSE IF rows > MaxFlowRows THEN MaxFlowRows ELSE rows
<1> DEFINE capped == Min({rows, MaxFlowRows})
<1>1. capped = IF rows < MaxFlowRows THEN rows ELSE MaxFlowRows
  BY FlowAssumption, SmallerOfTwo
<1>2. capped \in Nat
  BY <1>1, FlowAssumption
<1> HIDE DEF capped
<1>3. Max({MinRows, capped}) = IF MinRows < capped THEN capped ELSE MinRows
  BY <1>2, FlowAssumption, LargerOfTwo
<1>4. Clamp(rows) = Max({MinRows, capped})
  BY DEF Clamp, capped
<1> QED BY <1>1, <1>3, <1>4, FlowAssumption

(* Integer division, by the inequalities that bound the quotient.          *)
LEMMA Quotient ==
  ASSUME NEW a \in Nat, NEW b \in Nat \ {0}, NEW q \in Nat
  PROVE  /\ a \div b \in Nat
         /\ b * q <= a => q <= a \div b
         /\ a < b * q => a \div b < q
         /\ q <= a \div b => b * q <= a
OBVIOUS

(* A growth step of any factor gives a size. *)
LEMMA GrowthGives ==
  ASSUME NEW rows \in Nat
  PROVE  /\ RoundDiv(rows * Growth[1], Growth[2]) \in Nat
         /\ RoundDiv(rows * Growth[2], Growth[1]) \in Nat
<1> DEFINE g == Growth[1]
           h == Growth[2]
<1>1. g \in Nat \ {0} /\ h \in Nat \ {0}
  BY FlowAssumption
<1> HIDE DEF g, h
<1>2. /\ 2 * (rows * g) + h \in Nat /\ 2 * h \in Nat \ {0}
      /\ 2 * (rows * h) + g \in Nat /\ 2 * g \in Nat \ {0}
  BY <1>1
<1>3. /\ (2 * (rows * g) + h) \div (2 * h) \in Nat
      /\ (2 * (rows * h) + g) \div (2 * g) \in Nat
  BY <1>2, Quotient, 0 \in Nat
<1> QED BY <1>3 DEF RoundDiv, g, h

(* A factor of 1.5 or more moves every size up, and every size but 1 down. *)
LEMMA GrowthMoves ==
  ASSUME 2 * Growth[1] >= 3 * Growth[2], NEW rows \in Nat, rows >= 1
  PROVE  /\ RoundDiv(rows * Growth[1], Growth[2]) > rows
         /\ rows > 1 => RoundDiv(rows * Growth[2], Growth[1]) < rows
<1> DEFINE g == Growth[1]
           h == Growth[2]
           d == g - h
<1>1. g \in Nat \ {0} /\ h \in Nat \ {0} /\ d \in Nat \ {0} /\ g = h + d /\ h <= 2 * d
  BY FlowAssumption
<1> HIDE DEF g, h, d
<1>2. /\ 2 * (rows * g) + h \in Nat /\ 2 * (rows * h) + g \in Nat
      /\ 2 * h \in Nat \ {0} /\ 2 * g \in Nat \ {0}
  BY <1>1
<1>3. rows * g = rows * h + rows * d /\ rows * h \in Nat /\ rows * d \in Nat /\ d <= rows * d
  <2>1. (rows - 1) * d >= 0 /\ (rows - 1) * d = rows * d - d
    BY <1>1
  <2> QED BY <1>1, <2>1
<1>4. (2 * h) * (rows + 1) <= 2 * (rows * g) + h
  <2>1. (2 * h) * (rows + 1) = 2 * (rows * h) + 2 * h
    BY <1>1
  <2> QED BY <1>1, <1>3, <2>1
<1>5. rows > 1 => 2 * (rows * h) + g < (2 * g) * rows
  <2> SUFFICES ASSUME rows > 1
               PROVE  2 * (rows * h) + g < (2 * g) * rows
    OBVIOUS
  <2>1. (2 * g) * rows = 2 * (rows * h) + 2 * (rows * d)
    BY <1>1
  <2>2. 2 * d <= rows * d
    <3>1. (rows - 2) * d >= 0 /\ (rows - 2) * d = rows * d - 2 * d
      BY <1>1
    <3> QED BY <1>1, <1>3, <3>1
  <2> QED BY <1>1, <1>3, <2>1, <2>2
<1>6. /\ rows + 1 <= (2 * (rows * g) + h) \div (2 * h)
      /\ rows > 1 => (2 * (rows * h) + g) \div (2 * g) < rows
      /\ (2 * (rows * g) + h) \div (2 * h) \in Nat
  BY <1>2, <1>4, <1>5, Quotient, rows + 1 \in Nat
<1>7. /\ RoundDiv(rows * Growth[1], Growth[2]) = (2 * (rows * g) + h) \div (2 * h)
      /\ RoundDiv(rows * Growth[2], Growth[1]) = (2 * (rows * h) + g) \div (2 * g)
  BY DEF RoundDiv, g, h
<1> QED BY <1>6, <1>7

(* Clamping lets a step off a bound, or between them, have its effect. *)
LEMMA ClampedStep ==
  ASSUME MinRows < MaxFlowRows, NEW inc \in FlowRows, NEW s \in Nat
  PROVE  /\ Clamp(Max({s, 1})) \in FlowRows
         /\ s > inc /\ inc = MinRows => Clamp(Max({s, 1})) > inc
         /\ s < inc /\ inc > MinRows => Clamp(Max({s, 1})) < inc
<1>1. /\ inc \in Nat /\ inc >= MinRows /\ inc <= MaxFlowRows
      /\ MinRows \in Nat \ {0} /\ MaxFlowRows \in Nat
  BY FlowAssumption DEF FlowRows
<1>2. Max({s, 1}) = (IF s < 1 THEN 1 ELSE s) /\ Max({s, 1}) \in Nat
  BY LargerOfTwo
<1>3. Clamp(Max({s, 1})) = IF Max({s, 1}) < MinRows THEN MinRows
                           ELSE IF Max({s, 1}) > MaxFlowRows THEN MaxFlowRows ELSE Max({s, 1})
  BY <1>2, ClampIs
<1> QED BY <1>1, <1>2, <1>3 DEF FlowRows

(* A ceiling lies above the floor: back_off leaves one only where a size   *)
(* above the floor failed.                                                 *)
CeilingOK(ceil) == ceil \in Nat /\ (ceil = NoCeiling \/ ceil > MinRows)

(* step_from_incumbent stays within the bounds, and under a ceiling there  *)
(* is always one direction in which it moves: up from the floor, down from *)
(* elsewhere.                                                              *)
LEMMA StepMoves ==
  ASSUME MinRows < MaxFlowRows,
         NEW inc \in FlowRows, NEW ceil, CeilingOK(ceil)
  PROVE  /\ Step(inc, "up", ceil) \in FlowRows /\ Step(inc, "down", ceil) \in FlowRows
         /\ ceil # NoCeiling /\ inc = MinRows => Step(inc, "up", ceil) > inc
         /\ ceil # NoCeiling /\ inc > MinRows => Step(inc, "down", ceil) < inc
<1> DEFINE increment == Max({ceil \div CeilingDivisor, 1})
<1>1. /\ inc \in Nat /\ inc >= MinRows /\ inc <= MaxFlowRows
      /\ MinRows \in Nat \ {0} /\ MaxFlowRows \in Nat /\ CeilingDivisor \in Nat \ {0}
      /\ ceil \in Nat
  BY FlowAssumption DEF FlowRows, CeilingOK
<1>2. increment \in Nat /\ increment >= 1
  <2>1. ceil \div CeilingDivisor \in Nat
    BY <1>1, Quotient
  <2> QED BY <2>1, LargerOfTwo
<1> HIDE DEF increment
<1>3. PICK up \in Nat, down \in Nat :
        /\ Step(inc, "up", ceil) = Clamp(Max({up, 1}))
        /\ Step(inc, "down", ceil) = Clamp(Max({down, 1}))
        /\ ceil # NoCeiling /\ inc = MinRows => up > inc
        /\ ceil # NoCeiling /\ inc > MinRows => down < inc
  <2>1. CASE ceil = NoCeiling
    <3> DEFINE u == RoundDiv(inc * Growth[1], Growth[2])
               v == RoundDiv(inc * Growth[2], Growth[1])
    <3>1. u \in Nat /\ v \in Nat
      BY <1>1, GrowthGives
    <3>2. Step(inc, "up", ceil) = Clamp(Max({u, 1})) /\ Step(inc, "down", ceil) = Clamp(Max({v, 1}))
      BY <2>1 DEF Step
    <3> HIDE DEF u, v
    <3> QED BY <2>1, <3>1, <3>2
  <2>2. CASE ceil # NoCeiling
    <3> DEFINE u == Min({inc + increment, ceil})
               v == Max({inc - increment, 0})
    <3>1. u = (IF inc + increment < ceil THEN inc + increment ELSE ceil)
      BY <1>1, <1>2, SmallerOfTwo, inc + increment \in Nat
    <3>2. v = (IF inc < increment THEN 0 ELSE inc - increment)
      <4>1. CASE inc >= increment
        <5>1. inc - increment \in Nat
          BY <1>1, <1>2, <4>1
        <5> QED BY <1>1, <1>2, <4>1, <5>1, LargerOfTwo
      <4>2. CASE inc < increment
        <5>1. Max({inc - increment, 0}) = 0
          BY <1>1, <1>2, <4>2 DEF Max
        <5> QED BY <4>2, <5>1
      <4> QED BY <1>1, <1>2, <4>1, <4>2
    <3>3. /\ Step(inc, "up", ceil) = Clamp(Max({u, 1}))
          /\ Step(inc, "down", ceil) = Clamp(Max({v, 1}))
      BY <2>2 DEF Step, increment
    <3> HIDE DEF u, v
    <3>4. u \in Nat /\ v \in Nat /\ (inc = MinRows => u > inc) /\ (inc > MinRows => v < inc)
      BY <1>1, <1>2, <2>2, <3>1, <3>2 DEF CeilingOK
    <3> QED BY <3>3, <3>4
  <2> QED BY <2>1, <2>2
<1> QED BY <1>3, ClampedStep

(* Both growth steps round to the size they start from. *)
BothRound(inc) == \A d \in {"up", "down"} : Step(inc, d, NoCeiling) = inc

(* propose_candidate proposes the incumbent for want of a step only. *)
LEMMA ProposedMoves ==
  ASSUME MinRows < MaxFlowRows,
         NEW inc \in FlowRows, NEW d \in {"up", "down"}, NEW ceil, CeilingOK(ceil)
  PROVE  /\ Proposed(inc, d, ceil).candidate \in FlowRows
         /\ Proposed(inc, d, ceil).candidate = inc => ceil = NoCeiling /\ BothRound(inc)
         /\ Proposed(inc, d, ceil).direction \in {"up", "down"}
<1>1. /\ Step(inc, "up", ceil) \in FlowRows /\ Step(inc, "down", ceil) \in FlowRows
      /\ ceil # NoCeiling /\ inc = MinRows => Step(inc, "up", ceil) > inc
      /\ ceil # NoCeiling /\ inc > MinRows => Step(inc, "down", ceil) < inc
  BY StepMoves
<1>2. inc \in Nat /\ MinRows \in Nat /\ inc >= MinRows
  BY FlowAssumption DEF FlowRows
<1>3. FlowRows \subseteq Nat
  BY FlowAssumption DEF FlowRows
<1>4. Step(inc, "up", ceil) = inc /\ Step(inc, "down", ceil) = inc => ceil = NoCeiling /\ BothRound(inc)
  BY <1>1, <1>2, <1>3 DEF BothRound
<1>5. /\ Proposed(inc, d, ceil).candidate \in {Step(inc, "up", ceil), Step(inc, "down", ceil)}
      /\ Proposed(inc, d, ceil).direction \in {"up", "down"}
      /\ Proposed(inc, d, ceil).candidate = inc =>
           Step(inc, "up", ceil) = inc /\ Step(inc, "down", ceil) = inc
  BY DEF Proposed, Flipped
<1> QED BY <1>1, <1>4, <1>5

(* Between the bounds, a ceiling above the floor, and a candidate that     *)
(* differs from the incumbent unless no step does.                         *)
FlowInv ==
  MinRows < MaxFlowRows =>
    /\ incumbent \in FlowRows /\ candidate \in FlowRows
    /\ direction \in {"up", "down"}
    /\ CeilingOK(ceiling)
    /\ candidate = incumbent => ceiling = NoCeiling /\ BothRound(incumbent)

(* Proposing from a size within the bounds, under a ceiling above the      *)
(* floor, leaves the search with somewhere to go.                          *)
LEMMA ProposeKeeps ==
  ASSUME NEW inc, NEW d \in {"up", "down"}, NEW ceil,
         MinRows < MaxFlowRows => inc \in FlowRows /\ CeilingOK(ceil),
         incumbent' = inc, ceiling' = ceil, Propose(inc, d, ceil)
  PROVE  FlowInv'
BY ProposedMoves DEF FlowInv, Propose, CeilingOK, FlowRows, NoCeiling

(* back_off leaves a ceiling above the floor and a size within the bounds. *)
LEMMA BackOffKeeps ==
  ASSUME FlowInv, NEW adverse, NEW pending, BackOff(adverse, pending)
  PROVE  FlowInv'
<1> DEFINE failed == Max({TargetRows, incumbent})
           wall   == IF ceiling = NoCeiling THEN failed ELSE Min({ceiling, failed})
           less   == Clamp(Max({(failed * Backoff[2]) \div Backoff[1], 1}))
<1>1. CASE UNCHANGED <<incumbent, candidate, direction, ceiling>>
  BY <1>1 DEF FlowInv, CeilingOK
<1>2. CASE failed > MinRows /\ ceiling' = wall /\ incumbent' = less /\ Propose(less, "down", wall)
  <2>1. ASSUME MinRows < MaxFlowRows PROVE less \in FlowRows /\ CeilingOK(wall)
    <3>1. TargetRows \in Nat /\ incumbent \in Nat /\ ceiling \in Nat
      BY <2>1, FlowAssumption DEF FlowInv, TargetRows, FlowRows, CeilingOK
    <3>2. failed \in Nat
      BY <3>1, LargerOfTwo
    <3> HIDE DEF failed
    <3>3. /\ ceiling # NoCeiling => ceiling > MinRows
          /\ Min({ceiling, failed}) = IF ceiling < failed THEN ceiling ELSE failed
      BY <2>1, <3>1, <3>2, SmallerOfTwo DEF FlowInv, CeilingOK
    <3>4. CeilingOK(wall)
      BY <1>2, <3>1, <3>2, <3>3 DEF CeilingOK
    <3>5. (failed * Backoff[2]) \div Backoff[1] \in Nat
      <4>1. Backoff[1] \in Nat \ {0} /\ Backoff[2] \in Nat
        BY FlowAssumption
      <4>2. failed * Backoff[2] \in Nat
        BY <3>2, <4>1
      <4> QED BY <4>1, <4>2, Quotient
    <3>6. Max({(failed * Backoff[2]) \div Backoff[1], 1}) \in Nat
      BY <3>5, LargerOfTwo
    <3>7. less \in FlowRows
      BY <3>6, ClampIs, FlowAssumption DEF FlowRows
    <3> QED BY <3>4, <3>7
  <2> HIDE DEF failed, wall, less
  <2> QED BY <1>2, <2>1, ProposeKeeps
<1> HIDE DEF FlowInv
<1> QED BY <1>1, <1>2 DEF BackOff

(* The end of an epoch: the candidate takes over, possibly lifting the     *)
(* ceiling it reached, or a new one is proposed.                           *)
LEMMA CloseEpochKeeps ==
  ASSUME FlowInv, NEW slow, NEW pending, NEW incSlow, NEW candSlow, NEW faster,
         MinRows < MaxFlowRows,
         CloseEpoch(slow, pending, incSlow, candSlow, faster)
  PROVE  FlowInv'
<1>1. CASE UNCHANGED <<incumbent, candidate, direction, ceiling>>
  BY <1>1 DEF FlowInv, CeilingOK
<1>2. CASE \E wall \in {NoCeiling, ceiling} :
             incumbent' = candidate /\ ceiling' = wall /\ Propose(candidate, direction, wall)
  <2>1. PICK wall \in {NoCeiling, ceiling} :
             incumbent' = candidate /\ ceiling' = wall /\ Propose(candidate, direction, wall)
    BY <1>2
  <2>2. CeilingOK(wall) /\ candidate \in FlowRows /\ direction \in {"up", "down"}
    BY <2>1 DEF FlowInv, CeilingOK, NoCeiling
  <2> QED BY <2>1, <2>2, ProposeKeeps
<1>3. CASE \E lost \in {"up", "down"} :
             incumbent' = incumbent /\ ceiling' = ceiling /\ Propose(incumbent, lost, ceiling)
  <2>1. CeilingOK(ceiling) /\ incumbent \in FlowRows
    BY DEF FlowInv
  <2> QED BY <1>3, <2>1, ProposeKeeps
<1> HIDE DEF FlowInv
<1> QED BY <1>1, <1>2, <1>3 DEF CloseEpoch, Flipped

(* Every step of the controller keeps it so. *)
LEMMA FlowInvAlways == FlowSpec => []FlowInv
<1>1. FlowInit => FlowInv
  <2> SUFFICES ASSUME FlowInit PROVE FlowInv
    OBVIOUS
  <2>1. Clamp(StartRows) \in FlowRows
    BY ClampIs, FlowAssumption DEF FlowRows
  <2>2. CeilingOK(NoCeiling)
    BY DEF CeilingOK, NoCeiling
  <2> QED BY <2>1, <2>2, ProposedMoves DEF FlowInit, FlowInv
<1>2. FlowInv /\ [FlowNext]_flowVars => FlowInv'
  <2> SUFFICES ASSUME FlowInv, [FlowNext]_flowVars PROVE FlowInv'
    OBVIOUS
  <2>1. CASE UNCHANGED <<incumbent, candidate, direction, ceiling>>
    BY <2>1 DEF FlowInv, CeilingOK
  <2>2. CASE ~(MinRows < MaxFlowRows)
    BY <2>2 DEF FlowInv
  <2>3. ASSUME NEW adverse, NEW pending, BackOff(adverse, pending) PROVE FlowInv'
    BY <2>3, BackOffKeeps
  <2>4. ASSUME NEW slow, NEW pending, NEW incSlow, NEW candSlow, NEW faster,
               CloseEpoch(slow, pending, incSlow, candSlow, faster)
        PROVE  FlowInv'
    BY <2>2, <2>4, CloseEpochKeeps
  <2>5. ASSUME NEW slow, NEW pending, NEW incSlow, CloseRest(slow, pending, incSlow)
        PROVE  FlowInv'
    <3>1. CASE UNCHANGED <<incumbent, candidate, direction, ceiling>>
      BY <2>1, <3>1
    <3>2. CASE \E d \in {"down", direction} :
                 incumbent' = incumbent /\ ceiling' = ceiling /\ Propose(incumbent, d, ceiling)
      <4>1. MinRows < MaxFlowRows =>
              CeilingOK(ceiling) /\ incumbent \in FlowRows /\ direction \in {"up", "down"}
        BY DEF FlowInv
      <4> QED BY <2>2, <3>2, <4>1, ProposeKeeps
    <3> HIDE DEF FlowInv
    <3> QED BY <2>5, <3>1, <3>2 DEF CloseRest
  <2> HIDE DEF FlowInv
  <2> QED BY <2>1, <2>3, <2>4, <2>5 DEF FlowNext, flowVars, Cool, Idle, Measure
<1> QED BY <1>1, <1>2, PTL DEF FlowSpec

(* For every range, start, growth and back-off factor, and whatever the    *)
(* passes report and back_off, close_epoch and close_rest_epoch make of    *)
(* it, the controller ends up with a candidate equal to its incumbent only *)
(* where there is one admissible size, or where no ceiling stands and both *)
(* growth steps round to the incumbent.                                    *)
THEOREM SearchStopsOnlyByRounding == FlowSpec => []StallsOnlyByRounding
<1>1. FlowInv => StallsOnlyByRounding
  BY FlowAssumption DEF FlowInv, StallsOnlyByRounding, BothRound
<1> QED BY <1>1, FlowInvAlways, PTL

(* With a growth factor of at least 1.5 (the default is 2.0) nothing       *)
(* rounds to where it started, and the search never stops between two      *)
(* different bounds, as the header of flow.rs says of every factor.        *)
THEOREM SearchGoesOn ==
  ASSUME 2 * Growth[1] >= 3 * Growth[2]
  PROVE  FlowSpec => [](MinRows < MaxFlowRows => candidate # incumbent)
<1>1. ASSUME MinRows < MaxFlowRows, NEW inc \in FlowRows
      PROVE  ~BothRound(inc)
  <2> DEFINE u == RoundDiv(inc * Growth[1], Growth[2])
             v == RoundDiv(inc * Growth[2], Growth[1])
  <2>1. inc \in Nat /\ inc >= MinRows /\ MinRows \in Nat /\ MinRows >= 1
    BY FlowAssumption DEF FlowRows
  <2>2. u \in Nat /\ v \in Nat /\ u > inc /\ (inc > 1 => v < inc)
    BY <2>1, GrowthGives, GrowthMoves
  <2>3. /\ Step(inc, "up", NoCeiling) = Clamp(Max({u, 1}))
        /\ Step(inc, "down", NoCeiling) = Clamp(Max({v, 1}))
    BY DEF Step
  <2> HIDE DEF u, v
  <2>4. /\ inc = MinRows => Clamp(Max({u, 1})) > inc
        /\ inc > MinRows => Clamp(Max({v, 1})) < inc
    BY <1>1, <2>1, <2>2, ClampedStep
  <2> QED BY <2>1, <2>3, <2>4 DEF BothRound
<1>2. FlowInv => (MinRows < MaxFlowRows => candidate # incumbent)
  BY <1>1 DEF FlowInv
<1> QED BY <1>2, FlowInvAlways, PTL

----------------------------------------------------------------------------
(***************************************************************************)
(* Proofs about the transport: answers reach the call they answer, and a   *)
(* snapshot is installed whole or not at all.                              *)
(***************************************************************************)

Requests == [id : Nat, chunk : 0 .. Chunks]

(* The first n chunks of a snapshot. *)
FirstChunks(n) == [k \in 1 .. n |-> k]

(* The request a call waits for. *)
Pending(c) == [id |-> call[c].id, chunk |-> call[c].sent]

(* A connection carries at most one request or answer at a time. *)
Flight == {<<>>} \cup {<<r>> : r \in Requests}
OneInFlight == \A s \in Streams : asks[s] = <<>> \/ answers[s] = <<>>

TransportType ==
  /\ opened \in 0 .. MaxStreams
  /\ calls \in Nat
  /\ idle \in Seq(1 .. opened)
  /\ live \subseteq 1 .. opened
  /\ asks \in [Streams -> Flight]
  /\ answers \in [Streams -> Flight]
  /\ partial \in [Streams -> Seq(Nat)]
  /\ call \in [Callers -> [kind : {"none", "rpc", "snapshot"}, id : Nat,
                           stream : 0 .. opened, sent : 0 .. Chunks]]

(* A stream that is not connected yet carries nothing, and the peer keeps  *)
(* no chunks of one it closed.                                             *)
Quiet(s) == asks[s] = <<>> /\ answers[s] = <<>> /\ partial[s] = <<>>

QuietStreams ==
  /\ \A s \in Streams : s > opened => Quiet(s)
  /\ \A s \in Streams : s \notin live => partial[s] = <<>>

(* The pool holds every stream once, and only streams nothing is left on.  *)
PoolIsQuiet ==
  /\ \A j, k \in 1 .. Len(idle) : idle[j] = idle[k] => j = k
  /\ \A k \in 1 .. Len(idle) : Quiet(idle[k])

(* A call has its stream for itself and nothing but its own request on it. *)
OwnStream(c) ==
  call[c].kind # "none" =>
    /\ call[c].stream # 0
    /\ \A k \in 1 .. Len(idle) : idle[k] # call[c].stream
    /\ \A d \in Callers \ {c} : call[d].kind # "none" => call[d].stream # call[c].stream
    /\ asks[call[c].stream] # <<>> => asks[call[c].stream] = <<Pending(c)>>
    /\ answers[call[c].stream] # <<>> => answers[call[c].stream] = <<Pending(c)>>
    /\ call[c].sent = 0 <=> call[c].kind = "rpc"

CallsOwnStreams == \A c \in Callers : OwnStream(c)

(* The chunks the peer holds once it has served, or before it serves, the  *)
(* one request on a connection.                                            *)
HeldBefore(s) == \A r \in Requests : asks[s] = <<r>> =>
  /\ r.chunk = 0 => partial[s] = <<>>
  /\ r.chunk # 0 /\ s \in live /\ ~evicted => partial[s] = FirstChunks(r.chunk - 1)

HeldAfter(s) == \A r \in Requests : answers[s] = <<r>> =>
  /\ r.chunk \in {0, Chunks} => partial[s] = <<>>
  /\ r.chunk \notin {0, Chunks} /\ s \in live /\ ~evicted => partial[s] = FirstChunks(r.chunk)

TransportInv ==
  /\ TransportType /\ OneInFlight /\ QuietStreams /\ PoolIsQuiet /\ CallsOwnStreams
  /\ \A s \in Streams : HeldBefore(s) /\ HeldAfter(s)
  /\ SnapshotsAreWhole

----------------------------------------------------------------------------
(* One request on a connection. *)
LEMMA OneRequest ==
  ASSUME NEW r
  PROVE  /\ Head(<<r>>) = r /\ Tail(<<r>>) = <<>> /\ Append(<<>>, r) = <<r>>
         /\ <<r>> # <<>>
         /\ \A q : <<r>> = <<q>> => r = q
OBVIOUS

(* One more chunk. *)
LEMMA OneMoreChunk ==
  ASSUME NEW n \in Nat
  PROVE  Append(FirstChunks(n), n + 1) = FirstChunks(n + 1)
<1>1. FirstChunks(n) \in Seq(Nat) /\ FirstChunks(n + 1) \in Seq(Nat)
      /\ Len(FirstChunks(n)) = n /\ Len(FirstChunks(n + 1)) = n + 1
  BY DEF FirstChunks
<1>2. \A k \in 1 .. n + 1 : Append(FirstChunks(n), n + 1)[k] = FirstChunks(n + 1)[k]
  BY <1>1 DEF FirstChunks
<1>3. Append(FirstChunks(n), n + 1) \in Seq(Nat) /\ Len(Append(FirstChunks(n), n + 1)) = n + 1
  BY <1>1
<1>4. \A s \in Seq(Nat) : s = [k \in 1 .. Len(s) |-> s[k]]
  OBVIOUS
<1>5. FirstChunks(n + 1) = [k \in 1 .. n + 1 |-> FirstChunks(n + 1)[k]]
  BY <1>1, <1>4
<1>6. Append(FirstChunks(n), n + 1) = [k \in 1 .. n + 1 |-> Append(FirstChunks(n), n + 1)[k]]
  BY <1>3, <1>4
<1> QED BY <1>2, <1>5, <1>6

LEMMA NoChunks == FirstChunks(0) = <<>>
BY DEF FirstChunks

LEMMA InitInv == TransportInit => TransportInv
<1> SUFFICES ASSUME TransportInit PROVE TransportInv
  OBVIOUS
<1> USE TransportAssumption DEF TransportInit
<1>1. TransportType
  <2>1. NoCall \in [kind : {"none", "rpc", "snapshot"}, id : Nat, stream : 0 .. 0,
                    sent : 0 .. Chunks]
    BY DEF NoCall
  <2>2. <<>> \in Flight
    BY DEF Flight
  <2>3. idle \in Seq(1 .. opened) /\ opened \in 0 .. MaxStreams /\ live \subseteq 1 .. opened
    OBVIOUS
  <2>4. partial \in [Streams -> Seq(Nat)]
    OBVIOUS
  <2> QED BY <2>1, <2>2, <2>3, <2>4 DEF TransportType
<1>2. OneInFlight /\ QuietStreams
  BY DEF OneInFlight, QuietStreams, Quiet
<1>3. PoolIsQuiet /\ CallsOwnStreams
  BY DEF PoolIsQuiet, CallsOwnStreams, OwnStream, NoCall
<1>4. \A s \in Streams : HeldBefore(s) /\ HeldAfter(s)
  BY OneRequest DEF HeldBefore, HeldAfter
<1> QED BY <1>1, <1>2, <1>3, <1>4 DEF TransportInv, SnapshotsAreWhole

(* Streams in the pool, and streams of calls, are connected ones. *)
LEMMA PooledStream ==
  ASSUME TransportInv, NEW k \in 1 .. Len(idle)
  PROVE  idle[k] \in Streams /\ idle[k] <= opened
<1>1. idle \in Seq(1 .. opened) /\ opened \in 0 .. MaxStreams
  BY DEF TransportInv, TransportType
<1>2. idle[k] \in 1 .. opened
  BY <1>1
<1> QED BY <1>1, <1>2, TransportAssumption DEF Streams

LEMMA CallStream ==
  ASSUME TransportInv, NEW c \in Callers, call[c].kind # "none"
  PROVE  call[c].stream \in Streams /\ call[c].stream <= opened
<1>1. call[c].stream \in 0 .. opened /\ opened \in 0 .. MaxStreams
  BY DEF TransportInv, TransportType
<1>2. call[c].stream # 0
  BY DEF TransportInv, CallsOwnStreams, OwnStream
<1> QED BY <1>1, <1>2, TransportAssumption DEF Streams

(* Streams and calls that a step does not concern. *)
LEMMA OtherStream ==
  ASSUME TransportInv, NEW x \in Streams, asks'[x] = asks[x], answers'[x] = answers[x],
         partial'[x] = partial[x], x \in live' => x \in live, evicted => evicted'
  PROVE  HeldBefore(x)' /\ HeldAfter(x)'
BY DEF TransportInv, HeldBefore, HeldAfter

LEMMA OtherCall ==
  ASSUME TransportInv, NEW d \in Callers, call[d].kind # "none", call'[d] = call[d],
         asks'[call[d].stream] \in {<<>>, asks[call[d].stream]},
         answers'[call[d].stream] \in {<<>>, answers[call[d].stream]},
         \A k \in 1 .. Len(idle') : idle'[k] # call[d].stream,
         \A e \in Callers \ {d} : call'[e].kind # "none" => call'[e].stream # call[d].stream
  PROVE  OwnStream(d)'
<1>1. Pending(d)' = Pending(d)
  BY DEF Pending
<1>2. /\ call[d].stream # 0
      /\ call[d].sent = 0 <=> call[d].kind = "rpc"
      /\ asks[call[d].stream] # <<>> => asks[call[d].stream] = <<Pending(d)>>
      /\ answers[call[d].stream] # <<>> => answers[call[d].stream] = <<Pending(d)>>
  BY DEF TransportInv, CallsOwnStreams, OwnStream
<1> QED BY <1>1, <1>2 DEF OwnStream

(* The rest of a sequence. *)
LEMMA RestOf ==
  ASSUME NEW S, NEW seq \in Seq(S), NEW k \in 1 .. Len(seq)
  PROVE  /\ SubSeq(seq, k + 1, Len(seq)) \in Seq(S)
         /\ Len(SubSeq(seq, k + 1, Len(seq))) = Len(seq) - k
         /\ \A j \in 1 .. (Len(seq) - k) :
              SubSeq(seq, k + 1, Len(seq))[j] = seq[k + j] /\ k + j \in 1 .. Len(seq)
OBVIOUS

(* What a call that begins finds and leaves: a quiet stream of its own,    *)
(* with its first frame on it.                                             *)
LEMMA BeginStep ==
  ASSUME TransportInv, NEW c \in Callers, NEW kind \in {"rpc", "snapshot"},
         NEW s \in Streams, Begin(c, kind, s), Send(c, s), Quiet(s),
         opened' \in opened .. MaxStreams, s <= opened',
         idle' \in Seq(1 .. opened'),
         live' \subseteq 1 .. opened', live \subseteq live',
         \A x \in live' : x \in live \/ x = s,
         \A k \in 1 .. Len(idle') : idle'[k] # s,
         \A k \in 1 .. Len(idle') : \E j \in 1 .. Len(idle) : idle'[k] = idle[j],
         \A j, k \in 1 .. Len(idle') : idle'[j] = idle'[k] => j = k,
         \A d \in Callers : call[d].kind # "none" => call[d].stream # s
  PROVE  TransportInv'
<1> DEFINE r == [id |-> calls + 1, chunk |-> IF kind = "snapshot" THEN 1 ELSE 0]
<1>1. /\ call' = [call EXCEPT ![c] = [kind |-> kind, id |-> calls + 1, stream |-> s,
                                     sent |-> IF kind = "snapshot" THEN 1 ELSE 0]]
      /\ calls' = calls + 1 /\ call[c].kind = "none"
  BY DEF Begin
<1>2. asks' = [asks EXCEPT ![s] = Append(@, r)]
  BY <1>1 DEF Send, Request, TransportInv, TransportType
<1>3. UNCHANGED <<answers, partial, installed, stale, evicted>>
  BY DEF Send
<1>4. r \in Requests /\ r.id = calls + 1 /\ r.chunk = IF kind = "snapshot" THEN 1 ELSE 0
  BY TransportAssumption DEF Requests, TransportInv, TransportType
<1>5. asks'[s] = <<r>> /\ \A x \in Streams : x # s => asks'[x] = asks[x]
  BY <1>2, OneRequest DEF Quiet, TransportInv, TransportType
<1> HIDE DEF r
<1>6. TransportType'
  <2>1. asks' \in [Streams -> Flight]
    BY <1>2, <1>4, <1>5 DEF TransportInv, TransportType, Flight
  <2>2. call' \in [Callers -> [kind : {"none", "rpc", "snapshot"}, id : Nat,
                           stream : 0 .. opened', sent : 0 .. Chunks]]
    <3> DEFINE Record(o) == [kind : {"none", "rpc", "snapshot"}, id : Nat,
                             stream : 0 .. o, sent : 0 .. Chunks]
               begun == [kind |-> kind, id |-> calls + 1, stream |-> s,
                         sent |-> IF kind = "snapshot" THEN 1 ELSE 0]
    <3>1. /\ calls \in Nat /\ opened \in Nat /\ opened' \in Nat /\ opened <= opened'
          /\ s \in Nat /\ Chunks \in Nat \ {0} /\ MaxStreams \in Nat
      BY TransportAssumption DEF TransportInv, TransportType, Streams
    <3>2. begun \in Record(opened')
      <4>1. s \in 0 .. opened' /\ calls + 1 \in Nat /\ 0 \in 0 .. Chunks /\ 1 \in 0 .. Chunks
        BY <3>1
      <4> QED BY <4>1
    <3>3. Record(opened) \subseteq Record(opened')
      <4>1. 0 .. opened \subseteq 0 .. opened'
        BY <3>1
      <4> QED BY <4>1
    <3>4. call \in [Callers -> Record(opened)] /\ call' = [call EXCEPT ![c] = begun]
      BY <1>1 DEF TransportInv, TransportType
    <3> HIDE DEF Record, begun
    <3>5. call' \in [Callers -> Record(opened')]
      BY <3>2, <3>3, <3>4
    <3> QED BY <3>5 DEF Record
  <2>3. calls' \in Nat /\ answers' \in [Streams -> Flight] /\ partial' \in [Streams -> Seq(Nat)]
    BY <1>1, <1>3 DEF TransportInv, TransportType
  <2>4. opened' \in 0 .. MaxStreams
    BY DEF TransportInv, TransportType
  <2> QED BY <2>1, <2>2, <2>3, <2>4 DEF TransportType
<1>7. OneInFlight'
  BY <1>3, <1>5 DEF TransportInv, OneInFlight, Quiet
<1>8. \A x \in Streams : Quiet(x) /\ x # s => Quiet(x)'
  BY <1>3, <1>5 DEF Quiet
<1>9. QuietStreams'
  <2>1. \A x \in Streams : x > opened' => Quiet(x)'
    <3> SUFFICES ASSUME NEW x \in Streams, x > opened'
                 PROVE  Quiet(x)'
      OBVIOUS
    <3>1. x > opened /\ x # s
      BY DEF Streams, TransportInv, TransportType
    <3> QED BY <3>1, <1>8 DEF TransportInv, QuietStreams
  <2>2. \A x \in Streams : x \notin live' => partial'[x] = <<>>
    BY <1>3 DEF TransportInv, QuietStreams
  <2> QED BY <2>1, <2>2 DEF QuietStreams
<1>10. PoolIsQuiet'
  <2>1. ASSUME NEW k \in 1 .. Len(idle')
        PROVE  asks'[idle'[k]] = <<>> /\ answers'[idle'[k]] = <<>> /\ partial'[idle'[k]] = <<>>
    <3>1. PICK j \in 1 .. Len(idle) : idle'[k] = idle[j]
      OBVIOUS
    <3>2. idle[j] \in Streams /\ idle[j] # s
      BY <3>1, PooledStream
    <3>3. Quiet(idle[j])
      BY DEF TransportInv, PoolIsQuiet
    <3> QED BY <3>1, <3>2, <3>3, <1>3, <1>5 DEF Quiet
  <2> QED BY <2>1 DEF PoolIsQuiet, Quiet
<1>11. CallsOwnStreams'
  <2> SUFFICES ASSUME NEW d \in Callers, call'[d].kind # "none"
               PROVE  OwnStream(d)'
    BY DEF CallsOwnStreams, OwnStream
  <2>1. CASE d = c
    <3>1. call'[d] = [kind |-> kind, id |-> calls + 1, stream |-> s,
                      sent |-> IF kind = "snapshot" THEN 1 ELSE 0]
      BY <1>1, <2>1 DEF TransportInv, TransportType
    <3>2. Pending(d)' = r
      BY <3>1 DEF Pending, r
    <3>3. \A e \in Callers \ {d} : call'[e] = call[e]
      BY <1>1, <2>1 DEF TransportInv, TransportType
    <3> QED BY <3>1, <3>2, <3>3, <1>3, <1>5 DEF Quiet, Streams, OwnStream
  <2>2. CASE d # c
    <3>1. call'[d] = call[d] /\ call[d].stream # s
      BY <1>1, <2>2 DEF TransportInv, TransportType
    <3>2. call[d].stream \in Streams
      BY <3>1, CallStream
    <3>3. \A e \in Callers \ {d} : call'[e].kind # "none" => call'[e].stream # call[d].stream
      BY <1>1, <3>1 DEF TransportInv, TransportType, CallsOwnStreams, OwnStream
    <3>4. \A k \in 1 .. Len(idle') : idle'[k] # call[d].stream
      BY <3>1 DEF TransportInv, CallsOwnStreams, OwnStream
    <3> QED BY <3>1, <3>2, <3>3, <3>4, <1>3, <1>5, OtherCall
  <2> QED BY <2>1, <2>2
<1>12. ASSUME NEW x \in Streams
       PROVE  HeldBefore(x)' /\ HeldAfter(x)'
  <2>1. CASE x = s
    <3>1. partial'[x] = <<>> /\ answers'[x] = <<>> /\ asks'[x] = <<r>>
      BY <2>1, <1>3, <1>5 DEF Quiet
    <3>2. HeldAfter(x)'
      BY <3>1, OneRequest DEF HeldAfter
    <3>3. FirstChunks(r.chunk - 1) = <<>> \/ r.chunk = 0
      BY <1>4, NoChunks
    <3> QED BY <3>1, <3>2, <3>3, OneRequest DEF HeldBefore
  <2>2. CASE x # s
    BY <2>2, <1>3, <1>5, OtherStream
  <2> QED BY <2>1, <2>2
<1> QED BY <1>3, <1>6, <1>7, <1>9, <1>10, <1>11, <1>12 DEF TransportInv, SnapshotsAreWhole

(* A call over a stream of the pool, or over a new one. *)
LEMMA CallStep ==
  ASSUME TransportInv, NEW c \in Callers, NEW kind \in {"rpc", "snapshot"},
         CallPooled(c, kind) \/ CallConnected(c, kind)
  PROVE  TransportInv'
<1>1. /\ idle \in Seq(1 .. opened) /\ opened \in 0 .. MaxStreams /\ live \subseteq 1 .. opened
  BY DEF TransportInv, TransportType
<1>2. CASE CallPooled(c, kind)
  <2>1. PICK k \in 1 .. Len(idle) :
               /\ idle[k] \in live
               /\ idle' = SubSeq(idle, k + 1, Len(idle))
               /\ Begin(c, kind, idle[k]) /\ Send(c, idle[k])
               /\ UNCHANGED <<opened, live>>
    BY <1>2 DEF CallPooled
  <2>2. idle[k] \in Streams /\ idle[k] <= opened /\ Quiet(idle[k])
    BY PooledStream DEF TransportInv, PoolIsQuiet
  <2>3. /\ idle' \in Seq(1 .. opened)
        /\ Len(idle') = Len(idle) - k
        /\ \A j \in 1 .. Len(idle') : idle'[j] = idle[k + j] /\ k + j \in 1 .. Len(idle)
    BY <1>1, <2>1, RestOf
  <2>4. \A i, j \in 1 .. Len(idle) : idle[i] = idle[j] => i = j
    BY DEF TransportInv, PoolIsQuiet
  <2>5. ASSUME NEW j \in 1 .. Len(idle')
        PROVE  idle'[j] # idle[k]
    <3>1. idle'[j] = idle[k + j] /\ k + j \in 1 .. Len(idle) /\ k + j # k
      BY <1>1, <2>3
    <3> QED BY <2>4, <3>1
  <2>6. ASSUME NEW i \in 1 .. Len(idle'), NEW j \in 1 .. Len(idle'), idle'[i] = idle'[j]
        PROVE  i = j
    <3>1. k + i \in 1 .. Len(idle) /\ k + j \in 1 .. Len(idle) /\ idle[k + i] = idle[k + j]
      BY <2>3, <2>6
    <3>2. k + i = k + j
      BY <3>1, <2>4
    <3> QED BY <3>2, <2>3, <1>1
  <2>7. \A d \in Callers : call[d].kind # "none" => call[d].stream # idle[k]
    BY DEF TransportInv, CallsOwnStreams, OwnStream
  <2>8. \A j \in 1 .. Len(idle') : \E i \in 1 .. Len(idle) : idle'[j] = idle[i]
    BY <2>3
  <2>9. opened' \in opened .. MaxStreams
    BY <1>1, <2>1
  <2> QED BY <1>1, <2>1, <2>2, <2>3, <2>5, <2>6, <2>7, <2>8, <2>9, BeginStep
<1>3. CASE CallConnected(c, kind)
  <2> DEFINE s == opened + 1
  <2>1. /\ opened' = s /\ live' = live \cup {s} /\ idle' = <<>>
        /\ Begin(c, kind, s) /\ Send(c, s) /\ s \in Streams /\ s > opened
    BY <1>1, <1>3, TransportAssumption DEF CallConnected, Streams
  <2>2. Quiet(s)
    BY <2>1 DEF TransportInv, QuietStreams
  <2>3. \A d \in Callers : call[d].kind # "none" => call[d].stream # s
    BY <1>1, <2>1, CallStream DEF Streams
  <2>4. opened' \in opened .. MaxStreams /\ s <= opened' /\ live' \subseteq 1 .. opened'
    BY <1>1, <2>1 DEF Streams
  <2>5. idle' \in Seq(1 .. opened') /\ \A k \in 1 .. Len(idle') : FALSE
    BY <2>1
  <2>6. live \subseteq live' /\ \A x \in live' : x \in live \/ x = s
    BY <2>1
  <2> HIDE DEF s
  <2>7. /\ \A k \in 1 .. Len(idle') : idle'[k] # s
        /\ \A k \in 1 .. Len(idle') : \E j \in 1 .. Len(idle) : idle'[k] = idle[j]
        /\ \A j, k \in 1 .. Len(idle') : idle'[j] = idle'[k] => j = k
    BY <2>5
  <2> QED BY <2>1, <2>2, <2>3, <2>4, <2>5, <2>6, <2>7, BeginStep
<1> QED BY <1>2, <1>3

(* A call that got its last answer gives its stream back, empty. *)
LEMMA FinishStep ==
  ASSUME TransportInv, NEW c \in Callers, Answered(c), call[c].sent \in {0, Chunks},
         Consume(c), idle' = Release(call[c].stream),
         call' = [call EXCEPT ![c] = NoCall], Kept
  PROVE  TransportInv'
<1>0. PICK s : s = call[c].stream
  OBVIOUS
<1>1. call[c].kind # "none" /\ answers[s] # <<>>
  BY <1>0 DEF Answered
<1>2. s \in Streams /\ s <= opened
  BY <1>0, <1>1, CallStream
<1>3. answers[s] = <<Pending(c)>> /\ asks[s] = <<>>
  BY <1>0, <1>1, <1>2 DEF TransportInv, CallsOwnStreams, OwnStream, OneInFlight
<1>4. Pending(c) \in Requests /\ Pending(c).chunk \in {0, Chunks}
  BY DEF Pending, Requests, TransportInv, TransportType
<1>5. partial[s] = <<>>
  BY <1>2, <1>3, <1>4 DEF TransportInv, HeldAfter
<1>6. UNCHANGED <<opened, live, asks, partial, calls, installed, stale, evicted>>
  BY DEF Kept
<1>7. answers' = [answers EXCEPT ![s] = <<>>]
  BY <1>0, <1>3, OneRequest DEF Consume
<1>8. Quiet(s)' /\ \A x \in Streams : Quiet(x) => Quiet(x)'
  <2>1. answers'[s] = <<>> /\ \A x \in Streams : x # s => answers'[x] = answers[x]
    BY <1>2, <1>7 DEF TransportInv, TransportType
  <2> QED BY <2>1, <1>3, <1>5, <1>6 DEF Quiet
<1>9. /\ idle \in Seq(1 .. opened) /\ opened \in 0 .. MaxStreams
      /\ s \in 1 .. opened
  BY <1>2 DEF TransportInv, TransportType, Streams
<1>10. idle' = idle \/ idle' = Append(idle, s)
  BY <1>0 DEF Release
<1>11. /\ idle' \in Seq(1 .. opened)
       /\ \A k \in 1 .. Len(idle') :
            \/ k \in 1 .. Len(idle) /\ idle'[k] = idle[k]
            \/ k = Len(idle) + 1 /\ idle'[k] = s
  <2>1. CASE idle' = idle
    BY <2>1, <1>9
  <2>2. CASE idle' = Append(idle, s)
    BY <2>2, <1>9
  <2> QED BY <2>1, <2>2, <1>10
<1>12. call'[c] = NoCall /\ \A d \in Callers : d # c => call'[d] = call[d]
  BY DEF TransportInv, TransportType
<1>13. TransportType'
  <2>1. answers' \in [Streams -> Flight]
    BY <1>7 DEF TransportInv, TransportType, Flight
  <2>2. call' \in [Callers -> [kind : {"none", "rpc", "snapshot"}, id : Nat,
                           stream : 0 .. opened, sent : 0 .. Chunks]]
    BY <1>9, TransportAssumption DEF NoCall, TransportInv, TransportType
  <2> QED BY <2>1, <2>2, <1>6, <1>11 DEF TransportInv, TransportType
<1>14. OneInFlight'
  BY <1>6, <1>7 DEF TransportInv, TransportType, OneInFlight
<1>15. QuietStreams'
  BY <1>6, <1>8 DEF TransportInv, QuietStreams
<1>16. PoolIsQuiet'
  <2>1. ASSUME NEW k \in 1 .. Len(idle')
        PROVE  asks'[idle'[k]] = <<>> /\ answers'[idle'[k]] = <<>> /\ partial'[idle'[k]] = <<>>
    <3>1. CASE k \in 1 .. Len(idle) /\ idle'[k] = idle[k]
      BY <3>1, <1>8, PooledStream DEF TransportInv, PoolIsQuiet, Quiet
    <3>2. CASE idle'[k] = s
      BY <3>2, <1>8 DEF Quiet
    <3> QED BY <3>1, <3>2, <1>11
  <2>2. \A k \in 1 .. Len(idle) : idle[k] # s
    BY <1>0, <1>1 DEF TransportInv, CallsOwnStreams, OwnStream
  <2>3. \A j, k \in 1 .. Len(idle) : idle[j] = idle[k] => j = k
    BY DEF TransportInv, PoolIsQuiet
  <2>4. \A j, k \in 1 .. Len(idle') : idle'[j] = idle'[k] => j = k
    BY <2>2, <2>3, <1>11
  <2> QED BY <2>1, <2>4 DEF PoolIsQuiet, Quiet
<1>17. CallsOwnStreams'
  <2> SUFFICES ASSUME NEW d \in Callers, call'[d].kind # "none"
               PROVE  OwnStream(d)'
    BY DEF CallsOwnStreams, OwnStream
  <2>1. d # c /\ call'[d] = call[d]
    BY <1>12 DEF NoCall
  <2>2. call[d].stream # s /\ call[d].stream \in Streams
    BY <1>0, <1>1, <2>1, CallStream DEF TransportInv, CallsOwnStreams, OwnStream
  <2>3. \A e \in Callers \ {d} : call'[e].kind # "none" => call'[e].stream # call[d].stream
    BY <1>12, <2>1 DEF TransportInv, CallsOwnStreams, OwnStream, NoCall
  <2>4. \A k \in 1 .. Len(idle') : idle'[k] # call[d].stream
    BY <1>11, <2>1, <2>2 DEF TransportInv, CallsOwnStreams, OwnStream
  <2>5. asks'[call[d].stream] = asks[call[d].stream] /\ answers'[call[d].stream] = answers[call[d].stream]
    BY <1>6, <1>7, <2>2 DEF TransportInv, TransportType
  <2> QED BY <2>1, <2>2, <2>3, <2>4, <2>5, OtherCall
<1>18. ASSUME NEW x \in Streams
       PROVE  HeldBefore(x)' /\ HeldAfter(x)'
  <2>1. CASE x = s
    BY <2>1, <1>8, OneRequest DEF HeldBefore, HeldAfter, Quiet
  <2>2. CASE x # s
    <3>1. answers'[x] = answers[x]
      BY <2>2, <1>7 DEF TransportInv, TransportType
    <3> QED BY <3>1, <1>6, OtherStream
  <2> QED BY <2>1, <2>2
<1> QED BY <1>6, <1>13, <1>14, <1>15, <1>16, <1>17, <1>18 DEF TransportInv, SnapshotsAreWhole

(* A call that is dropped takes its stream with it. *)
LEMMA DropStep ==
  ASSUME TransportInv, NEW c \in Callers, call' = [call EXCEPT ![c] = NoCall],
         UNCHANGED <<idle, answers>>, Kept
  PROVE  TransportInv'
<1>1. UNCHANGED <<opened, live, asks, partial, calls, installed, stale, evicted>>
  BY DEF Kept
<1>2. call'[c] = NoCall /\ \A d \in Callers : d # c => call'[d] = call[d]
  BY DEF TransportInv, TransportType
<1>3. TransportType'
  <2>1. call' \in [Callers -> [kind : {"none", "rpc", "snapshot"}, id : Nat,
                           stream : 0 .. opened, sent : 0 .. Chunks]]
    BY TransportAssumption DEF NoCall, TransportInv, TransportType
  <2> QED BY <2>1, <1>1 DEF TransportInv, TransportType
<1>4. OneInFlight' /\ QuietStreams' /\ PoolIsQuiet'
  BY <1>1 DEF TransportInv, OneInFlight, QuietStreams, PoolIsQuiet, Quiet
<1>5. CallsOwnStreams'
  <2> SUFFICES ASSUME NEW d \in Callers, call'[d].kind # "none"
               PROVE  OwnStream(d)'
    BY DEF CallsOwnStreams, OwnStream
  <2>1. d # c /\ call'[d] = call[d]
    BY <1>2 DEF NoCall
  <2>2. \A e \in Callers \ {d} : call'[e].kind # "none" => call'[e].stream # call[d].stream
    BY <1>2, <2>1 DEF TransportInv, CallsOwnStreams, OwnStream, NoCall
  <2>3. \A k \in 1 .. Len(idle') : idle'[k] # call[d].stream
    BY <2>1 DEF TransportInv, CallsOwnStreams, OwnStream
  <2> QED BY <2>1, <2>2, <2>3, <1>1, OtherCall
<1>6. ASSUME NEW x \in Streams
      PROVE  HeldBefore(x)' /\ HeldAfter(x)'
  BY <1>1, OtherStream
<1> QED BY <1>1, <1>3, <1>4, <1>5, <1>6 DEF TransportInv, SnapshotsAreWhole

(* The next chunk follows the acknowledgement of the one before it. *)
LEMMA NextChunkStep ==
  ASSUME TransportInv, NEW c \in Callers, NextChunk(c)
  PROVE  TransportInv'
<1>0. PICK s : s = call[c].stream
  OBVIOUS
<1>1. /\ call[c].kind = "snapshot" /\ answers[s] # <<>> /\ call[c].sent < Chunks
      /\ UNCHANGED <<idle, opened, live, partial, calls, installed, stale, evicted>>
      /\ call' = [call EXCEPT ![c].sent = @ + 1]
  BY <1>0 DEF NextChunk, Answered
<1>2. s \in Streams /\ s <= opened
  BY <1>0, <1>1, CallStream
<1>3. answers[s] = <<Pending(c)>> /\ asks[s] = <<>>
  BY <1>0, <1>1, <1>2 DEF TransportInv, CallsOwnStreams, OwnStream, OneInFlight
<1>4. call[c].sent \in 1 .. Chunks - 1 /\ call[c].id \in Nat
  <2>1. call[c].sent \in 0 .. Chunks /\ call[c].id \in Nat
    BY DEF TransportInv, TransportType
  <2>2. call[c].sent # 0
    BY <1>1 DEF TransportInv, CallsOwnStreams, OwnStream
  <2> QED BY <2>1, <2>2, <1>1, TransportAssumption
<1>5. PICK r : r = [id |-> call[c].id, chunk |-> call[c].sent + 1]
  OBVIOUS
<1>6. r \in Requests /\ r.chunk = call[c].sent + 1 /\ r.chunk # 0
  BY <1>4, <1>5, TransportAssumption DEF Requests
<1>7. /\ call'[c] = [call[c] EXCEPT !.sent = @ + 1]
      /\ \A d \in Callers : d # c => call'[d] = call[d]
  BY <1>1 DEF TransportInv, TransportType
<1>8. /\ call'[c].kind = "snapshot" /\ call'[c].stream = s
      /\ call'[c].id = call[c].id /\ call'[c].sent = call[c].sent + 1
  BY <1>0, <1>1, <1>7 DEF TransportInv, TransportType
<1>9. Pending(c)' = r /\ Request(c) = r
  BY <1>5, <1>8 DEF Pending, Request
<1>10. /\ answers' = [answers EXCEPT ![s] = <<>>]
       /\ asks' = [asks EXCEPT ![s] = <<r>>]
  BY <1>0, <1>3, <1>9, OneRequest DEF NextChunk, Consume
<1>11. /\ asks'[s] = <<r>> /\ answers'[s] = <<>>
       /\ \A x \in Streams : x # s => asks'[x] = asks[x] /\ answers'[x] = answers[x]
  BY <1>2, <1>10 DEF TransportInv, TransportType
<1>12. TransportType'
  <2>1. asks' \in [Streams -> Flight] /\ answers' \in [Streams -> Flight]
    BY <1>6, <1>10 DEF TransportInv, TransportType, Flight
  <2>2. call' \in [Callers -> [kind : {"none", "rpc", "snapshot"}, id : Nat,
                           stream : 0 .. opened, sent : 0 .. Chunks]]
    <3>1. call[c].sent + 1 \in 0 .. Chunks
      BY <1>4, TransportAssumption
    <3> QED BY <1>1, <3>1 DEF TransportInv, TransportType
  <2> QED BY <2>1, <2>2, <1>1 DEF TransportInv, TransportType
<1>13. OneInFlight'
  BY <1>11 DEF TransportInv, OneInFlight
<1>14. \A x \in Streams : Quiet(x) => x # s /\ Quiet(x)'
  BY <1>1, <1>3, <1>11, OneRequest DEF Quiet
<1>15. QuietStreams'
  BY <1>1, <1>14 DEF TransportInv, QuietStreams
<1>16. PoolIsQuiet'
  <2>1. \A k \in 1 .. Len(idle) : Quiet(idle[k]) /\ idle[k] \in Streams
    BY PooledStream DEF TransportInv, PoolIsQuiet
  <2>2. \A k \in 1 .. Len(idle) :
          asks'[idle[k]] = <<>> /\ answers'[idle[k]] = <<>> /\ partial'[idle[k]] = <<>>
    BY <2>1, <1>14 DEF Quiet
  <2> QED BY <2>2, <1>1 DEF TransportInv, PoolIsQuiet, Quiet
<1>17. CallsOwnStreams'
  <2> SUFFICES ASSUME NEW d \in Callers, call'[d].kind # "none"
               PROVE  OwnStream(d)'
    BY DEF CallsOwnStreams, OwnStream
  <2>1. \A e \in Callers : call'[e].kind = call[e].kind /\ call'[e].stream = call[e].stream
    BY <1>0, <1>1, <1>7, <1>8
  <2>2. \A e \in Callers \ {d} : call'[e].kind # "none" => call'[e].stream # call[d].stream
    BY <2>1 DEF TransportInv, CallsOwnStreams, OwnStream
  <2>3. \A k \in 1 .. Len(idle') : idle'[k] # call[d].stream
    BY <1>1, <2>1 DEF TransportInv, CallsOwnStreams, OwnStream
  <2>4. CASE d = c
    <3>1. call'[d].sent # 0 /\ s # 0
      BY <2>4, <1>2, <1>4, <1>8 DEF Streams
    <3> QED BY <2>1, <2>2, <2>3, <2>4, <3>1, <1>0, <1>8, <1>9, <1>11 DEF OwnStream
  <2>5. CASE d # c
    <3>1. call[d].stream # s /\ call[d].stream \in Streams
      BY <1>0, <1>1, <2>1, <2>5, CallStream DEF TransportInv, CallsOwnStreams, OwnStream
    <3> QED BY <2>1, <2>2, <2>3, <2>5, <3>1, <1>7, <1>11, OtherCall
  <2> QED BY <2>4, <2>5
<1>18. ASSUME NEW x \in Streams
       PROVE  HeldBefore(x)' /\ HeldAfter(x)'
  <2>1. CASE x = s
    <3>1. Pending(c) \in Requests /\ Pending(c).chunk = call[c].sent
      BY <1>4, TransportAssumption DEF Pending, Requests
    <3>2. s \in live /\ ~evicted => partial[s] = FirstChunks(call[c].sent)
      BY <1>2, <1>3, <1>4, <3>1 DEF TransportInv, HeldAfter
    <3>3. HeldAfter(x)'
      BY <2>1, <1>11, OneRequest DEF HeldAfter
    <3>4. r.chunk - 1 = call[c].sent
      BY <1>4, <1>6
    <3> QED BY <2>1, <3>2, <3>3, <3>4, <1>1, <1>6, <1>11, OneRequest DEF HeldBefore
  <2>2. CASE x # s
    BY <2>2, <1>1, <1>11, OtherStream
  <2> QED BY <2>1, <2>2
<1> QED BY <1>1, <1>12, <1>13, <1>15, <1>16, <1>17, <1>18 DEF TransportInv, SnapshotsAreWhole

(* The peer serves the one request of a connection. *)
LEMMA ServeStep ==
  ASSUME TransportInv, NEW s \in Streams, ServeRpc(s) \/ ServeChunk(s) \/ ServeFinal(s)
  PROVE  TransportInv'
<1>1. /\ s \in live /\ asks[s] # <<>>
      /\ asks' = [asks EXCEPT ![s] = Tail(@)]
      /\ answers' = [answers EXCEPT ![s] = Append(@, Head(asks[s]))]
      /\ UNCHANGED <<circuit, elapsed, idle, opened, live, call, calls>>
  BY DEF ServeRpc, ServeChunk, ServeFinal, Serve
<1>2. PICK r \in Requests : asks[s] = <<r>>
  BY <1>1 DEF TransportInv, TransportType, Flight
<1>3. answers[s] = <<>>
  BY <1>1 DEF TransportInv, OneInFlight
<1>4. /\ asks' = [asks EXCEPT ![s] = <<>>] /\ answers' = [answers EXCEPT ![s] = <<r>>]
      /\ Head(asks[s]) = r
  BY <1>1, <1>2, <1>3, OneRequest
<1>5. /\ asks'[s] = <<>> /\ answers'[s] = <<r>>
      /\ \A x \in Streams : x # s => asks'[x] = asks[x] /\ answers'[x] = answers[x]
  BY <1>4 DEF TransportInv, TransportType
<1>6. /\ ~evicted /\ r.chunk # 0 => partial[s] = FirstChunks(r.chunk - 1)
      /\ r.chunk = 0 => partial[s] = <<>>
  BY <1>1, <1>2 DEF TransportInv, HeldBefore
<1>7. r.chunk \in Nat
  BY TransportAssumption DEF Requests
<1>8. ~evicted /\ r.chunk # 0 => Append(partial[s], r.chunk) = FirstChunks(r.chunk)
  <2>1. r.chunk # 0 => r.chunk - 1 \in Nat /\ (r.chunk - 1) + 1 = r.chunk
    BY <1>7
  <2> QED BY <2>1, <1>6, OneMoreChunk
<1>9. /\ partial' \in [Streams -> Seq(Nat)]
      /\ \A x \in Streams : x # s => partial'[x] = partial[x]
      /\ r.chunk \in {0, Chunks} => partial'[s] = <<>>
      /\ r.chunk \notin {0, Chunks} /\ ~evicted' => partial'[s] = FirstChunks(r.chunk)
      /\ evicted => evicted'
      /\ SnapshotsAreWhole'
  <2>1. partial \in [Streams -> Seq(Nat)]
    BY DEF TransportInv, TransportType
  <2>2. CASE ServeRpc(s)
    <3>1. UNCHANGED <<partial, installed, evicted>> /\ r.chunk = 0
      BY <1>4, <2>2 DEF ServeRpc
    <3> QED BY <3>1, <2>1, <1>6 DEF TransportInv, SnapshotsAreWhole
  <2>3. CASE ServeChunk(s)
    <3>1. /\ r.chunk \in 1 .. Chunks - 1
          /\ partial' = [partial EXCEPT ![s] =
               IF s \in stale THEN <<r.chunk>> ELSE Append(partial[s], r.chunk)]
          /\ evicted' = (evicted \/ s \in stale) /\ UNCHANGED installed
      BY <1>4, <2>3 DEF ServeChunk, Held
    <3>2. <<r.chunk>> \in Seq(Nat) /\ Append(partial[s], r.chunk) \in Seq(Nat)
      BY <1>7, <2>1
    <3>3. partial' \in [Streams -> Seq(Nat)] /\ \A x \in Streams : x # s => partial'[x] = partial[x]
      BY <2>1, <3>1, <3>2
    <3>4. r.chunk \notin {0, Chunks}
      BY <3>1, TransportAssumption
    <3>5. ASSUME ~evicted'
          PROVE  partial'[s] = FirstChunks(r.chunk)
      BY <3>1, <3>4, <3>5, <2>1, <1>8
    <3>6. SnapshotsAreWhole'
      BY <3>1 DEF TransportInv, SnapshotsAreWhole
    <3> QED BY <3>1, <3>3, <3>4, <3>5, <3>6
  <2>4. CASE ServeFinal(s)
    <3>1. /\ r.chunk = Chunks
          /\ partial' = [partial EXCEPT ![s] = <<>>]
          /\ installed' = installed \cup {Append(partial[s], r.chunk)} /\ UNCHANGED evicted
      BY <1>4, <2>4 DEF ServeFinal, Held
    <3>2. SnapshotsAreWhole'
      BY <3>1, <1>8, TransportAssumption DEF TransportInv, SnapshotsAreWhole, FirstChunks
    <3> QED BY <3>1, <3>2, <2>1
  <2> QED BY <2>2, <2>3, <2>4
<1>10. TransportType'
  <2>1. asks' \in [Streams -> Flight] /\ answers' \in [Streams -> Flight]
    BY <1>4 DEF TransportInv, TransportType, Flight
  <2> QED BY <2>1, <1>1, <1>9 DEF TransportInv, TransportType
<1>11. OneInFlight'
  BY <1>5 DEF TransportInv, OneInFlight
<1>12. \A x \in Streams : Quiet(x) => x # s /\ Quiet(x)'
  BY <1>1, <1>5, <1>9 DEF Quiet
<1>13. QuietStreams'
  <2>1. \A x \in Streams : x > opened' => Quiet(x)'
    BY <1>1, <1>12 DEF TransportInv, QuietStreams
  <2>2. \A x \in Streams : x \notin live' => partial'[x] = <<>>
    BY <1>1, <1>9 DEF TransportInv, QuietStreams
  <2> QED BY <2>1, <2>2 DEF QuietStreams
<1>14. PoolIsQuiet'
  <2>1. \A k \in 1 .. Len(idle) : Quiet(idle[k]) /\ idle[k] \in Streams
    BY PooledStream DEF TransportInv, PoolIsQuiet
  <2>2. \A k \in 1 .. Len(idle) :
          asks'[idle[k]] = <<>> /\ answers'[idle[k]] = <<>> /\ partial'[idle[k]] = <<>>
    BY <2>1, <1>12 DEF Quiet
  <2> QED BY <2>2, <1>1 DEF TransportInv, PoolIsQuiet, Quiet
<1>15. CallsOwnStreams'
  <2> SUFFICES ASSUME NEW d \in Callers, call'[d].kind # "none"
               PROVE  OwnStream(d)'
    BY DEF CallsOwnStreams, OwnStream
  <2>1. /\ call[d].kind # "none" /\ call[d].stream \in Streams
        /\ OwnStream(d)
    BY <1>1, CallStream DEF TransportInv, CallsOwnStreams, OwnStream
  <2>2. CASE call[d].stream = s
    <3>1. r = Pending(d)
      BY <2>1, <2>2, <1>1, <1>2, OneRequest DEF OwnStream
    <3>2. Pending(d)' = Pending(d)
      BY <1>1 DEF Pending
    <3> QED BY <2>1, <2>2, <3>1, <3>2, <1>1, <1>5 DEF OwnStream
  <2>3. CASE call[d].stream # s
    <3>1. Pending(d)' = Pending(d)
      BY <1>1 DEF Pending
    <3> QED BY <2>1, <2>3, <3>1, <1>1, <1>5 DEF OwnStream
  <2> QED BY <2>2, <2>3
<1>16. ASSUME NEW x \in Streams
       PROVE  HeldBefore(x)' /\ HeldAfter(x)'
  <2>1. CASE x = s
    <3>1. HeldBefore(x)'
      BY <2>1, <1>5, OneRequest DEF HeldBefore
    <3>2. HeldAfter(x)'
      BY <2>1, <1>5, <1>9, OneRequest DEF HeldAfter
    <3> QED BY <3>1, <3>2
  <2>2. CASE x # s
    BY <2>2, <1>1, <1>5, <1>9, OtherStream
  <2> QED BY <2>1, <2>2
<1> QED BY <1>9, <1>10, <1>11, <1>13, <1>14, <1>15, <1>16 DEF TransportInv

(* The peer closes a connection. *)
LEMMA CloseStep ==
  ASSUME TransportInv, NEW s \in Streams, PeerCloses(s)
  PROVE  TransportInv'
<1>1. /\ live' = live \ {s}
      /\ asks' = [asks EXCEPT ![s] = <<>>] /\ partial' = [partial EXCEPT ![s] = <<>>]
      /\ UNCHANGED <<circuit, elapsed, idle, opened, answers, call, calls, installed, evicted>>
  BY DEF PeerCloses
<1>2. /\ asks'[s] = <<>> /\ partial'[s] = <<>>
      /\ \A x \in Streams : x # s => asks'[x] = asks[x] /\ partial'[x] = partial[x]
  BY <1>1 DEF TransportInv, TransportType
<1>3. TransportType'
  <2>1. asks' \in [Streams -> Flight] /\ partial' \in [Streams -> Seq(Nat)]
    BY <1>1 DEF TransportInv, TransportType, Flight
  <2> QED BY <2>1, <1>1 DEF TransportInv, TransportType
<1>4. \A x \in Streams : Quiet(x) => Quiet(x)'
  BY <1>1, <1>2 DEF Quiet
<1>5. OneInFlight' /\ QuietStreams'
  BY <1>1, <1>2, <1>4 DEF TransportInv, OneInFlight, QuietStreams
<1>6. PoolIsQuiet'
  <2>1. \A k \in 1 .. Len(idle) : Quiet(idle[k]) /\ idle[k] \in Streams
    BY PooledStream DEF TransportInv, PoolIsQuiet
  <2>2. \A k \in 1 .. Len(idle) :
          asks'[idle[k]] = <<>> /\ answers'[idle[k]] = <<>> /\ partial'[idle[k]] = <<>>
    BY <2>1, <1>4 DEF Quiet
  <2> QED BY <2>2, <1>1 DEF TransportInv, PoolIsQuiet, Quiet
<1>7. CallsOwnStreams'
  <2> SUFFICES ASSUME NEW d \in Callers, call'[d].kind # "none"
               PROVE  OwnStream(d)'
    BY DEF CallsOwnStreams, OwnStream
  <2>1. call[d].kind # "none" /\ call[d].stream \in Streams
    BY <1>1, CallStream
  <2>2. /\ \A k \in 1 .. Len(idle') : idle'[k] # call[d].stream
        /\ \A e \in Callers \ {d} : call'[e].kind # "none" => call'[e].stream # call[d].stream
    BY <1>1, <2>1 DEF TransportInv, CallsOwnStreams, OwnStream
  <2>3. asks'[call[d].stream] \in {<<>>, asks[call[d].stream]}
    BY <1>2, <2>1
  <2> QED BY <1>1, <2>1, <2>2, <2>3, OtherCall
<1>8. ASSUME NEW x \in Streams
      PROVE  HeldBefore(x)' /\ HeldAfter(x)'
  <2>1. CASE x = s
    <3>1. HeldBefore(x)'
      BY <2>1, <1>2, OneRequest DEF HeldBefore
    <3>2. HeldAfter(x)'
      BY <2>1, <1>1, <1>2 DEF HeldAfter
    <3> QED BY <3>1, <3>2
  <2>2. CASE x # s
    BY <2>2, <1>1, <1>2, OtherStream
  <2> QED BY <2>1, <2>2
<1> QED BY <1>1, <1>3, <1>5, <1>6, <1>7, <1>8 DEF TransportInv, SnapshotsAreWhole

(* A broken stream leaves the pool, with the older ones; nothing else      *)
(* moves but the breaker and the count of calls.                           *)
LEMMA BrokenStep ==
  ASSUME TransportInv, NEW c \in Callers, NEW kind \in {"rpc", "snapshot"}, CallBroken(c, kind)
  PROVE  TransportInv'
<1>1. PICK k \in 1 .. Len(idle) :
        /\ idle' = SubSeq(idle, k + 1, Len(idle)) /\ calls' = calls + 1
        /\ UNCHANGED <<opened, live, asks, answers, partial, call, installed, stale, evicted>>
  BY DEF CallBroken
<1>2. idle \in Seq(1 .. opened) /\ opened \in 0 .. MaxStreams /\ calls \in Nat
  BY DEF TransportInv, TransportType
<1>3. /\ idle' \in Seq(1 .. opened)
      /\ Len(idle') = Len(idle) - k
      /\ \A j \in 1 .. Len(idle') : idle'[j] = idle[k + j] /\ k + j \in 1 .. Len(idle)
  BY <1>1, <1>2, RestOf
<1>4. TransportType'
  <2>1. calls' \in Nat /\ idle' \in Seq(1 .. opened)
    BY <1>1, <1>2, <1>3
  <2> QED BY <2>1, <1>1 DEF TransportInv, TransportType
<1>5. OneInFlight' /\ QuietStreams'
  BY <1>1 DEF TransportInv, OneInFlight, QuietStreams, Quiet
<1>6. PoolIsQuiet'
  <2>1. ASSUME NEW i \in 1 .. Len(idle'), NEW j \in 1 .. Len(idle'), idle'[i] = idle'[j]
        PROVE  i = j
    <3>1. k + i \in 1 .. Len(idle) /\ k + j \in 1 .. Len(idle) /\ idle[k + i] = idle[k + j]
      BY <1>3, <2>1
    <3>2. k + i = k + j
      BY <3>1 DEF TransportInv, PoolIsQuiet
    <3> QED BY <3>2, <1>2, <1>3
  <2>2. \A j \in 1 .. Len(idle') : Quiet(idle[k + j])
    BY <1>3 DEF TransportInv, PoolIsQuiet
  <2> QED BY <2>1, <2>2, <1>1, <1>3 DEF PoolIsQuiet, Quiet
<1>7. CallsOwnStreams'
  <2> SUFFICES ASSUME NEW d \in Callers, call'[d].kind # "none"
               PROVE  OwnStream(d)'
    BY DEF CallsOwnStreams, OwnStream
  <2>1. /\ \A j \in 1 .. Len(idle') : idle'[j] # call[d].stream
        /\ \A e \in Callers \ {d} : call'[e].kind # "none" => call'[e].stream # call[d].stream
    BY <1>1, <1>3 DEF TransportInv, CallsOwnStreams, OwnStream
  <2> QED BY <2>1, <1>1, OtherCall
<1>8. ASSUME NEW x \in Streams
      PROVE  HeldBefore(x)' /\ HeldAfter(x)'
  BY <1>1, OtherStream
<1> QED BY <1>1, <1>4, <1>5, <1>6, <1>7, <1>8 DEF TransportInv, SnapshotsAreWhole

(* Steps that change neither streams nor calls. *)
LEMMA ElseStep ==
  ASSUME TransportInv,
         UNCHANGED <<idle, opened, live, asks, answers, partial, call, calls, installed, evicted>>
  PROVE  TransportInv'
<1>1. TransportType' /\ OneInFlight' /\ QuietStreams' /\ PoolIsQuiet'
  BY DEF TransportInv, TransportType, OneInFlight, QuietStreams, PoolIsQuiet, Quiet
<1>2. CallsOwnStreams'
  BY DEF TransportInv, CallsOwnStreams, OwnStream, Pending
<1>3. ASSUME NEW x \in Streams
      PROVE  HeldBefore(x)' /\ HeldAfter(x)'
  BY OtherStream
<1> QED BY <1>1, <1>2, <1>3 DEF TransportInv, SnapshotsAreWhole

LEMMA StepInv == TransportInv /\ [TransportNext]_transportVars => TransportInv'
<1> SUFFICES ASSUME TransportInv, [TransportNext]_transportVars PROVE TransportInv'
  OBVIOUS
<1>1. ASSUME NEW c \in Callers, NEW kind \in {"rpc", "snapshot"},
             CallPooled(c, kind) \/ CallConnected(c, kind) \/ CallBroken(c, kind)
      PROVE  TransportInv'
  BY <1>1, CallStep, BrokenStep
<1>2. ASSUME NEW c \in Callers, Receive(c)
      PROVE  TransportInv'
  <2>1. call[c].sent = 0
    BY <1>2 DEF Receive, Answered, TransportInv, CallsOwnStreams, OwnStream
  <2> QED BY <1>2, <2>1, FinishStep DEF Receive
<1>3. ASSUME NEW c \in Callers, SnapshotDone(c)
      PROVE  TransportInv'
  BY <1>3, FinishStep DEF SnapshotDone
<1>4. ASSUME NEW c \in Callers, GiveUp(c) \/ Reset(c)
      PROVE  TransportInv'
  BY <1>4, DropStep DEF GiveUp, Reset
<1>5. ASSUME NEW c \in Callers, Client(c)
      PROVE  TransportInv'
  BY <1>1, <1>2, <1>3, <1>4, <1>5, NextChunkStep DEF Client
<1>6. ASSUME NEW s \in Streams, Peer(s)
      PROVE  TransportInv'
  BY <1>6, ServeStep, CloseStep, ElseStep DEF Peer, Stall
<1>7. CASE OpenPeriodPasses \/ UNCHANGED transportVars
  BY <1>7, ElseStep DEF OpenPeriodPasses, transportVars
<1> QED BY <1>5, <1>6, <1>7 DEF TransportNext

LEMMA AlwaysTransportInv == TransportSpec => []TransportInv
BY InitInv, StepInv, PTL DEF TransportSpec

(***************************************************************************)
(* Whatever is under way on the stream of a call is its own, for any       *)
(* number of callers, calls and connections, any pool and any loss of      *)
(* calls and connections.                                                  *)
(***************************************************************************)
THEOREM AnswersReachTheirCall == TransportSpec => []AnswersAreOwn
<1>1. TransportInv => AnswersAreOwn
  <2> SUFFICES ASSUME TransportInv PROVE AnswersAreOwn
    OBVIOUS
  <2>1. idle \in Seq(1 .. opened)
    BY DEF TransportInv, TransportType
  <2>2. ToSet(idle) = {idle[k] : k \in 1 .. Len(idle)}
    BY <2>1 DEF ToSet
  <2>3. \A r : ToSet(<<r>>) = {r}
    BY DEF ToSet
  <2>4. ToSet(<<>>) = {}
    BY DEF ToSet
  <2>5. ASSUME NEW c \in Callers, call[c].kind # "none"
        PROVE  /\ call[c].stream \notin ToSet(idle)
               /\ \A r \in ToSet(asks[call[c].stream]) \cup ToSet(answers[call[c].stream]) :
                    r.id = call[c].id
               /\ \A d \in Callers \ {c} :
                    call[d].kind # "none" => call[d].stream # call[c].stream
    <3>1. \A r \in ToSet(asks[call[c].stream]) \cup ToSet(answers[call[c].stream]) :
            r = Pending(c)
      <4>1. /\ asks[call[c].stream] \in {<<>>, <<Pending(c)>>}
            /\ answers[call[c].stream] \in {<<>>, <<Pending(c)>>}
        BY <2>5 DEF TransportInv, CallsOwnStreams, OwnStream
      <4>2. /\ ToSet(asks[call[c].stream]) \in {{}, {Pending(c)}}
            /\ ToSet(answers[call[c].stream]) \in {{}, {Pending(c)}}
        BY <4>1, <2>3, <2>4
      <4> QED BY <4>2
    <3>2. Pending(c).id = call[c].id
      BY DEF Pending
    <3> QED BY <2>2, <2>5, <3>1, <3>2 DEF TransportInv, CallsOwnStreams, OwnStream
  <2>6. \A s \in ToSet(idle) : asks[s] = <<>> /\ answers[s] = <<>> /\ partial[s] = <<>>
    BY <2>2 DEF TransportInv, PoolIsQuiet, Quiet
  <2> QED BY <2>5, <2>6 DEF AnswersAreOwn
<1> QED BY <1>1, AlwaysTransportInv, PTL

(***************************************************************************)
(* Unless a transfer was evicted, the peer only ever installs a snapshot   *)
(* that is all its chunks in order, for any number of chunks, callers,     *)
(* dropped transfers and lost connections.                                 *)
(***************************************************************************)
THEOREM SnapshotsArriveWhole == TransportSpec => []SnapshotsAreWhole
<1>1. TransportInv => SnapshotsAreWhole
  BY DEF TransportInv
<1> QED BY <1>1, AlwaysTransportInv, PTL

(***************************************************************************)
(* The windows.                                                            *)
(***************************************************************************)

(* A finite, non-empty set of integers has a greatest element, ... *)
LEMMA GreatestExists ==
  ASSUME NEW S \in SUBSET Int, IsFiniteSet(S), S # {}
  PROVE  \E x \in S : \A y \in S : x >= y
<1> DEFINE n == Cardinality(S)
<1>1. n \in Nat /\ ExistsBijection(1..n, S)
  BY FS_CardinalityType
<1> HIDE DEF n
<1>2. PICK f \in [1..n -> S] : \A y \in S : \E i \in 1..n : f[i] = y
  BY <1>1 DEF ExistsBijection, Bijection, Injection, Surjection, IsInjective
<1>8. ASSUME NEW j \in 1..n PROVE f[j] \in Int
  <2>1. f[j] \in S
    BY <1>2
  <2> QED BY <2>1
<1> DEFINE Top(m) == \E i \in 1..m : \A j \in 1..m : f[i] >= f[j]
           P == {m \in Nat : m + 1 <= n => Top(m + 1)}
<1>3. n # 0
  <2>1. PICK y \in S : TRUE
    OBVIOUS
  <2> QED BY <2>1, <1>2
<1>4. 0 \in P
  <2>1. Top(0 + 1)
    <3>1. 1 \in 1..n /\ f[1] \in Int /\ 1..(0 + 1) = {1}
      BY <1>1, <1>8, <1>3
    <3> QED BY <3>1
  <2> QED BY <2>1
<1>5. ASSUME NEW m \in Nat, m \in P
      PROVE  m + 1 \in P
  <2> SUFFICES ASSUME m + 2 <= n PROVE Top(m + 2)
    BY <1>1
  <2>1. Top(m + 1)
    BY <1>1, <1>5
  <2>5. PICK i \in 1..(m + 1) : \A j \in 1..(m + 1) : f[i] >= f[j]
    BY <2>1
  <2>2. \A j \in 1..(m + 2) : f[j] \in Int /\ (j = m + 2 \/ j \in 1..(m + 1))
    BY <1>1, <1>8
  <2>6. i \in 1..(m + 2) /\ m + 2 \in 1..(m + 2)
    OBVIOUS
  <2>3. CASE f[i] >= f[m + 2]
    <3>1. \A j \in 1..(m + 2) : f[i] >= f[j]
      BY <2>5, <2>2, <2>3
    <3> QED BY <3>1, <2>6
  <2>4. CASE ~(f[i] >= f[m + 2])
    <3>1. \A j \in 1..(m + 2) : f[m + 2] >= f[j]
      BY <2>5, <2>2, <2>4, <2>6
    <3> QED BY <3>1, <2>6
  <2> QED BY <2>3, <2>4
<1> HIDE DEF P
<1>6. Nat \subseteq P
  BY <1>4, <1>5, NatSetInduction
<1>7. Top(n)
  <2>1. n - 1 \in P
    BY <1>1, <1>3, <1>6
  <2> QED BY <1>1, <1>3, <2>1 DEF P
<1> QED BY <1>2, <1>7

(* ... which Max returns, ... *)
LEMMA MaxOfFinite ==
  ASSUME NEW S \in SUBSET Int, IsFiniteSet(S), S # {}
  PROVE  Max(S) \in S /\ \A y \in S : Max(S) >= y
BY GreatestExists DEF Max

(* ... and a least one. *)
LEMMA MinOfFinite ==
  ASSUME NEW S \in SUBSET Int, IsFiniteSet(S), S # {}
  PROVE  Min(S) \in S /\ \A y \in S : Min(S) <= y
<1> DEFINE D == {-y : y \in S}
<1>1. D \in SUBSET Int
  OBVIOUS
<1>6. D # {}
  <2>1. PICK y \in S : TRUE
    OBVIOUS
  <2>2. -y \in D
    OBVIOUS
  <2> QED BY <2>2
<1>2. IsFiniteSet(D)
  <2> DEFINE f == [y \in S |-> -y]
  <2>1. f \in Surjection(S, D)
    BY DEF Surjection
  <2> QED BY <2>1, FS_Surjection
<1>3. PICK d \in D : \A y \in D : d >= y
  BY <1>1, <1>2, <1>6, GreatestExists
<1>4. PICK x \in S : d = -x
  OBVIOUS
<1>5. \A y \in S : x <= y
  BY <1>3, <1>4
<1> QED BY <1>4, <1>5 DEF Min

Timed == [ts : Stamps, key : Hashes]

(* The partition filter, as Groups uses it. *)
Mine(o, key) == NumInstances > 1 => Keeps(o, key)

(* Every key has one instance. *)
LEMMA OneOwner ==
  ASSUME NEW key \in Hashes
  PROVE  /\ \E o \in Ordinals : Mine(o, key)
         /\ \A o, p \in Ordinals : Mine(o, key) /\ Mine(p, key) => o = p
<1> USE GeometryAssumption
<1>1. key % NumInstances \in Ordinals
  BY DEF Ordinals
<1>2. 0 \in Ordinals
  BY DEF Ordinals
<1>3. \E o \in Ordinals : Mine(o, key)
  BY <1>1, <1>2 DEF Mine, Keeps
<1>4. ASSUME NEW o \in Ordinals, NEW p \in Ordinals, Mine(o, key), Mine(p, key)
      PROVE  o = p
  <2>1. CASE NumInstances > 1
    BY <1>4, <2>1 DEF Mine, Keeps
  <2>2. CASE ~(NumInstances > 1)
    BY <2>2 DEF Ordinals
  <2> QED BY <2>1, <2>2
<1> QED BY <1>3, <1>4

(* A group holds rows of its instance, its key and its window, ... *)
LEMMA GroupHolds ==
  ASSUME NEW o \in Ordinals, NEW kept \in SUBSET Timed, NEW g \in Groups(o, kept)
  PROVE  /\ g.late = Late(o, g.window, g.key)
         /\ g.rows # {}
         /\ \A r \in g.rows : /\ r \in kept /\ Mine(o, r.key) /\ r.key = g.key
                              /\ g.window \in WindowsOf(r, kept)
<1> DEFINE mine   == {r \in kept : NumInstances > 1 => Keeps(o, r.key)}
           placed == UNION {{[window |-> w, row |-> r] : w \in WindowsOf(r, kept)} : r \in mine}
           Same(p) == {q.row : q \in {q \in placed : q.window = p.window /\ q.row.key = p.row.key}}
<1>1. PICK p \in placed :
        g = [window |-> p.window, key |-> p.row.key, rows |-> Same(p),
             late |-> Late(o, p.window, p.row.key)]
  BY DEF Groups
<1>2. ASSUME NEW q \in placed
      PROVE  q.row \in kept /\ Mine(o, q.row.key) /\ q.window \in WindowsOf(q.row, kept)
  <2>1. PICK r \in mine : \E w \in WindowsOf(r, kept) : q = [window |-> w, row |-> r]
    OBVIOUS
  <2> QED BY <2>1 DEF Mine
<1> HIDE DEF placed, mine
<1>3. p.row \in Same(p)
  BY <1>1
<1>4. ASSUME NEW r \in Same(p)
      PROVE  r \in kept /\ Mine(o, r.key) /\ r.key = p.row.key /\ p.window \in WindowsOf(r, kept)
  BY <1>2, <1>4
<1> QED BY <1>1, <1>3, <1>4

(* ... and all of them. *)
LEMMA GroupOf ==
  ASSUME NEW o \in Ordinals, NEW kept \in SUBSET Timed, NEW r \in kept, Mine(o, r.key),
         NEW w \in WindowsOf(r, kept)
  PROVE  \E g \in Groups(o, kept) :
           /\ g.window = w /\ g.key = r.key
           /\ \A s \in kept : s.key = r.key /\ w \in WindowsOf(s, kept) => s \in g.rows
<1> DEFINE mine   == {q \in kept : NumInstances > 1 => Keeps(o, q.key)}
           placed == UNION {{[window |-> v, row |-> q] : v \in WindowsOf(q, kept)} : q \in mine}
           Same(p) == {q.row : q \in {q \in placed : q.window = p.window /\ q.row.key = p.row.key}}
           p == [window |-> w, row |-> r]
           g == [window |-> p.window, key |-> p.row.key, rows |-> Same(p),
                 late |-> Late(o, p.window, p.row.key)]
<1>1. ASSUME NEW s \in kept, s.key = r.key, w \in WindowsOf(s, kept)
      PROVE  [window |-> w, row |-> s] \in placed
  <2>1. s \in mine
    BY <1>1 DEF Mine
  <2> QED BY <2>1, <1>1
<1>2. p \in placed
  BY <1>1
<1>3. g \in Groups(o, kept)
  BY <1>2 DEF Groups
<1> HIDE DEF placed, mine
<1>4. ASSUME NEW s \in kept, s.key = r.key, w \in WindowsOf(s, kept)
      PROVE  s \in Same(p)
  <2> DEFINE q == [window |-> w, row |-> s]
  <2>1. q \in placed /\ q.window = p.window /\ q.row.key = p.row.key /\ q.row = s
    BY <1>1, <1>4
  <2> QED BY <2>1
<1> QED BY <1>3, <1>4

Geometries == {"tumbling", "sliding", "session"}

(* Every row has a window. *)
LEMMA SomeWindow ==
  ASSUME geometry \in Geometries, NEW kept \in SUBSET Timed, NEW r \in kept
  PROVE  WindowsOf(r, kept) # {}
<1>1. CASE geometry = "sliding"
  <2> DEFINE k == (Size + Slide - 1) \div Slide
  <2>1. k \in Int /\ k >= 1
    BY GeometryAssumption
  <2>2. 0 \in 0..(k - 1)
    BY <2>1
  <2>3. AssignSliding(r.ts) # {}
    BY <2>2 DEF AssignSliding
  <2> QED BY <1>1, <2>3 DEF WindowsOf
<1> QED BY <1>1 DEF WindowsOf, Geometries

(* The rows the engine drops. *)
Beyond(rows) == {r \in rows : IsBeyondLateness(mark, r.ts)}

(* An instance may return an empty side output, but some instance returns  *)
(* the whole of it.                                                        *)
LEMMA EngineDrops ==
  ASSUME geometry \in Geometries, NEW rows \in SUBSET Timed, RunEngine(rows)
  PROVE  AllDropped' = Beyond(rows)
<1> DEFINE kept == rows \ Beyond(rows)
<1>1. \A o \in Ordinals :
        results'[o].dropped = IF kept # {} /\ Groups(o, kept) = {} THEN {} ELSE Beyond(rows)
  BY DEF RunEngine, Beyond
<1>2. \E o \in Ordinals : ~(kept # {} /\ Groups(o, kept) = {})
  <2>1. CASE kept = {}
    <3>1. 0 \in Ordinals
      BY GeometryAssumption DEF Ordinals
    <3> QED BY <3>1, <2>1
  <2>2. CASE kept # {}
    <3>1. PICK r \in kept : TRUE
      BY <2>2
    <3>2. r.key \in Hashes /\ kept \in SUBSET Timed
      BY <3>1 DEF Timed
    <3>3. PICK o \in Ordinals : Mine(o, r.key)
      BY <3>2, OneOwner
    <3>4. PICK w \in WindowsOf(r, kept) : TRUE
      BY <3>1, <3>2, SomeWindow
    <3>5. Groups(o, kept) # {}
      BY <3>1, <3>2, <3>3, <3>4, GroupOf
    <3> QED BY <3>3, <3>5
  <2> QED BY <2>1, <2>2
<1> HIDE DEF kept
<1>3. AllDropped' = UNION {results'[o].dropped : o \in Ordinals}
  BY DEF AllDropped
<1> QED BY <1>1, <1>2, <1>3

(* What an arrival that is not empty brings. *)
LEMMA StampsOf ==
  ASSUME NEW rows \in SUBSET Timed, rows # {}
  PROVE  LET stamps == {r.ts : r \in rows}
         IN  /\ stamps \in SUBSET Stamps
             /\ Max(stamps) \in stamps
             /\ \A r \in rows : r.ts <= Max(stamps)
<1> DEFINE stamps == {r.ts : r \in rows}
<1>1. stamps \in SUBSET Stamps /\ stamps # {}
  BY DEF Timed
<1>2. IsFiniteSet(stamps) /\ stamps \in SUBSET Int
  BY <1>1, GeometryAssumption, FS_Subset
<1>3. Max(stamps) \in stamps /\ \A y \in stamps : Max(stamps) >= y
  BY <1>1, <1>2, MaxOfFinite
<1>4. \A r \in rows : r.ts \in stamps
  OBVIOUS
<1> HIDE DEF stamps
<1>5. \A y \in stamps : y \in Int /\ y <= Max(stamps)
  BY <1>2, <1>3
<1> QED BY <1>1, <1>3, <1>4, <1>5 DEF stamps

(* The watermark after some timestamps is one of them or the old one. *)
LEMMA AdvancedIs ==
  ASSUME NEW m, m = NoMark \/ m \in Int,
         NEW S \in SUBSET Int, IsFiniteSet(S), S # {}
  PROVE  /\ Advanced(m, S) \in Int
         /\ Advanced(m, S) \in S \/ (m # NoMark /\ Advanced(m, S) = m)
         /\ \A y \in S : y <= Advanced(m, S)
         /\ m # NoMark => m <= Advanced(m, S)
<1>1. CASE m = NoMark
  <2>1. Max(S) \in S /\ \A y \in S : Max(S) >= y
    BY MaxOfFinite
  <2>2. Advanced(m, S) = Max(S)
    BY <1>1 DEF Advanced
  <2> QED BY <1>1, <2>1, <2>2
<1>2. CASE m # NoMark
  <2> DEFINE T == S \cup {m}
  <2>1. T \in SUBSET Int /\ T # {} /\ m \in Int
    BY <1>2
  <2>2. IsFiniteSet(T)
    BY FS_AddElement
  <2> HIDE DEF T
  <2>3. Max(T) \in T /\ \A y \in T : Max(T) >= y
    BY <2>1, <2>2, MaxOfFinite
  <2>4. Advanced(m, S) = Max(T)
    BY <1>2 DEF Advanced, T
  <2>5. \A y : y \in T <=> y \in S \/ y = m
    BY DEF T
  <2> QED BY <1>2, <2>1, <2>3, <2>4, <2>5
<1> QED BY <1>1, <1>2

MarkAfter(m, S) == IF S = {} THEN m ELSE Advanced(m, S)

(* Of two watermarks, the one that starts ahead and sees more stays ahead. *)
LEMMA MarksInOrder ==
  ASSUME NEW m, m = NoMark \/ m \in Int, NEW t, t = NoMark \/ t \in Int,
         m # NoMark => t # NoMark /\ m <= t,
         NEW S \in SUBSET Int, NEW T \in SUBSET Int, IsFiniteSet(S), IsFiniteSet(T),
         S \subseteq T, NoMark \notin T \ S
  PROVE  MarkAfter(m, S) # NoMark => MarkAfter(t, T) # NoMark /\ MarkAfter(m, S) <= MarkAfter(t, T)
<1> DEFINE a == MarkAfter(m, S)
           b == MarkAfter(t, T)
<1>0. /\ a = IF S = {} THEN m ELSE Advanced(m, S)
      /\ b = IF T = {} THEN t ELSE Advanced(t, T)
  BY DEF MarkAfter
<1> HIDE DEF a, b
<1> SUFFICES ASSUME a # NoMark PROVE b # NoMark /\ a <= b
  BY DEF a, b
<1>1. CASE T = {}
  BY <1>0, <1>1
<1>2. CASE T # {}
  <2>1. /\ b \in Int
        /\ b \in T \/ (t # NoMark /\ b = t)
        /\ \A y \in T : y <= b
        /\ t # NoMark => t <= b
    BY <1>0, <1>2, AdvancedIs
  <2>2. CASE S = {}
    <3>1. a = m /\ m \in Int /\ t \in Int
      BY <1>0, <2>2
    <3> QED BY <2>1, <2>2, <3>1
  <2>3. CASE S # {}
    <3>1. /\ a \in Int
          /\ a \in S \/ (m # NoMark /\ a = m)
          /\ \A y \in S : y <= a
      BY <1>0, <2>3, AdvancedIs
    <3>2. a <= b
      <4>1. CASE a \in S
        BY <2>1, <4>1
      <4>2. CASE m # NoMark /\ a = m
        <5>1. t \in Int /\ a <= t /\ t <= b
          BY <2>1, <4>2
        <5> QED BY <2>1, <3>1, <5>1
      <4> QED BY <3>1, <4>1, <4>2
    <3>3. ASSUME b = NoMark PROVE FALSE
      <4>1. b \in S
        BY <2>1, <3>3
      <4>2. b <= a
        BY <3>1, <4>1
      <4> QED BY <2>1, <3>1, <3>2, <3>3, <4>2
    <3> QED BY <3>2, <3>3
  <2> QED BY <2>2, <2>3
<1> QED BY <1>1, <1>2

(* The host's watermark is never behind the engine's. *)
WindowInv ==
  /\ geometry \in Geometries
  /\ budget \in HostBudgets
  /\ mark \in Stamps \cup {NoMark}
  /\ tracker.mark = NoMark \/ tracker.mark \in Int
  /\ arrival \in SUBSET Timed
  /\ AllDropped \in SUBSET arrival
  /\ HostSeesTheDrops

(* The timestamps of the source's rows, and of all components. *)
Own(rows)            == {r.ts : r \in rows}
Brought(rows, other) == Own(rows) \cup ({other} \ {NoMark})

(* The timed rows of an arrival, and what its other components bring. *)
LEMMA ArrivalIs ==
  ASSUME WindowNext
  PROVE  /\ UNCHANGED geometry /\ UNCHANGED budget
         /\ arrival' \in SUBSET Timed
         /\ elsewhere' \in OtherStamps \cup {NoMark}
         /\ mixed' = (mixed \/ elsewhere' # NoMark)
         /\ seen' = seen \cup (arrival \ AllDropped)
         /\ \/ Brought(arrival', elsewhere') = {} /\ UNCHANGED tracker
            \/ Brought(arrival', elsewhere') # {} /\ Track(Brought(arrival', elsewhere'))
         /\ \/ /\ arrival' = {}
               /\ results' = [o \in Ordinals |-> Nothing]
               /\ UNCHANGED <<mark, emitted>>
            \/ arrival' # {} /\ RunEngine(arrival')
<1>1. PICK rows \in SUBSET Rows, newest \in OtherStamps \cup {NoMark} : Arrive(rows, newest)
  BY DEF WindowNext, kSubset
<1>2. {r \in rows : r.ts # Null} \in SUBSET Timed
  BY DEF Rows, Timed
<1>3. elsewhere' = newest /\ arrival' = {r \in rows : r.ts # Null}
  BY <1>1 DEF Arrive
<1>4. Brought(arrival', elsewhere') = {r.ts : r \in arrival'} \cup ({newest} \ {NoMark})
  BY <1>3 DEF Brought, Own
<1> QED BY <1>1, <1>2, <1>3, <1>4 DEF Arrive

LEMMA WindowInvKept == WindowInv /\ [WindowNext]_windowVars => WindowInv'
<1> SUFFICES ASSUME WindowInv, [WindowNext]_windowVars
             PROVE  WindowInv'
  OBVIOUS
<1>1. CASE UNCHANGED windowVars
  BY <1>1 DEF WindowInv, windowVars, HostSeesTheDrops, AllDropped
<1>2. CASE WindowNext
  <2> DEFINE S == Own(arrival')
             T == Brought(arrival', elsewhere')
  <2>1. /\ geometry' = geometry /\ geometry \in Geometries
        /\ budget' = budget /\ budget \in Nat
        /\ arrival' \in SUBSET Timed
        /\ elsewhere' \in OtherStamps \cup {NoMark}
        /\ mixed' = (mixed \/ elsewhere' # NoMark)
    BY <1>2, ArrivalIs, GeometryAssumption DEF WindowInv
  <2>2. /\ S \in SUBSET Stamps /\ S \in SUBSET Int /\ IsFiniteSet(S)
        /\ S = {} <=> arrival' = {}
    <3>1. S \in SUBSET Stamps /\ (S = {} <=> arrival' = {})
      BY <2>1 DEF Own, Timed
    <3> HIDE DEF S
    <3> QED BY <3>1, GeometryAssumption, FS_Subset
  <2>3. /\ T \in SUBSET Int /\ IsFiniteSet(T) /\ S \subseteq T /\ NoMark \notin T \ S
        /\ elsewhere' = NoMark => T = S
    <3>1. {elsewhere'} \ {NoMark} \in SUBSET Int
      BY <2>1, GeometryAssumption
    <3>2. IsFiniteSet({elsewhere'} \ {NoMark})
      BY FS_Singleton, FS_Subset
    <3>3. IsFiniteSet(T)
      BY <2>2, <3>2, FS_Union DEF Brought
    <3> QED BY <2>2, <3>1, <3>3 DEF Brought
  <2>4. (S = {} /\ mark' = mark) \/ (S # {} /\ mark' = Advanced(mark, S))
    <3>1. S = {r.ts : r \in arrival'}
      BY DEF Own
    <3>2. arrival' # {} => mark' = Advanced(mark, {r.ts : r \in arrival'})
      BY <1>2, ArrivalIs DEF RunEngine
    <3>3. arrival' # {} => mark' = Advanced(mark, S)
      BY <3>1, <3>2, Zenon
    <3>4. arrival' = {} => mark' = mark
      BY <1>2, ArrivalIs
    <3> HIDE DEF S
    <3> QED BY <2>2, <3>3, <3>4
  <2>5. \/ T = {} /\ tracker'.mark = tracker.mark
        \/ T # {} /\ tracker'.mark = Advanced(tracker.mark, T)
    <3>1. ASSUME NEW stamps, Track(stamps) PROVE tracker'.mark = Advanced(tracker.mark, stamps)
      BY <3>1 DEF Track
    <3>2. \/ Brought(arrival', elsewhere') = {} /\ UNCHANGED tracker
          \/ Brought(arrival', elsewhere') # {} /\ Track(Brought(arrival', elsewhere'))
      BY <1>2, ArrivalIs, Zenon
    <3>3. T = Brought(arrival', elsewhere')
      OBVIOUS
    <3> HIDE DEF T
    <3> QED BY <3>1, <3>2, <3>3
  <2>6. T # {} => (verdict' \in {"first", "beyond"} <=> TrackerLate(tracker.mark, Max(T)))
    <3> SUFFICES ASSUME T # {}
                 PROVE  verdict' \in {"first", "beyond"} <=> TrackerLate(tracker.mark, Max(T))
      OBVIOUS
    <3> DEFINE late == TrackerLate(tracker.mark, Max(T))
    <3>1. verdict' = CASE late /\ (~tracker.reported /\ tracker.run + 1 >= RunToReport) -> "first"
                    [] late /\ ~(~tracker.reported /\ tracker.run + 1 >= RunToReport)  -> "beyond"
                    [] ~late /\ tracker.reported    -> "recovered"
                    [] ~late /\ ~tracker.reported   -> "usable"
      BY <1>2, ArrivalIs DEF Track
    <3> HIDE DEF late, T
    <3>2. verdict' \in {"first", "beyond"} <=> late
      BY <3>1
    <3> QED BY <3>2 DEF late
  <2>7. AllDropped' = Beyond(arrival')
    <3>1. CASE arrival' = {}
      <4>1. AllDropped' = {}
        BY <1>2, <3>1, ArrivalIs DEF AllDropped, Nothing
      <4> QED BY <3>1, <4>1 DEF Beyond
    <3>2. CASE arrival' # {}
      BY <1>2, <2>1, <3>2, ArrivalIs, EngineDrops
    <3> QED BY <3>1, <3>2
  <2>8. PICK top \in arrival' \cup {NoMark} :
           arrival' # {} => top \in arrival' /\ top.ts = Max(S) /\ \A r \in arrival' : r.ts <= Max(S)
    BY <2>1, StampsOf DEF Own
  <2> HIDE DEF S, T
  <2>9. /\ mark = NoMark \/ mark \in Int
        /\ tracker.mark = NoMark \/ tracker.mark \in Int
        /\ mark # NoMark => tracker.mark # NoMark /\ mark <= tracker.mark
        /\ ~mixed /\ budget = Lateness => tracker.mark = mark
    BY GeometryAssumption DEF WindowInv, HostSeesTheDrops
  <2>10. mark' # NoMark => tracker'.mark # NoMark /\ mark' <= tracker'.mark
    <3>1. MarkAfter(mark, S) # NoMark =>
            MarkAfter(tracker.mark, T) # NoMark /\ MarkAfter(mark, S) <= MarkAfter(tracker.mark, T)
      BY <2>2, <2>3, <2>9, MarksInOrder
    <3>2. mark' = MarkAfter(mark, S) /\ tracker'.mark = MarkAfter(tracker.mark, T)
      BY <2>4, <2>5 DEF MarkAfter
    <3> QED BY <3>1, <3>2
  <2>11. mark' \in Stamps \cup {NoMark}
    BY <2>2, <2>4, <2>9, AdvancedIs DEF WindowInv
  <2>12. tracker'.mark = NoMark \/ tracker'.mark \in Int
    BY <2>3, <2>5, <2>9, AdvancedIs
  <2>13. Beyond(arrival') \in SUBSET arrival'
    BY DEF Beyond
  <2>14. ASSUME arrival' # {}, elsewhere' = NoMark, budget <= Lateness, Beyond(arrival') = arrival'
         PROVE  verdict' \in {"first", "beyond"}
    <3>1. T = S /\ T # {}
      BY <2>2, <2>3, <2>14
    <3>2. top \in arrival' /\ top.ts = Max(S) /\ top.ts \in Int
      BY <2>1, <2>8, <2>14, GeometryAssumption DEF Timed
    <3>3. mark # NoMark /\ Lateness < mark /\ Max(S) < mark - Lateness
      BY <2>14, <3>2 DEF Beyond, IsBeyondLateness
    <3>4. /\ mark \in Int /\ tracker.mark \in Int /\ tracker.mark # NoMark
          /\ mark <= tracker.mark /\ Max(S) \in Int
      BY <2>9, <3>2, <3>3
    <3>5. budget < tracker.mark /\ Max(S) < tracker.mark - budget
      BY <2>1, <2>14, <3>3, <3>4, GeometryAssumption
    <3>6. TrackerLate(tracker.mark, Max(T))
      BY <3>1, <3>4, <3>5 DEF TrackerLate
    <3> QED BY <2>6, <3>1, <3>6
  <2>15. ASSUME ~mixed', budget = Lateness
         PROVE  /\ tracker'.mark = mark'
                /\ arrival' # {} =>
                     (verdict' \in {"first", "beyond"} <=> Beyond(arrival') = arrival')
    <3>1. ~mixed /\ elsewhere' = NoMark /\ T = S /\ tracker.mark = mark
      BY <2>1, <2>3, <2>9, <2>15
    <3>2. tracker'.mark = mark'
      BY <2>4, <2>5, <3>1
    <3>3. ASSUME arrival' # {}, verdict' \in {"first", "beyond"}
          PROVE  Beyond(arrival') = arrival'
      <4> SUFFICES ASSUME NEW r \in arrival'
                   PROVE  IsBeyondLateness(mark, r.ts)
        BY DEF Beyond
      <4>1. TrackerLate(mark, Max(S))
        BY <2>2, <2>6, <3>1, <3>3
      <4>2. mark # NoMark /\ Lateness < mark /\ Max(S) < mark - Lateness
        BY <2>15, <4>1 DEF TrackerLate
      <4>3. r.ts \in Int /\ Max(S) \in Int /\ mark \in Int /\ r.ts <= Max(S)
        BY <2>1, <2>8, <2>9, <4>2, GeometryAssumption DEF Timed
      <4>4. r.ts < mark - Lateness
        BY <4>2, <4>3, GeometryAssumption
      <4> QED BY <4>2, <4>4 DEF IsBeyondLateness
    <3>4. arrival' # {} /\ Beyond(arrival') = arrival' => verdict' \in {"first", "beyond"}
      BY <2>14, <2>15, <3>1, GeometryAssumption
    <3> QED BY <3>2, <3>3, <3>4
  <2>16. HostSeesTheDrops'
    BY <2>1, <2>7, <2>10, <2>14, <2>15 DEF HostSeesTheDrops
  <2>17. AllDropped' \in SUBSET arrival'
    BY <2>7, <2>13
  <2>18. geometry' \in Geometries /\ budget' \in HostBudgets
    BY <2>1 DEF WindowInv
  <2> QED BY <2>1, <2>11, <2>12, <2>16, <2>17, <2>18 DEF WindowInv
<1> QED BY <1>1, <1>2

LEMMA AlwaysWindowInv == WindowSpec => []WindowInv
<1>1. WindowInit => WindowInv
  <2> SUFFICES ASSUME WindowInit PROVE WindowInv
    OBVIOUS
  <2>1. AllDropped = {}
    BY DEF WindowInit, AllDropped, Nothing
  <2> QED BY <2>1 DEF WindowInit, WindowInv, HostSeesTheDrops, Geometries
<1> QED BY <1>1, WindowInvKept, PTL DEF WindowSpec

(* For all timestamps, both budgets and any number of instances: the       *)
(* tracker's watermark is never behind the engine's, whatever the other    *)
(* components of an arrival bring; an arrival of the source alone that the *)
(* engine drops as a whole is reported unless the host's budget is larger; *)
(* and with one component and one budget both watermarks are equal and the *)
(* report is exactly the drop.                                             *)
THEOREM DropsAreReported == WindowSpec => []HostSeesTheDrops
<1>1. WindowInv => HostSeesTheDrops
  BY DEF WindowInv
<1> QED BY <1>1, AlwaysWindowInv, PTL

(* Products with a positive factor keep the order, by a whole step. *)
LEMMA StepsApart ==
  ASSUME NEW v \in Int, NEW w \in Int, v < w, NEW size \in Nat
  PROVE  v * size + size <= w * size
<1>1. w - v - 1 \in Nat
  OBVIOUS
<1>2. (w - v - 1) * size >= 0
  BY <1>1
<1>3. (w - v - 1) * size = w * size - v * size - size
  OBVIOUS
<1> QED BY <1>2, <1>3

(* A quotient that rounds down leaves a remainder below the divisor. *)
LEMMA Remainder ==
  ASSUME NEW a \in Nat, NEW b \in Nat \ {0}
  PROVE  a \div b \in Nat /\ (a \div b) * b <= a /\ a < (a \div b) * b + b
OBVIOUS

(* assign_tumbling rounds down, on both sides of the offset: its window is *)
(* the one whose interval holds the timestamp.                             *)
LEMMA FloorHolds ==
  ASSUME NEW ts \in Int, NEW size \in Nat \ {0}
  PROVE  LET w == AssignTumbling(ts, size)
         IN  w \in Int /\ w * size + Offset <= ts /\ ts < w * size + Offset + size
<1> USE GeometryAssumption
<1> DEFINE a == ts - Offset
<1>0. a \in Int
  OBVIOUS
<1>1. CASE a >= 0
  <2> DEFINE q == a \div size
  <2>1. q \in Nat /\ q * size <= a /\ a < q * size + size
    BY <1>0, <1>1, Remainder
  <2>2. TruncDiv(a, size) = q
    BY <1>1 DEF TruncDiv
  <2> HIDE DEF q
  <2>3. AssignTumbling(ts, size) = q
    <3>1. ~(a - q * size < 0)
      BY <2>1, <1>0
    <3> QED BY <2>2, <3>1 DEF AssignTumbling
  <2> QED BY <2>1, <2>3
<1>2. CASE a < 0
  <2> DEFINE d == (-a) \div size
  <2>0. -a \in Nat
    BY <1>0, <1>2
  <2>1. d \in Nat /\ d * size <= -a /\ -a < d * size + size
    BY <2>0, Remainder
  <2>2. TruncDiv(a, size) = -d
    BY <1>0, <1>2 DEF TruncDiv
  <2> HIDE DEF d
  <2>3. (-d) * size = -(d * size) /\ (-d - 1) * size = -(d * size) - size
    BY <2>1
  <2>4. AssignTumbling(ts, size) = IF a - (-d) * size < 0 THEN -d - 1 ELSE -d
    BY <2>2 DEF AssignTumbling
  <2>5. CASE a - (-d) * size < 0
    BY <2>1, <2>3, <2>4, <2>5, <1>0
  <2>6. CASE ~(a - (-d) * size < 0)
    BY <2>1, <2>3, <2>4, <2>6, <1>0
  <2> QED BY <2>5, <2>6
<1> QED BY <1>0, <1>1, <1>2

(* No other window of that size does. *)
LEMMA FloorUnique ==
  ASSUME NEW ts \in Int, NEW size \in Nat \ {0}, NEW v \in Int,
         v * size + Offset <= ts, ts < v * size + Offset + size
  PROVE  v = AssignTumbling(ts, size)
<1> DEFINE w == AssignTumbling(ts, size)
<1>1. w \in Int /\ w * size + Offset <= ts /\ ts < w * size + Offset + size
  BY FloorHolds
<1> HIDE DEF w
<1>2. ~(v < w)
  <2> SUFFICES ASSUME v < w PROVE FALSE
    OBVIOUS
  <2>1. v * size + size <= w * size
    BY <1>1, StepsApart
  <2> QED BY <1>1, <2>1, GeometryAssumption
<1>3. ~(w < v)
  <2> SUFFICES ASSUME w < v PROVE FALSE
    OBVIOUS
  <2>1. w * size + size <= v * size
    BY <1>1, StepsApart
  <2> QED BY <1>1, <2>1, GeometryAssumption
<1> QED BY <1>1, <1>2, <1>3 DEF w

(* The windows of a row are the intervals that hold its timestamp. *)
LEMMA WindowsCover ==
  ASSUME geometry \in {"tumbling", "sliding"}, Size % Slide = 0,
         NEW kept \in SUBSET Timed, NEW r \in kept, NEW w
  PROVE  w \in WindowsOf(r, kept) <=> w \in Int /\ Covers(w, r.ts)
<1> USE GeometryAssumption
<1> DEFINE ts == r.ts
<1>0. ts \in Int
  BY DEF Timed
<1>1. CASE geometry = "tumbling"
  <2>1. WindowsOf(r, kept) = {AssignTumbling(ts, Size)}
    BY <1>1 DEF WindowsOf
  <2>2. \A v : Covers(v, ts) <=> v * Size + Offset <= ts /\ ts < v * Size + Offset + Size
    BY <1>1 DEF Covers
  <2> HIDE DEF ts
  <2>3. AssignTumbling(ts, Size) \in Int /\ Covers(AssignTumbling(ts, Size), ts)
    BY <1>0, <2>2, FloorHolds
  <2>4. ASSUME w \in Int, Covers(w, ts) PROVE w = AssignTumbling(ts, Size)
    BY <1>0, <2>2, <2>4, FloorUnique
  <2>5. w \in WindowsOf(r, kept) <=> w \in Int /\ Covers(w, ts)
    BY <2>1, <2>3, <2>4
  <2> QED BY <2>5 DEF ts
<1>2. CASE geometry = "sliding"
  <2> DEFINE k == (Size + Slide - 1) \div Slide
  <2>1. WindowsOf(r, kept) = AssignSliding(ts)
    BY <1>2 DEF WindowsOf
  <2>2. \A v : Covers(v, ts) <=> v * Slide + Offset <= ts /\ ts < v * Slide + Offset + Size
    BY <1>2 DEF Covers
  <2>3. AssignSliding(ts) = {AssignTumbling(ts - j * Slide, Slide) : j \in 0..(k - 1)}
    BY DEF AssignSliding
  <2>4. k \in Nat /\ k * Slide = Size
    <3> DEFINE c == Size \div Slide
    <3>1. c \in Nat /\ c * Slide = Size
      OBVIOUS
    <3> HIDE DEF c
    <3>2. k \in Nat /\ k * Slide <= Size + Slide - 1 /\ Size + Slide - 1 < k * Slide + Slide
      BY Remainder
    <3> HIDE DEF k
    <3>3. ~(c < k)
      BY <3>1, <3>2, StepsApart
    <3>4. ~(k < c)
      BY <3>1, <3>2, StepsApart
    <3> QED BY <3>1, <3>2, <3>3, <3>4
  <2> HIDE DEF k, ts
  <2>5. ASSUME NEW j \in 0..(k - 1)
        PROVE  /\ AssignTumbling(ts - j * Slide, Slide) \in Int
               /\ Covers(AssignTumbling(ts - j * Slide, Slide), ts)
    <3> DEFINE v == AssignTumbling(ts - j * Slide, Slide)
    <3>1. ts - j * Slide \in Int /\ j \in Nat /\ j < k /\ j * Slide \in Nat
      BY <1>0, <2>4
    <3>2. v \in Int /\ v * Slide + Offset <= ts - j * Slide /\ ts - j * Slide < v * Slide + Offset + Slide
      <4> DEFINE t == ts - j * Slide
      <4>1. t \in Int
        BY <3>1
      <4> HIDE DEF t
      <4>3. Slide \in Nat \ {0}
        OBVIOUS
      <4>2. LET u == AssignTumbling(t, Slide)
            IN  u \in Int /\ u * Slide + Offset <= t /\ t < u * Slide + Offset + Slide
        BY <4>1, <4>3, FloorHolds, Zenon
      <4> QED BY <4>2 DEF t
    <3> HIDE DEF v
    <3>3. j * Slide + Slide <= k * Slide
      BY <2>4, <3>1, StepsApart
    <3>4. v * Slide + Offset <= ts /\ ts < v * Slide + Offset + Size
      BY <1>0, <2>4, <3>1, <3>2, <3>3
    <3> QED BY <2>2, <3>2, <3>4 DEF v
  <2>6. ASSUME w \in Int, Covers(w, ts)
        PROVE  \E j \in 0..(k - 1) : w = AssignTumbling(ts - j * Slide, Slide)
    <3> DEFINE v == AssignTumbling(ts, Slide)
               j == v - w
    <3>1. v \in Int /\ v * Slide + Offset <= ts /\ ts < v * Slide + Offset + Slide
      BY <1>0, FloorHolds
    <3>2. w * Slide + Offset <= ts /\ ts < w * Slide + Offset + Size
      BY <2>2, <2>6
    <3> HIDE DEF v
    <3>3. ~(v < w)
      <4> SUFFICES ASSUME v < w PROVE FALSE
        OBVIOUS
      <4>1. v * Slide + Slide <= w * Slide
        BY <2>6, <3>1, StepsApart
      <4> QED BY <4>1, <3>1, <3>2, <2>6, <1>0
    <3>4. v < w + k
      <4> SUFFICES ASSUME ~(v < w + k) PROVE FALSE
        OBVIOUS
      <4>1. w + k - 1 \in Int /\ w + k - 1 < v
        BY <2>4, <2>6, <3>1
      <4>2. (w + k - 1) * Slide + Slide <= v * Slide
        <5> DEFINE u == w + k - 1
        <5>1. u \in Int /\ u < v
          BY <4>1
        <5> HIDE DEF u
        <5>2. u * Slide + Slide <= v * Slide
          BY <5>1, <3>1, StepsApart
        <5> QED BY <5>2 DEF u
      <4>3. (w + k - 1) * Slide = w * Slide + k * Slide - Slide
        BY <2>4, <2>6
      <4> QED BY <4>2, <4>3, <3>1, <3>2, <2>4, <2>6, <1>0
    <3>5. j \in 0..(k - 1)
      BY <2>4, <2>6, <3>1, <3>3, <3>4
    <3>6. j * Slide = v * Slide - w * Slide
      BY <2>6, <3>1
    <3>7. w = AssignTumbling(ts - j * Slide, Slide)
      <4>1. ts - j * Slide \in Int
        BY <1>0, <3>5
      <4>2. w * Slide + Offset <= ts - j * Slide /\ ts - j * Slide < w * Slide + Offset + Slide
        BY <1>0, <2>6, <3>1, <3>6
      <4> HIDE DEF j
      <4> QED BY <2>6, <4>1, <4>2, FloorUnique
    <3> QED BY <3>5, <3>7
  <2>7. w \in WindowsOf(r, kept) <=> w \in Int /\ Covers(w, ts)
    BY <2>1, <2>3, <2>5, <2>6
  <2> QED BY <2>7 DEF ts
<1> QED BY <1>1, <1>2

(* Windows are intervals: always for tumbling ones, for sliding ones when  *)
(* the slide divides the size.                                             *)
Intervals == geometry # "session" /\ Size % Slide = 0

(* A run fires a window for a key when a row it keeps lies in it. *)
LEMMA RunFires ==
  ASSUME geometry \in Geometries, Intervals, NEW o \in Ordinals, NEW kept \in SUBSET Timed,
         NEW w, NEW key
  PROVE  (\E g \in Groups(o, kept) : g.window = w /\ g.key = key)
           <=> /\ Mine(o, key) /\ w \in Int
               /\ \E r \in kept : r.key = key /\ Covers(w, r.ts)
<1>0. geometry \in {"tumbling", "sliding"} /\ Size % Slide = 0
  BY DEF Geometries, Intervals
<1>1. ASSUME NEW g \in Groups(o, kept), g.window = w, g.key = key
      PROVE  /\ Mine(o, key) /\ w \in Int
             /\ \E r \in kept : r.key = key /\ Covers(w, r.ts)
  <2>1. PICK r \in g.rows : r \in kept /\ Mine(o, r.key) /\ r.key = g.key /\ w \in WindowsOf(r, kept)
    BY <1>1, GroupHolds
  <2>2. w \in Int /\ Covers(w, r.ts)
    BY <1>0, <2>1, WindowsCover
  <2> QED BY <1>1, <2>1, <2>2
<1>2. ASSUME Mine(o, key), w \in Int, NEW r \in kept, r.key = key, Covers(w, r.ts)
      PROVE  \E g \in Groups(o, kept) : g.window = w /\ g.key = key
  <2>1. w \in WindowsOf(r, kept)
    BY <1>0, <1>2, WindowsCover
  <2> QED BY <1>2, <2>1, GroupOf
<1> QED BY <1>1, <1>2

(* An instance remembers a window of a key once it has kept a row of both, *)
(* and nothing else.                                                       *)
RowsKept == seen \cup (arrival \ AllDropped)

EmittedInv ==
  Intervals =>
    \A o \in Ordinals : \A w, key :
      <<w, key>> \in emitted[o]
        <=> /\ Mine(o, key) /\ w \in Int
            /\ \E r \in RowsKept : r.key = key /\ Covers(w, r.ts)

(* What one run leaves. *)
LEMMA RunLeaves ==
  ASSUME WindowInv, WindowNext, arrival' # {}
  PROVE  LET kept == arrival' \ Beyond(arrival')
         IN  /\ kept \in SUBSET Timed
             /\ seen' = RowsKept /\ RowsKept' = seen' \cup kept /\ (arrival \ AllDropped)' = kept
             /\ \A o \in Ordinals : /\ results'[o].groups = Groups(o, kept)
                                    /\ emitted'[o] = emitted[o] \cup {<<g.window, g.key>> : g \in Groups(o, kept)}
             /\ AllGroups' = UNION {Groups(o, kept) : o \in Ordinals}
<1> DEFINE kept == arrival' \ Beyond(arrival')
<1>1. /\ arrival' \in SUBSET Timed /\ RunEngine(arrival')
      /\ seen' = RowsKept
  BY ArrivalIs DEF RowsKept
<1>2. AllDropped' = Beyond(arrival')
  BY <1>1, EngineDrops DEF WindowInv
<1>3. \A o \in Ordinals : results'[o].groups = Groups(o, kept)
  BY <1>1 DEF RunEngine, Beyond
<1>4. \A o \in Ordinals : emitted'[o] = emitted[o] \cup {<<g.window, g.key>> : g \in Groups(o, kept)}
  BY <1>1 DEF RunEngine, Beyond
<1>5. kept \in SUBSET Timed
  BY <1>1
<1>6. (arrival \ AllDropped)' = kept /\ RowsKept' = seen' \cup kept
  BY <1>2 DEF RowsKept
<1> HIDE DEF kept
<1>7. AllGroups' = UNION {Groups(o, kept) : o \in Ordinals}
  <2>1. AllGroups' = UNION {results'[o].groups : o \in Ordinals}
    BY DEF AllGroups
  <2> QED BY <2>1, <1>3
<1> QED BY <1>1, <1>3, <1>4, <1>5, <1>6, <1>7 DEF kept

LEMMA EmittedInvKept == WindowInv /\ EmittedInv /\ [WindowNext]_windowVars => EmittedInv'
<1> SUFFICES ASSUME WindowInv, EmittedInv, [WindowNext]_windowVars
             PROVE  EmittedInv'
  OBVIOUS
<1>1. CASE UNCHANGED windowVars
  <2>1. RowsKept' = RowsKept /\ emitted' = emitted /\ geometry' = geometry
    BY <1>1 DEF windowVars, RowsKept, AllDropped
  <2>2. Intervals' <=> Intervals
    BY <2>1 DEF Intervals
  <2>3. ASSUME NEW w, NEW ts PROVE Covers(w, ts)' <=> Covers(w, ts)
    BY <2>1 DEF Covers
  <2> SUFFICES ASSUME Intervals, NEW o \in Ordinals, NEW w, NEW key
               PROVE  <<w, key>> \in emitted'[o]
                        <=> /\ Mine(o, key) /\ w \in Int
                            /\ \E r \in RowsKept' : r.key = key /\ Covers(w, r.ts)'
    BY <2>2 DEF EmittedInv
  <2> QED BY <2>1, <2>3 DEF EmittedInv
<1>2. CASE WindowNext
  <2>1. geometry' = geometry /\ geometry \in Geometries /\ seen' = RowsKept
    BY <1>2, ArrivalIs DEF WindowInv, RowsKept
  <2>2. ASSUME NEW w, NEW ts PROVE Covers(w, ts)' <=> Covers(w, ts)
    BY <2>1 DEF Covers
  <2> SUFFICES ASSUME Intervals, NEW o \in Ordinals, NEW w, NEW key
               PROVE  <<w, key>> \in emitted'[o]
                        <=> /\ Mine(o, key) /\ w \in Int
                            /\ \E r \in RowsKept' : r.key = key /\ Covers(w, r.ts)
    BY <2>1, <2>2 DEF EmittedInv, Intervals, Covers
  <2>3. <<w, key>> \in emitted[o]
          <=> /\ Mine(o, key) /\ w \in Int
              /\ \E r \in RowsKept : r.key = key /\ Covers(w, r.ts)
    BY DEF EmittedInv
  <2>4. CASE arrival' = {}
    <3>1. emitted' = emitted /\ RowsKept' = RowsKept
      <4>1. emitted' = emitted /\ results' = [p \in Ordinals |-> Nothing]
        BY <1>2, <2>4, ArrivalIs
      <4> QED BY <2>1, <2>4, <4>1 DEF RowsKept
    <3> QED BY <2>3, <3>1
  <2>5. CASE arrival' # {}
    <3> DEFINE kept == arrival' \ Beyond(arrival')
    <3>1. /\ kept \in SUBSET Timed
          /\ RowsKept' = RowsKept \cup kept
          /\ emitted'[o] = emitted[o] \cup {<<g.window, g.key>> : g \in Groups(o, kept)}
      BY <1>2, <2>5, RunLeaves
    <3> HIDE DEF kept
    <3>2. (\E g \in Groups(o, kept) : g.window = w /\ g.key = key)
            <=> /\ Mine(o, key) /\ w \in Int
                /\ \E r \in kept : r.key = key /\ Covers(w, r.ts)
      <4>1. kept \in SUBSET Timed
        BY <3>1
      <4>2. geometry \in Geometries
        BY <2>1
      <4>3. ASSUME NEW K \in SUBSET Timed
            PROVE  (\E g \in Groups(o, K) : g.window = w /\ g.key = key)
                     <=> /\ Mine(o, key) /\ w \in Int
                         /\ \E r \in K : r.key = key /\ Covers(w, r.ts)
        BY <4>2, RunFires
      <4> QED BY <4>1, <4>3
    <3>3. <<w, key>> \in {<<g.window, g.key>> : g \in Groups(o, kept)}
            <=> \E g \in Groups(o, kept) : g.window = w /\ g.key = key
      OBVIOUS
    <3> QED BY <2>3, <3>1, <3>2, <3>3
  <2> QED BY <2>4, <2>5
<1> QED BY <1>1, <1>2

LEMMA AlwaysEmittedInv == WindowSpec => []EmittedInv
<1>1. WindowInit => EmittedInv
  <2> SUFFICES ASSUME WindowInit PROVE EmittedInv
    OBVIOUS
  <2>1. RowsKept = {}
    BY DEF WindowInit, RowsKept
  <2>2. \A o \in Ordinals : emitted[o] = {}
    BY DEF WindowInit
  <2> QED BY <2>1, <2>2 DEF EmittedInv
<1> QED BY <1>1, AlwaysWindowInv, EmittedInvKept, PTL DEF WindowSpec

LEMMA LateStep == WindowInv /\ EmittedInv /\ LateMeansSeen /\ [WindowNext]_windowVars => LateMeansSeen'
<1> SUFFICES ASSUME WindowInv, EmittedInv, LateMeansSeen, [WindowNext]_windowVars
             PROVE  LateMeansSeen'
  OBVIOUS
<1>1. CASE UNCHANGED windowVars
  BY <1>1 DEF LateMeansSeen, windowVars, AllGroups, Covers
<1>2. CASE WindowNext
  <2>1. geometry' = geometry /\ geometry \in Geometries /\ seen' = RowsKept
    BY <1>2, ArrivalIs DEF WindowInv, RowsKept
  <2>2. ASSUME NEW w, NEW ts PROVE Covers(w, ts)' <=> Covers(w, ts)
    BY <2>1 DEF Covers
  <2> SUFFICES ASSUME Intervals, NEW g \in AllGroups'
               PROVE  g.late <=> \E r \in RowsKept : r.key = g.key /\ Covers(g.window, r.ts)
    BY <2>1, <2>2 DEF LateMeansSeen, Intervals, Covers
  <2>3. CASE arrival' = {}
    <3>1. results' = [p \in Ordinals |-> Nothing]
      BY <1>2, <2>3, ArrivalIs
    <3>2. AllGroups' = {}
      BY <3>1 DEF AllGroups, Nothing
    <3> QED BY <3>2
  <2>4. CASE arrival' # {}
    <3> DEFINE kept == arrival' \ Beyond(arrival')
    <3>1. kept \in SUBSET Timed /\ AllGroups' = UNION {Groups(o, kept) : o \in Ordinals}
      BY <1>2, <2>4, RunLeaves
    <3> HIDE DEF kept
    <3>2. PICK o \in Ordinals : g \in Groups(o, kept)
      BY <3>1
    <3>3. g.late = (<<g.window, g.key>> \in emitted[o])
      BY <3>1, <3>2, GroupHolds DEF Late
    <3>4. Mine(o, g.key) /\ g.window \in Int
      BY <2>1, <3>1, <3>2, RunFires
    <3>5. <<g.window, g.key>> \in emitted[o]
            <=> /\ Mine(o, g.key) /\ g.window \in Int
                /\ \E r \in RowsKept : r.key = g.key /\ Covers(g.window, r.ts)
      BY DEF EmittedInv
    <3> QED BY <3>3, <3>4, <3>5
  <2> QED BY <2>3, <2>4
<1> QED BY <1>1, <1>2

(* For all timestamps, for tumbling windows and for sliding ones whose     *)
(* slide divides the size (not for sessions): the first group of a window  *)
(* and key is not marked late, and one with a row behind the watermark is, *)
(* when an earlier arrival put a row of its key into its window.           *)
THEOREM LateGroupsWereFired == WindowSpec => []LateMeansSeen
<1>1. WindowInit => LateMeansSeen
  <2> SUFFICES ASSUME WindowInit PROVE LateMeansSeen
    OBVIOUS
  <2>1. AllGroups = {}
    BY DEF WindowInit, AllGroups, Nothing
  <2> QED BY <2>1 DEF LateMeansSeen
<1> QED BY <1>1, AlwaysWindowInv, AlwaysEmittedInv, LateStep, PTL DEF WindowSpec

LEMMA TimedIsFinite == IsFiniteSet(Timed)
<1> DEFINE f == [p \in Stamps \X Hashes |-> [ts |-> p[1], key |-> p[2]]]
<1>1. IsFiniteSet(Stamps \X Hashes)
  BY GeometryAssumption, FS_Product
<1>2. \A p \in Stamps \X Hashes : f[p] \in Timed
  BY DEF Timed
<1>3. ASSUME NEW r \in Timed PROVE \E p \in Stamps \X Hashes : f[p] = r
  <2>1. <<r.ts, r.key>> \in Stamps \X Hashes /\ r = [ts |-> r.ts, key |-> r.key]
    BY DEF Timed
  <2>2. f[<<r.ts, r.key>>] = r
    BY <2>1
  <2> QED BY <2>1, <2>2
<1> HIDE DEF f
<1>4. f \in [Stamps \X Hashes -> Timed]
  BY <1>2 DEF f
<1>5. f \in Surjection(Stamps \X Hashes, Timed)
  BY <1>3, <1>4 DEF Surjection
<1> QED BY <1>1, <1>5, FS_Surjection

(* The sessions of two rows of a key are the same when no break comes      *)
(* after the earlier up to the later.                                      *)
LEMMA SameCount ==
  ASSUME NEW kept \in SUBSET Timed, NEW r \in kept, NEW s \in kept, r.key = s.key, r.ts <= s.ts
  PROVE  SessionsOf(kept)[r] = SessionsOf(kept)[s]
           <=> ~\E b \in SessionBreaks(kept) : SortsBefore(r, b) /\ ~SortsBefore(s, b)
<1> DEFINE B(x) == {b \in SessionBreaks(kept) : ~SortsBefore(x, b)}
<1>1. SessionsOf(kept)[r] = Cardinality(B(r)) /\ SessionsOf(kept)[s] = Cardinality(B(s))
  BY DEF SessionsOf
<1>2. SessionBreaks(kept) \in SUBSET kept
  BY DEF SessionBreaks
<1>3. IsFiniteSet(B(s))
  <2>1. B(s) \in SUBSET Timed
    BY <1>2
  <2> QED BY <2>1, TimedIsFinite, FS_Subset
<1>4. ASSUME NEW b \in SessionBreaks(kept), SortsBefore(s, b) PROVE SortsBefore(r, b)
  <2>1. /\ b.ts \in Int /\ r.ts \in Int /\ s.ts \in Int
        /\ b.key \in Int /\ r.key \in Int /\ s.key \in Int
    BY <1>2, GeometryAssumption DEF Timed
  <2> QED BY <1>4, <2>1 DEF SortsBefore
<1>5. B(r) \in SUBSET B(s)
  BY <1>4
<1>6. Cardinality(B(r)) = Cardinality(B(s)) <=> B(r) = B(s)
  BY <1>3, <1>5, FS_Subset
<1>7. B(r) = B(s) <=> ~\E b \in SessionBreaks(kept) : SortsBefore(r, b) /\ ~SortsBefore(s, b)
  BY <1>5
<1> QED BY <1>1, <1>6, <1>7

(* The timestamps of a key from one to another. *)
Span(low, high, key, kept) == {q.ts : q \in {q \in kept : q.key = key /\ q.ts \in low..high}}

Chained(low, high, key, kept) ==
  \A t \in Span(low, high, key, kept) \ {high} :
    \E u \in Span(low, high, key, kept) : t < u /\ u <= t + Gap

(* No break means no silence longer than the gap, ... *)
LEMMA BreaksAreSilences ==
  ASSUME NEW kept \in SUBSET Timed, NEW r \in kept, NEW s \in kept, r.key = s.key, r.ts <= s.ts
  PROVE  Chained(r.ts, s.ts, r.key, kept)
           <=> ~\E b \in SessionBreaks(kept) : SortsBefore(r, b) /\ ~SortsBefore(s, b)
<1> DEFINE span == Span(r.ts, s.ts, r.key, kept)
<1>1. \A q \in kept : q.ts \in Int /\ q.key \in Int
  BY GeometryAssumption DEF Timed
<1>2. \A t : t \in span <=> \E q \in kept : q.key = r.key /\ q.ts \in r.ts..s.ts /\ t = q.ts
  BY DEF Span
<1>3. \A t \in span : t \in Int
  BY <1>1, <1>2
<1>4. ASSUME Chained(r.ts, s.ts, r.key, kept),
             NEW b \in SessionBreaks(kept), SortsBefore(r, b), ~SortsBefore(s, b)
      PROVE  FALSE
  <2>1. b \in kept
    BY DEF SessionBreaks
  <2>2. PICK p \in kept : /\ SortsBefore(p, b)
                          /\ ~\E q \in kept : SortsBefore(p, q) /\ SortsBefore(q, b)
                          /\ b.key # p.key \/ b.ts - p.ts > Gap
    BY DEF SessionBreaks
  <2>3. b.key = r.key /\ r.ts < b.ts /\ b.ts <= s.ts
    BY <1>1, <1>4, <2>1 DEF SortsBefore
  <2>4. p.key = r.key /\ r.ts <= p.ts /\ p.ts < b.ts
    <3>1. ~SortsBefore(p, r)
      BY <1>4, <2>2
    <3> QED BY <1>1, <2>1, <2>2, <2>3, <3>1 DEF SortsBefore
  <2>5. p.ts \in span \ {s.ts}
    BY <1>1, <1>2, <2>1, <2>3, <2>4
  <2>6. PICK u \in span : p.ts < u /\ u <= p.ts + Gap
    BY <1>4, <2>5 DEF Chained
  <2>7. PICK q \in kept : q.key = r.key /\ u = q.ts
    BY <1>2, <2>6
  <2>8. SortsBefore(p, q) /\ SortsBefore(q, b)
    BY <1>1, <2>1, <2>2, <2>3, <2>4, <2>6, <2>7, GeometryAssumption DEF SortsBefore
  <2> QED BY <2>2, <2>8
<1>5. ASSUME ~\E b \in SessionBreaks(kept) : SortsBefore(r, b) /\ ~SortsBefore(s, b),
             NEW t \in span \ {s.ts}
      PROVE  \E u \in span : t < u /\ u <= t + Gap
  <2> DEFINE after == {u \in span : t < u}
  <2>1. t \in Int /\ r.ts <= t /\ t < s.ts
    BY <1>1, <1>2, <1>3
  <2>2. s.ts \in after
    BY <1>1, <1>2, <2>1
  <2>3. after \in SUBSET Int
    BY <1>3
  <2>4. IsFiniteSet(after)
    <3>1. after \in SUBSET Stamps
      BY <1>2 DEF Timed
    <3> QED BY <3>1, GeometryAssumption, FS_Subset
  <2>5. PICK u \in after : \A v \in after : u <= v
    BY <2>2, <2>3, <2>4, MinOfFinite
  <2>6. PICK p \in kept : p.key = r.key /\ p.ts = t /\ p.ts \in r.ts..s.ts
    BY <1>2
  <2>7. PICK b \in kept : b.key = r.key /\ b.ts = u /\ b.ts \in r.ts..s.ts
    BY <1>2, <2>5
  <2>8. SortsBefore(p, b) /\ SortsBefore(r, b) /\ ~SortsBefore(s, b)
    BY <1>1, <2>1, <2>5, <2>6, <2>7 DEF SortsBefore
  <2>9. ASSUME NEW q \in kept, SortsBefore(p, q), SortsBefore(q, b) PROVE FALSE
    <3>1. q.key = r.key /\ t < q.ts /\ q.ts < u
      BY <1>1, <2>6, <2>7, <2>9 DEF SortsBefore
    <3>2. q.ts \in after
      BY <1>1, <1>2, <2>1, <2>6, <2>7, <3>1
    <3> QED BY <2>3, <2>5, <3>1, <3>2, <1>1
  <2>10. ~(b.ts - p.ts > Gap)
    BY <1>5, <2>8, <2>9 DEF SessionBreaks
  <2>11. t < u /\ u <= t + Gap
    BY <1>1, <2>5, <2>6, <2>7, <2>10, GeometryAssumption
  <2> QED BY <2>5, <2>11
<1> QED BY <1>4, <1>5 DEF Chained

LEMMA PairBounds ==
  ASSUME NEW a \in Int, NEW b \in Int, a <= b
  PROVE  Min({a, b}) = a /\ Max({a, b}) = b
<1>1. \A x \in {a, b} : (\A y \in {a, b} : x <= y) <=> x = a
  OBVIOUS
<1>2. \A x \in {a, b} : (\A y \in {a, b} : x >= y) <=> x = b
  OBVIOUS
<1> QED BY <1>1, <1>2 DEF Min, Max

(* ... so rows share a session of assign_sessions exactly when they should. *)
LEMMA SessionsAreRight ==
  ASSUME NEW kept \in SUBSET Timed, NEW r \in kept, NEW s \in kept
  PROVE  SameSession(r, s, kept) <=> r.key = s.key /\ SessionsOf(kept)[r] = SessionsOf(kept)[s]
<1>0. r.ts \in Int /\ s.ts \in Int
  BY GeometryAssumption DEF Timed
<1>1. ASSUME NEW x \in kept, NEW y \in kept, x.key = y.key, x.ts <= y.ts
      PROVE  Chained(x.ts, y.ts, x.key, kept) <=> SessionsOf(kept)[x] = SessionsOf(kept)[y]
  BY <1>1, SameCount, BreaksAreSilences
<1>2. ASSUME r.key = s.key, r.ts <= s.ts
      PROVE  SameSession(r, s, kept) <=> Chained(r.ts, s.ts, r.key, kept)
  <2>1. Min({r.ts, s.ts}) = r.ts /\ Max({r.ts, s.ts}) = s.ts
    BY <1>0, <1>2, PairBounds
  <2> QED BY <1>2, <2>1 DEF SameSession, Chained, Span
<1>3. ASSUME r.key = s.key, s.ts <= r.ts
      PROVE  SameSession(r, s, kept) <=> Chained(s.ts, r.ts, s.key, kept)
  <2>1. Min({s.ts, r.ts}) = s.ts /\ Max({s.ts, r.ts}) = r.ts
    BY <1>0, <1>3, PairBounds
  <2>2. {r.ts, s.ts} = {s.ts, r.ts}
    OBVIOUS
  <2> QED BY <1>3, <2>1, <2>2 DEF SameSession, Chained, Span
<1>4. CASE r.key # s.key
  BY <1>4 DEF SameSession
<1>5. CASE r.key = s.key /\ r.ts <= s.ts
  BY <1>1, <1>2, <1>5
<1>6. CASE r.key = s.key /\ s.ts <= r.ts
  BY <1>1, <1>3, <1>6
<1> QED BY <1>0, <1>4, <1>5, <1>6

(* What the groups of one run are, whatever the geometry. *)
Placement(all, kept) ==
  /\ UNION {g.rows : g \in all} = kept
  /\ \A o, p \in Ordinals : o # p => Groups(o, kept) \cap Groups(p, kept) = {}
  /\ Intervals => /\ \A g \in all : \A r \in g.rows : Covers(g.window, r.ts)
                  /\ \A r \in kept : \A w \in Int :
                       Covers(w, r.ts) => \E g \in all : g.window = w /\ r \in g.rows
  /\ geometry = "session" => \A r, s \in kept :
       SameSession(r, s, kept) <=> \E g \in all : r \in g.rows /\ s \in g.rows

LEMMA RunPlaces ==
  ASSUME geometry \in Geometries, NEW kept \in SUBSET Timed, NEW all,
         all = UNION {Groups(o, kept) : o \in Ordinals}
  PROVE  Placement(all, kept)
<1>1. ASSUME NEW g \in all
      PROVE  \E o \in Ordinals : g \in Groups(o, kept)
  OBVIOUS
<1>2. ASSUME NEW g \in all, NEW r \in g.rows
      PROVE  r \in kept /\ r.key = g.key /\ g.window \in WindowsOf(r, kept)
  BY <1>1, <1>2, GroupHolds
<1>3. ASSUME NEW r \in kept, NEW w \in WindowsOf(r, kept)
      PROVE  \E g \in all : /\ g.window = w /\ g.key = r.key
                            /\ \A s \in kept : s.key = r.key /\ w \in WindowsOf(s, kept) => s \in g.rows
  <2>1. r.key \in Hashes
    BY DEF Timed
  <2>2. PICK o \in Ordinals : Mine(o, r.key)
    BY <2>1, OneOwner
  <2>3. Groups(o, kept) \subseteq all
    BY <2>2
  <2> QED BY <1>3, <2>2, <2>3, GroupOf
<1>4. UNION {g.rows : g \in all} = kept
  <2>1. ASSUME NEW r \in kept PROVE \E g \in all : r \in g.rows
    <3>1. PICK w \in WindowsOf(r, kept) : TRUE
      BY SomeWindow
    <3> QED BY <1>3, <3>1
  <2> QED BY <1>2, <2>1
<1>5. ASSUME NEW o \in Ordinals, NEW p \in Ordinals, o # p,
             NEW g \in Groups(o, kept), g \in Groups(p, kept)
      PROVE  FALSE
  <2>1. PICK r \in g.rows : r \in kept /\ Mine(o, r.key) /\ Mine(p, r.key)
    BY <1>5, GroupHolds
  <2>2. r.key \in Hashes
    BY <2>1 DEF Timed
  <2> QED BY <1>5, <2>1, <2>2, OneOwner
<1>6. ASSUME Intervals
      PROVE  /\ \A g \in all : \A r \in g.rows : Covers(g.window, r.ts)
             /\ \A r \in kept : \A w \in Int :
                  Covers(w, r.ts) => \E g \in all : g.window = w /\ r \in g.rows
  <2>0. geometry \in {"tumbling", "sliding"} /\ Size % Slide = 0
    BY <1>6 DEF Geometries, Intervals
  <2>1. ASSUME NEW g \in all, NEW r \in g.rows PROVE Covers(g.window, r.ts)
    BY <1>2, <2>0, <2>1, WindowsCover
  <2>2. ASSUME NEW r \in kept, NEW w \in Int, Covers(w, r.ts)
        PROVE  \E g \in all : g.window = w /\ r \in g.rows
    <3>1. w \in WindowsOf(r, kept)
      BY <2>0, <2>2, WindowsCover
    <3> QED BY <1>3, <3>1
  <2> QED BY <2>1, <2>2
<1>7. ASSUME geometry = "session", NEW r \in kept, NEW s \in kept
      PROVE  SameSession(r, s, kept) <=> \E g \in all : r \in g.rows /\ s \in g.rows
  <2>1. \A q \in kept : WindowsOf(q, kept) = {SessionsOf(kept)[q]}
    BY <1>7 DEF WindowsOf
  <2>2. ASSUME NEW g \in all, r \in g.rows, s \in g.rows
        PROVE  r.key = s.key /\ SessionsOf(kept)[r] = SessionsOf(kept)[s]
    BY <1>2, <2>1, <2>2
  <2>3. ASSUME r.key = s.key, SessionsOf(kept)[r] = SessionsOf(kept)[s]
        PROVE  \E g \in all : r \in g.rows /\ s \in g.rows
    <3>1. SessionsOf(kept)[r] \in WindowsOf(r, kept) /\ SessionsOf(kept)[r] \in WindowsOf(s, kept)
      BY <2>1, <2>3
    <3> QED BY <1>3, <2>3, <3>1
  <2> QED BY <2>2, <2>3, SessionsAreRight
<1> QED BY <1>4, <1>5, <1>6, <1>7 DEF Placement

LEMMA PlacedStep == WindowInv /\ EveryRowPlaced /\ [WindowNext]_windowVars => EveryRowPlaced'
<1> SUFFICES ASSUME WindowInv, EveryRowPlaced, [WindowNext]_windowVars
             PROVE  EveryRowPlaced'
  OBVIOUS
<1>1. CASE UNCHANGED windowVars
  <2>1. /\ AllGroups' = AllGroups /\ AllDropped' = AllDropped
        /\ arrival' = arrival /\ results' = results /\ geometry' = geometry
    BY <1>1 DEF windowVars, AllGroups, AllDropped
  <2>2. ASSUME NEW w, NEW ts PROVE Covers(w, ts)' <=> Covers(w, ts)
    BY <2>1 DEF Covers
  <2>3. UNION {g.rows : g \in AllGroups'} = (arrival \ AllDropped)'
    BY <2>1 DEF EveryRowPlaced
  <2>4. \A o, p \in Ordinals : o # p => results'[o].groups \cap results'[p].groups = {}
    BY <2>1 DEF EveryRowPlaced
  <2>5. geometry' # "session" /\ Size % Slide = 0 =>
          /\ \A g \in AllGroups' : \A r \in g.rows : Covers(g.window, r.ts)'
          /\ \A r \in (arrival \ AllDropped)' : \A w \in Reach :
               Covers(w, r.ts)' => \E g \in AllGroups' : g.window = w /\ r \in g.rows
    BY <2>1, <2>2 DEF EveryRowPlaced
  <2>6. geometry' = "session" => \A r, s \in (arrival \ AllDropped)' :
          SameSession(r, s, (arrival \ AllDropped)')
            <=> \E g \in AllGroups' : r \in g.rows /\ s \in g.rows
    BY <2>1 DEF EveryRowPlaced
  <2> QED BY <2>3, <2>4, <2>5, <2>6 DEF EveryRowPlaced
<1>2. CASE WindowNext
  <2>1. geometry' = geometry /\ geometry \in Geometries
    BY <1>2, ArrivalIs DEF WindowInv
  <2>2. CASE arrival' = {}
    <3>1. results' = [p \in Ordinals |-> Nothing]
      BY <1>2, <2>2, ArrivalIs
    <3>2. AllGroups' = {}
      BY <3>1 DEF AllGroups, Nothing
    <3>3. \A o, p \in Ordinals : results'[o].groups = {}
      BY <3>1 DEF Nothing
    <3> QED BY <2>2, <3>2, <3>3 DEF EveryRowPlaced
  <2>3. CASE arrival' # {}
    <3> DEFINE kept == arrival' \ Beyond(arrival')
    <3>1. /\ kept \in SUBSET Timed
          /\ (arrival \ AllDropped)' = kept
          /\ \A o \in Ordinals : results'[o].groups = Groups(o, kept)
          /\ AllGroups' = UNION {Groups(o, kept) : o \in Ordinals}
      BY <1>2, <2>3, RunLeaves
    <3> HIDE DEF kept
    <3>2. \A w \in Reach : kept # {} => w \in Int
      <4> SUFFICES ASSUME NEW w \in Reach, NEW r \in kept PROVE w \in Int
        OBVIOUS
      <4>1. r.ts \in Stamps
        BY <3>1 DEF Timed
      <4>2. Min(Stamps) \in Int /\ Max(Stamps) \in Int
        BY <4>1, GeometryAssumption, MinOfFinite, MaxOfFinite
      <4> QED BY <4>2, GeometryAssumption DEF Reach
    <3>3. ASSUME NEW w, NEW ts PROVE Covers(w, ts)' <=> Covers(w, ts)
      BY <2>1 DEF Covers
    <3>4. Placement(AllGroups', kept)
      <4>1. ASSUME NEW K \in SUBSET Timed, NEW all, all = UNION {Groups(o, K) : o \in Ordinals}
            PROVE  Placement(all, K)
        BY <2>1, <4>1, RunPlaces
      <4> QED BY <3>1, <4>1
    <3>5. UNION {g.rows : g \in AllGroups'} = (arrival \ AllDropped)'
      BY <3>1, <3>4 DEF Placement
    <3>6. \A o, p \in Ordinals : o # p => results'[o].groups \cap results'[p].groups = {}
      BY <3>1, <3>4 DEF Placement
    <3>7. Intervals => /\ \A g \in AllGroups' : \A r \in g.rows : Covers(g.window, r.ts)'
                       /\ \A r \in kept : \A w \in Reach :
                            Covers(w, r.ts)' => \E g \in AllGroups' : g.window = w /\ r \in g.rows
      BY <3>2, <3>3, <3>4 DEF Placement
    <3>8. geometry' = "session" => \A r, s \in kept :
               SameSession(r, s, kept) <=> \E g \in AllGroups' : r \in g.rows /\ s \in g.rows
      BY <2>1, <3>4 DEF Placement
    <3> QED BY <2>1, <3>1, <3>5, <3>6, <3>7, <3>8 DEF EveryRowPlaced, Intervals
  <2> QED BY <2>2, <2>3
<1> QED BY <1>1, <1>2

(* For all timestamps before and after the epoch, key hashes, sizes,       *)
(* slides, gaps and numbers of instances: every timed row is in the side   *)
(* output or in the groups of its own windows or session, of one instance. *)
THEOREM RowsFindTheirWindows == WindowSpec => []EveryRowPlaced
<1>1. WindowInit => EveryRowPlaced
  <2> SUFFICES ASSUME WindowInit PROVE EveryRowPlaced
    OBVIOUS
  <2>1. AllGroups = {} /\ arrival = {} /\ \A o \in Ordinals : results[o].groups = {}
    BY DEF WindowInit, AllGroups, Nothing
  <2> QED BY <2>1 DEF EveryRowPlaced
<1> QED BY <1>1, AlwaysWindowInv, PlacedStep, PTL DEF WindowSpec

-----------------------------------------------------------------------------
(***************************************************************************)
(* The scheduler.                                                          *)
(***************************************************************************)

(* One step is a way, and a way goes on with a step. *)
LEMMA WayGoesOn ==
  ASSUME NEW next \in [Pipelines -> SUBSET Pipelines], NEW i \in Pipelines
  PROVE  /\ \A j \in next[i] : LeadsTo(next, i, j)
         /\ \A j \in Pipelines : LeadsTo(next, i, j) => \A k \in next[j] : LeadsTo(next, i, k)
BY DEF LeadsTo

(* A way leads to nothing but what a closed set holds. *)
LEMMA WayStays ==
  ASSUME NEW next \in [Pipelines -> SUBSET Pipelines], NEW i \in Pipelines, NEW j \in Pipelines,
         LeadsTo(next, i, j), NEW reached \in SUBSET Pipelines,
         next[i] \subseteq reached, \A k \in reached : next[k] \subseteq reached
  PROVE  j \in reached
BY DEF LeadsTo

(* Where everybody leads to somebody, somebody leads to himself. *)
LEMMA RingExists ==
  ASSUME NEW next \in [Pipelines -> SUBSET Pipelines],
         NEW ring \in SUBSET Pipelines, ring # {}, \A i \in ring : next[i] \cap ring # {}
  PROVE  \E i \in ring : LeadsTo(next, i, i)
<1> DEFINE Reached(i) == {j \in ring : LeadsTo(next, i, j)}
           sizes == {Cardinality(Reached(i)) : i \in ring}
<1>1. IsFiniteSet(ring)
  <2>1. IsFiniteSet(Pipelines)
    BY SchedulerAssumption, FS_Interval DEF Pipelines
  <2> QED BY <2>1, FS_Subset
<1>2. ASSUME NEW i \in ring
      PROVE  IsFiniteSet(Reached(i)) /\ Cardinality(Reached(i)) \in Nat
  BY <1>1, FS_Subset, FS_CardinalityType
<1>3. PICK i \in ring : \A j \in ring : Cardinality(Reached(i)) <= Cardinality(Reached(j))
  <2>1. sizes \in SUBSET Nat /\ sizes # {}
    BY <1>2
  <2>2. PICK n \in sizes : \A m \in sizes : n <= m
    BY <2>1, LeastExists
  <2> QED BY <2>2
<1>4. PICK j \in ring : j \in next[i]
  BY <1>3
<1>5. LeadsTo(next, i, j)
  BY <1>4, WayGoesOn
<1>6. ASSUME NEW k \in ring, LeadsTo(next, j, k)
      PROVE  LeadsTo(next, i, k)
  <2> DEFINE reached == {l \in Pipelines : LeadsTo(next, i, l)}
  <2>1. \A l \in reached : next[l] \subseteq reached
    BY WayGoesOn
  <2>2. next[j] \subseteq reached
    BY <1>5, <2>1
  <2>3. k \in reached
    BY <1>6, <2>1, <2>2, WayStays
  <2> QED BY <2>3
<1>7. Reached(j) \in SUBSET Reached(i)
  BY <1>6
<1>8. Reached(j) = Reached(i)
  <2>1. Cardinality(Reached(j)) <= Cardinality(Reached(i))
    BY <1>2, <1>7, FS_Subset
  <2>2. Cardinality(Reached(j)) = Cardinality(Reached(i))
    <3>1. Cardinality(Reached(i)) \in Nat /\ Cardinality(Reached(j)) \in Nat
      BY <1>2, <1>3, <1>4
    <3>2. Cardinality(Reached(i)) <= Cardinality(Reached(j))
      BY <1>3, <1>4
    <3> HIDE DEF Reached
    <3> QED BY <2>1, <3>1, <3>2
  <2> QED BY <1>2, <1>7, <2>2, FS_Subset
<1>9. j \in Reached(j)
  BY <1>5, <1>8
<1> QED BY <1>9

Fates == {"waiting", "starved", "backpressured", "empty", "produced", "error"}

SchedulerType ==
  /\ depends \in [Pipelines -> [Pipelines -> {"none", "order", "data"}]]
  /\ \A i \in Pipelines : depends[i][i] = "none"
  /\ inDegree \in [Pipelines -> Nat]
  /\ queue \in SUBSET Pipelines
  /\ stages \in Seq(SUBSET Pipelines)
  /\ tick \in {"planning", "running", "done", "failed", "refused"}
  /\ fate \in [Pipelines -> Fates]

(* The counters count what is not planned yet, and the queue holds the     *)
(* pipelines that wait for nothing else.                                   *)
CountersInv == \A i \in Pipelines : inDegree[i] = Cardinality(Dependencies(i) \ Planned)

QueueInv == queue = {i \in Pipelines \ Planned : Dependencies(i) \subseteq Planned}

(* A stage holds pipelines of no other, whose dependencies earlier ones hold. *)
StagesInv ==
  /\ \A k, l \in DOMAIN stages : k # l => stages[k] \cap stages[l] = {}
  /\ \A k \in DOMAIN stages : \A i \in stages[k] : \A j \in Dependencies(i) :
       \E l \in DOMAIN stages : l < k /\ j \in stages[l]

PlanInv ==
  /\ SchedulerType /\ CountersInv /\ QueueInv /\ StagesInv
  /\ tick = "planning" => \A i \in Pipelines : fate[i] = "waiting"
  /\ tick = "refused" => queue = {} /\ Planned # Pipelines
  /\ tick \in {"running", "done", "failed"} => Planned = Pipelines

(* The tick: no pipeline before what it depends on, and none runs on the   *)
(* data of one that has none.                                              *)
Dry == {"starved", "backpressured", "empty"}

TickInv ==
  /\ \A i \in Pipelines : \A j \in Dependencies(i) : fate[i] # "waiting" => fate[j] # "waiting"
  /\ \A i \in Pipelines : \A j \in DataFrom(i) : fate[j] \in Dry => fate[i] \in {"waiting", "starved"}

LEMMA DependenciesFinite ==
  ASSUME NEW S \in SUBSET Pipelines
  PROVE  IsFiniteSet(S) /\ Cardinality(S) \in Nat
<1>1. IsFiniteSet(Pipelines)
  BY SchedulerAssumption, FS_Interval DEF Pipelines
<1> QED BY <1>1, FS_Subset, FS_CardinalityType

LEMMA PlannedType ==
  ASSUME SchedulerType
  PROVE  Planned \in SUBSET Pipelines /\ \A i \in Pipelines : Dependencies(i) \in SUBSET Pipelines
BY DEF SchedulerType, Planned, Dependencies

LEMMA DrainKeeps ==
  ASSUME PlanInv, DrainQueue
  PROVE  PlanInv'
<1> DEFINE n == Len(stages)
<1>1. /\ SchedulerType /\ tick = "planning" /\ queue # {}
      /\ stages' = Append(stages, queue)
      /\ inDegree' = [i \in Pipelines |-> inDegree[i] - Cardinality(Dependencies(i) \cap queue)]
      /\ queue' = {i \in Pipelines : Dependencies(i) \cap queue # {} /\ inDegree'[i] = 0}
      /\ depends' = depends /\ tick' = tick /\ fate' = fate
  BY DEF DrainQueue, PlanInv
<1>2. /\ n \in Nat /\ DOMAIN stages = 1..n /\ DOMAIN stages' = 1..(n + 1)
      /\ stages'[n + 1] = queue /\ \A k \in 1..n : stages'[k] = stages[k]
      /\ stages' \in Seq(SUBSET Pipelines)
  BY <1>1 DEF SchedulerType
<1>3. Planned' = Planned \cup queue
  <2>1. ASSUME NEW i PROVE i \in Planned' <=> i \in Planned \cup queue
    <3>1. i \in Planned' <=> \E k \in 1..(n + 1) : i \in stages'[k]
      BY <1>2 DEF Planned
    <3>2. i \in Planned <=> \E k \in 1..n : i \in stages[k]
      BY <1>2 DEF Planned
    <3>3. \A k : k \in 1..(n + 1) <=> k \in 1..n \/ k = n + 1
      BY <1>2
    <3> QED BY <1>2, <3>1, <3>2, <3>3
  <2> QED BY <2>1
<1>4. \A i \in Pipelines : (Dependencies(i))' = Dependencies(i)
  BY <1>1 DEF Dependencies
<1>5. queue \cap Planned = {}
  BY DEF PlanInv, QueueInv
<1>6. ASSUME NEW i \in Pipelines
      PROVE  /\ inDegree'[i] = Cardinality(Dependencies(i) \ Planned')
             /\ inDegree'[i] \in Nat
             /\ inDegree'[i] = 0 <=> Dependencies(i) \subseteq Planned'
  <2> DEFINE open == Dependencies(i) \ Planned
             now  == Dependencies(i) \cap queue
  <2>1. open \in SUBSET Pipelines /\ now \in SUBSET Pipelines
    BY <1>1, PlannedType
  <2>2. open \cap now = now /\ open \ now = Dependencies(i) \ Planned'
    BY <1>3, <1>5
  <2>3. Cardinality(open \ now) = Cardinality(open) - Cardinality(now)
    <3>1. IsFiniteSet(open)
      BY <2>1, DependenciesFinite
    <3> HIDE DEF open, now
    <3>2. Cardinality(open \ now) = Cardinality(open) - Cardinality(open \cap now)
      BY <3>1, FS_Difference
    <3> QED BY <2>2, <3>2
  <2>4. inDegree'[i] = Cardinality(Dependencies(i) \ Planned')
    BY <1>1, <2>2, <2>3 DEF PlanInv, CountersInv
  <2>5. IsFiniteSet(open \ now) /\ Cardinality(open \ now) \in Nat
    BY <2>1, DependenciesFinite
  <2>6. inDegree'[i] = 0 <=> Dependencies(i) \ Planned' = {}
    BY <2>2, <2>4, <2>5, FS_EmptySet
  <2> QED BY <2>2, <2>4, <2>5, <2>6
<1>7. SchedulerType'
  <2>1. inDegree' \in [Pipelines -> Nat]
    BY <1>1, <1>6
  <2> QED BY <1>1, <1>2, <2>1 DEF SchedulerType
<1>8. CountersInv'
  BY <1>4, <1>6 DEF CountersInv
<1>9. QueueInv'
  <2>1. ASSUME NEW i \in Pipelines
        PROVE  i \in queue' <=> i \notin Planned' /\ Dependencies(i) \subseteq Planned'
    <3>1. ASSUME i \in Planned' PROVE Dependencies(i) \subseteq Planned
      <4>1. CASE i \in queue
        BY <4>1 DEF PlanInv, QueueInv
      <4>2. CASE i \in Planned
        <5>1. PICK k \in DOMAIN stages : i \in stages[k]
          BY <4>2 DEF Planned
        <5>2. \A j \in Dependencies(i) : \E l \in DOMAIN stages : j \in stages[l]
          BY <5>1 DEF PlanInv, StagesInv
        <5> QED BY <5>2 DEF Planned
      <4> QED BY <1>3, <3>1, <4>1, <4>2
    <3>2. i \in queue <=> i \notin Planned /\ Dependencies(i) \subseteq Planned
      BY DEF PlanInv, QueueInv
    <3> QED BY <1>1, <1>3, <1>5, <1>6, <3>1, <3>2
  <2> QED BY <1>1, <1>4, <2>1 DEF QueueInv
<1>10. StagesInv'
  <2>1. ASSUME NEW k \in DOMAIN stages', NEW l \in DOMAIN stages', k # l
        PROVE  stages'[k] \cap stages'[l] = {}
    <3>1. ASSUME NEW m \in 1..n PROVE stages[m] \cap queue = {}
      BY <1>2, <1>5 DEF Planned
    <3>2. \A a, b \in 1..n : a # b => stages[a] \cap stages[b] = {}
      BY <1>2 DEF PlanInv, StagesInv
    <3>3. \A a \in 1..(n + 1) : a \in 1..n \/ a = n + 1
      BY <1>2
    <3> QED BY <1>2, <2>1, <3>1, <3>2, <3>3
  <2>2. ASSUME NEW k \in DOMAIN stages', NEW i \in stages'[k], NEW j \in Dependencies(i)
        PROVE  \E l \in DOMAIN stages' : l < k /\ j \in stages'[l]
    <3>1. CASE k \in 1..n
      <4>1. PICK l \in DOMAIN stages : l < k /\ j \in stages[l]
        BY <1>2, <2>2, <3>1 DEF PlanInv, StagesInv
      <4> QED BY <1>2, <4>1
    <3>2. CASE k = n + 1
      <4>1. j \in Planned
        BY <1>2, <2>2, <3>2 DEF PlanInv, QueueInv
      <4>2. PICK l \in 1..n : j \in stages[l]
        BY <1>2, <4>1 DEF Planned
      <4>3. l < k /\ l \in 1..(n + 1)
        BY <1>2, <3>2
      <4> QED BY <1>2, <4>2, <4>3
    <3> QED BY <1>2, <3>1, <3>2
  <2>3. \A k \in DOMAIN stages' : \A i \in stages'[k] : i \in Pipelines
    BY <1>7 DEF SchedulerType
  <2> QED BY <1>4, <2>1, <2>2, <2>3 DEF StagesInv
<1> QED BY <1>1, <1>7, <1>8, <1>9, <1>10 DEF PlanInv

LEMMA PlanInvKept == PlanInv /\ [SchedulerNext]_schedulerVars => PlanInv'
<1> SUFFICES ASSUME PlanInv, [SchedulerNext]_schedulerVars
             PROVE  PlanInv'
  OBVIOUS
<1>1. ASSUME UNCHANGED <<depends, inDegree, queue, stages>>
      PROVE  /\ Planned' = Planned /\ CountersInv' /\ QueueInv' /\ StagesInv'
  <2>1. Planned' = Planned /\ \A i \in Pipelines : (Dependencies(i))' = Dependencies(i)
    BY <1>1 DEF Planned, Dependencies
  <2>2. CountersInv'
    BY <1>1, <2>1 DEF PlanInv, CountersInv
  <2>3. QueueInv'
    BY <1>1, <2>1 DEF PlanInv, QueueInv
  <2>4. \A k \in DOMAIN stages : \A i \in stages[k] : i \in Pipelines
    BY DEF PlanInv, SchedulerType
  <2>5. StagesInv'
    BY <1>1, <2>1, <2>4 DEF PlanInv, StagesInv
  <2> QED BY <2>1, <2>2, <2>3, <2>5
<1>2. CASE DrainQueue
  BY <1>2, DrainKeeps
<1>3. CASE FinishPlan
  BY <1>1, <1>3 DEF FinishPlan, PlanInv, SchedulerType
<1>4. CASE \E i \in Pipelines : Visit(i)
  <2>1. PICK i \in Pipelines : Visit(i)
    BY <1>4
  <2>2. fate' \in [Pipelines -> Fates] /\ tick' \in {"running", "failed"} /\ tick = "running"
    BY <2>1 DEF Visit, Turn, PlanInv, SchedulerType, Fates
  <2>3. UNCHANGED <<depends, inDegree, queue, stages>>
    BY <2>1 DEF Visit
  <2> QED BY <1>1, <2>2, <2>3 DEF PlanInv, SchedulerType
<1>5. CASE EndTick
  BY <1>1, <1>5 DEF EndTick, PlanInv, SchedulerType
<1>6. CASE UNCHANGED schedulerVars
  BY <1>1, <1>6 DEF schedulerVars, PlanInv, SchedulerType
<1> QED BY <1>2, <1>3, <1>4, <1>5, <1>6 DEF SchedulerNext

LEMMA AlwaysPlanInv == SchedulerSpec => []PlanInv
<1>1. SchedulerInit => PlanInv
  <2> SUFFICES ASSUME SchedulerInit PROVE PlanInv
    OBVIOUS
  <2>1. Planned = {}
    BY DEF SchedulerInit, Planned
  <2>2. ASSUME NEW i \in Pipelines PROVE Cardinality(Dependencies(i)) \in Nat
    <3>1. Dependencies(i) \in SUBSET Pipelines
      BY DEF Dependencies
    <3> QED BY <3>1, DependenciesFinite
  <2>3. SchedulerType
    BY <2>2 DEF SchedulerInit, SchedulerType, Fates
  <2>4. CountersInv
    BY <2>1 DEF SchedulerInit, CountersInv
  <2>5. QueueInv
    BY <2>1 DEF SchedulerInit, QueueInv
  <2>6. StagesInv
    BY DEF SchedulerInit, StagesInv
  <2> QED BY <2>3, <2>4, <2>5, <2>6 DEF SchedulerInit, PlanInv
<1> QED BY <1>1, PlanInvKept, PTL DEF SchedulerSpec

(* In a complete plan every pipeline has one stage, after its dependencies'. *)
LEMMA StageOfIs ==
  ASSUME PlanInv, Planned = Pipelines, NEW i \in Pipelines
  PROVE  /\ StageOf(i) \in DOMAIN stages /\ i \in stages[StageOf(i)]
         /\ StageOf(i) \in Int
         /\ \A j \in Dependencies(i) : StageOf(j) < StageOf(i)
<1>1. ASSUME NEW j \in Pipelines
      PROVE  StageOf(j) \in DOMAIN stages /\ j \in stages[StageOf(j)]
  <2>1. \E k \in DOMAIN stages : j \in stages[k]
    BY <1>1 DEF Planned
  <2> QED BY <2>1 DEF StageOf
<1>2. DOMAIN stages \subseteq Int
  BY DEF PlanInv, SchedulerType
<1>3. ASSUME NEW j \in Dependencies(i) PROVE StageOf(j) < StageOf(i)
  <2>1. PICK l \in DOMAIN stages : l < StageOf(i) /\ j \in stages[l]
    BY <1>1, <1>3 DEF PlanInv, StagesInv
  <2>2. j \in Pipelines
    BY DEF Dependencies
  <2>3. l = StageOf(j)
    BY <1>1, <2>1, <2>2 DEF PlanInv, StagesInv
  <2> QED BY <2>1, <2>3
<1> QED BY <1>1, <1>2, <1>3

LEMMA TickInvKept == PlanInv /\ TickInv /\ [SchedulerNext]_schedulerVars => TickInv'
<1> SUFFICES ASSUME PlanInv, TickInv, [SchedulerNext]_schedulerVars
             PROVE  TickInv'
  OBVIOUS
<1>1. depends' = depends
  BY DEF SchedulerNext, schedulerVars, DrainQueue, FinishPlan, Visit, EndTick
<1>2. \A i \in Pipelines : (Dependencies(i))' = Dependencies(i) /\ (DataFrom(i))' = DataFrom(i)
  BY <1>1 DEF Dependencies, DataFrom
<1>3. CASE fate' = fate
  BY <1>2, <1>3 DEF TickInv
<1>4. ASSUME NEW v \in Pipelines, Visit(v) PROVE TickInv'
  <2>1. /\ tick = "running" /\ fate[v] = "waiting" /\ fate \in [Pipelines -> Fates]
        /\ \A j \in Pipelines : fate[j] = "waiting" => Before(v, j)
    BY <1>4 DEF Visit, Turn, Waiting, PlanInv, SchedulerType
  <2>2. PICK end \in Fates \ {"waiting"} :
          fate' = [fate EXCEPT ![v] = end] /\ (Starved(v) => end = "starved")
    BY <1>4 DEF Visit, Fates
  <2>3. Planned = Pipelines
    BY <2>1 DEF PlanInv
  <2>4. ASSUME NEW j \in Dependencies(v) PROVE fate[j] # "waiting" /\ j # v
    <3>1. StageOf(j) < StageOf(v) /\ StageOf(v) \in Int /\ j \in Pipelines
      BY <2>3, StageOfIs DEF Dependencies
    <3>2. StageOf(j) \in Int
      BY <2>3, <3>1, StageOfIs
    <3>3. ~Before(v, j)
      BY <3>1, <3>2 DEF Before
    <3>4. j # v
      BY <3>1, <3>2
    <3> QED BY <2>1, <3>1, <3>3, <3>4
  <2>5. \A i \in Pipelines : DataFrom(i) \subseteq Dependencies(i) /\ Dependencies(i) \subseteq Pipelines
    BY DEF DataFrom, Dependencies
  <2>6. ASSUME NEW i \in Pipelines, NEW j \in Dependencies(i), fate'[i] # "waiting"
        PROVE  fate'[j] # "waiting"
    <3>1. CASE i = v
      BY <2>1, <2>2, <2>4, <2>5, <3>1
    <3>2. CASE i # v
      BY <2>1, <2>2, <2>5, <2>6, <3>2 DEF TickInv
    <3> QED BY <3>1, <3>2
  <2>7. ASSUME NEW i \in Pipelines, NEW j \in DataFrom(i), fate'[j] \in Dry
        PROVE  fate'[i] \in {"waiting", "starved"}
    <3>0. j \in Pipelines /\ j \in Dependencies(i)
      BY <2>5
    <3>1. CASE i = v
      <4>1. fate'[j] = fate[j]
        BY <2>1, <2>2, <2>4, <3>0, <3>1
      <4>2. Starved(v)
        BY <2>7, <3>0, <3>1, <4>1 DEF Starved, ProducedZero, Dry, DataFrom
      <4> QED BY <2>1, <2>2, <3>1, <4>2
    <3>2. CASE i # v /\ j = v
      BY <2>1, <2>2, <3>0, <3>2 DEF TickInv
    <3>3. CASE i # v /\ j # v
      BY <2>1, <2>2, <2>7, <3>0, <3>3 DEF TickInv
    <3> QED BY <3>1, <3>2, <3>3
  <2> QED BY <1>2, <2>6, <2>7 DEF TickInv
<1> QED BY <1>3, <1>4 DEF SchedulerNext, schedulerVars, DrainQueue, FinishPlan, EndTick

LEMMA AlwaysTickInv == SchedulerSpec => []TickInv
<1>1. SchedulerInit => TickInv
  <2> SUFFICES ASSUME SchedulerInit PROVE TickInv
    OBVIOUS
  <2>1. \A i \in Pipelines : fate[i] = "waiting" /\ DataFrom(i) \subseteq Pipelines
    BY DEF SchedulerInit, DataFrom
  <2> QED BY <2>1 DEF TickInv, Dry
<1> QED BY <1>1, AlwaysPlanInv, TickInvKept, PTL DEF SchedulerSpec

(* For every dependency graph of any size: build_stages refuses exactly    *)
(* the cyclic ones, and the tick visits a pipeline only after everything   *)
(* it needs, however indirectly.                                           *)
THEOREM NeedsComeFirst == SchedulerSpec => []NeededFirst
<1>1. PlanInv /\ TickInv => NeededFirst
  <2> SUFFICES ASSUME PlanInv, TickInv PROVE NeededFirst
    OBVIOUS
  <2> DEFINE next == [k \in Pipelines |-> Dependencies(k)]
  <2>1. next \in [Pipelines -> SUBSET Pipelines]
    BY DEF Dependencies
  <2>2. \A i \in Pipelines : next[i] = Dependencies(i)
    OBVIOUS
  <2>3. \A i, j : Needs(i, j) <=> LeadsTo(next, i, j)
    BY DEF Needs
  <2> HIDE DEF next
  <2>4. ASSUME tick = "refused" PROVE \E i \in Pipelines : Needs(i, i)
    <3> DEFINE ring == Pipelines \ Planned
    <3>1. ring # {} /\ ring \in SUBSET Pipelines
      BY <2>4, PlannedType DEF PlanInv
    <3>2. ASSUME NEW i \in ring PROVE next[i] \cap ring # {}
      <4>1. i \notin queue
        BY <2>4 DEF PlanInv
      <4>2. ~(Dependencies(i) \subseteq Planned)
        BY <4>1 DEF PlanInv, QueueInv
      <4>3. Dependencies(i) \subseteq Pipelines
        BY DEF Dependencies
      <4> QED BY <2>2, <4>2, <4>3
    <3> HIDE DEF ring
    <3>3. \E i \in ring : LeadsTo(next, i, i)
      BY <2>1, <3>1, <3>2, RingExists
    <3> QED BY <2>3, <3>1, <3>3
  <2>5. ASSUME Planned = Pipelines, NEW i \in Pipelines, NEW j \in Pipelines, Needs(i, j)
        PROVE  StageOf(j) < StageOf(i) /\ (fate[i] # "waiting" => fate[j] # "waiting")
    <3> DEFINE reached == {k \in Pipelines : /\ StageOf(k) < StageOf(i)
                                             /\ fate[i] # "waiting" => fate[k] # "waiting"}
    <3>1. next[i] \subseteq reached
      BY <2>1, <2>2, <2>5, StageOfIs DEF TickInv
    <3>2. ASSUME NEW k \in reached, NEW l \in next[k] PROVE l \in reached
      <4>1. l \in Dependencies(k) /\ l \in Pipelines
        BY <2>1, <2>2, <3>2
      <4>2. StageOf(l) < StageOf(k) /\ StageOf(l) \in Int /\ StageOf(k) \in Int /\ StageOf(i) \in Int
        BY <2>5, <4>1, StageOfIs
      <4>3. StageOf(l) < StageOf(i)
        BY <4>2
      <4> QED BY <4>1, <4>3 DEF TickInv
    <3>3. j \in reached
      <4> HIDE DEF reached
      <4>1. reached \in SUBSET Pipelines
        BY DEF reached
      <4> QED BY <2>1, <2>3, <2>5, <3>1, <3>2, <4>1, WayStays
    <3> QED BY <3>3
  <2>6. ASSUME Planned = Pipelines, NEW i \in Pipelines PROVE ~Needs(i, i)
    <3>1. StageOf(i) \in Int
      BY <2>6, StageOfIs
    <3> QED BY <2>5, <2>6, <3>1
  <2>7. tick \in {"running", "done", "failed"} => Planned = Pipelines
    BY DEF PlanInv
  <2>8. \A k, l \in DOMAIN stages : k # l => stages[k] \cap stages[l] = {}
    BY DEF PlanInv, StagesInv
  <2> QED BY <2>4, <2>5, <2>6, <2>7, <2>8 DEF NeededFirst
<1> QED BY <1>1, AlwaysPlanInv, AlwaysTickInv, PTL

(* ... and a pipeline that was skipped or produced nothing stops every     *)
(* pipeline that draws on its data, however indirectly.                    *)
THEOREM DroughtReachesAll == SchedulerSpec => []DroughtSpreads
<1>1. TickInv => DroughtSpreads
  <2> SUFFICES ASSUME TickInv, NEW j \in Pipelines, fate[j] \in Dry,
                      NEW i \in Pipelines, DrawsOn(i, j)
               PROVE  fate[i] \in {"waiting", "starved"}
    BY DEF DroughtSpreads, Dry
  <2> DEFINE next == [k \in Pipelines |-> DataFrom(k)]
             reached == {k \in Pipelines : /\ fate[k] \in Dry => fate[i] \in {"waiting", "starved"}
                                           /\ fate[k] = "waiting" => fate[i] = "waiting"}
  <2>1. next \in [Pipelines -> SUBSET Pipelines]
    BY DEF DataFrom
  <2>2. ASSUME NEW k \in Pipelines, NEW l \in DataFrom(k)
        PROVE  /\ l \in Pipelines
               /\ fate[l] \in Dry => fate[k] \in {"waiting", "starved"}
               /\ fate[l] = "waiting" => fate[k] = "waiting"
    <3>1. l \in Pipelines /\ l \in Dependencies(k)
      BY <2>2 DEF DataFrom, Dependencies
    <3> QED BY <2>2, <3>1 DEF TickInv
  <2>3. next[i] \subseteq reached
    BY <2>2
  <2>4. \A k \in reached : next[k] \subseteq reached
    BY <2>2 DEF Dry
  <2>5. LeadsTo(next, i, j)
    BY DEF DrawsOn
  <2> HIDE DEF next
  <2>6. j \in reached
    BY <2>1, <2>3, <2>4, <2>5, WayStays
  <2> QED BY <2>6
<1> QED BY <1>1, AlwaysTickInv, PTL

-----------------------------------------------------------------------------
(***************************************************************************)
(* The pipeline.                                                           *)
(***************************************************************************)

(* What Serial unfolds to, for the first n systems. *)
UnfoldsSerial(a, which, n) ==
  a = [k \in 0..n |->
         IF k = 0 THEN [f \in Fields |-> [by |-> 0]]
         ELSE IF k \in which THEN Applied(a[k - 1], Produced(k, a[k - 1]))
         ELSE a[k - 1]]

LEMMA SerialExists ==
  ASSUME NEW which
  PROVE  \A n \in Nat : \E a : UnfoldsSerial(a, which, n)
<1> DEFINE S == {n \in Nat : \E a : UnfoldsSerial(a, which, n)}
           After(k, values) == IF k \in which THEN Applied(values, Produced(k, values)) ELSE values
<1>1. 0 \in S
  <2> DEFINE a == [k \in 0..0 |-> [f \in Fields |-> [by |-> 0]]]
  <2>1. \A k \in 0..0 : k = 0
    OBVIOUS
  <2>2. UnfoldsSerial(a, which, 0)
    BY <2>1 DEF UnfoldsSerial
  <2> QED BY <2>2
<1>2. ASSUME NEW n \in Nat, n \in S
      PROVE  n + 1 \in S
  <2>1. PICK a : UnfoldsSerial(a, which, n)
    BY <1>2
  <2>2. a[0] = [f \in Fields |-> [by |-> 0]] /\ \A k \in 1..n : a[k] = After(k, a[k - 1])
    BY <2>1 DEF UnfoldsSerial
  <2> HIDE DEF After
  <2> DEFINE b == [k \in 0..(n + 1) |-> IF k = n + 1 THEN After(n + 1, a[n]) ELSE a[k]]
             c == [k \in 0..(n + 1) |-> IF k = 0 THEN [f \in Fields |-> [by |-> 0]]
                                        ELSE After(k, b[k - 1])]
  <2>3. ASSUME NEW k \in 0..(n + 1) PROVE b[k] = c[k]
    <3>1. CASE k = 0
      BY <2>2, <3>1
    <3>2. CASE k \in 1..n
      BY <2>2, <3>2
    <3>3. CASE k = n + 1
      BY <3>3
    <3> QED BY <3>1, <3>2, <3>3
  <2>4. b = c
    BY <2>3
  <2>5. UnfoldsSerial(b, which, n + 1)
    <3>1. b = [k \in 0..(n + 1) |-> IF k = 0 THEN [f \in Fields |-> [by |-> 0]]
                                    ELSE After(k, b[k - 1])]
      BY <2>4
    <3> HIDE DEF b
    <3> QED BY <3>1 DEF UnfoldsSerial, After
  <2> QED BY <2>5
<1>3. Nat \subseteq S
  BY <1>1, <1>2, NatSetInduction
<1> QED BY <1>3

InitialValues == [f \in Fields |-> [by |-> 0]]

(* a has the values after every system of a serial run. *)
IsRun(a, which) ==
  /\ a[0] = InitialValues
  /\ \A k \in Systems : a[k] = IF k \in which THEN Applied(a[k - 1], Produced(k, a[k - 1]))
                               ELSE a[k - 1]

LEMMA SerialIsRun ==
  ASSUME NEW which
  PROVE  \E a : IsRun(a, which) /\ Serial(which) = a[NumSystems]
<1> DEFINE a == CHOOSE a : UnfoldsSerial(a, which, NumSystems)
<1>0. NumSystems \in Nat
  BY PipelineAssumption
<1>1. UnfoldsSerial(a, which, NumSystems)
  BY <1>0, SerialExists
<1>2. Serial(which) = a[NumSystems]
  BY DEF Serial, UnfoldsSerial
<1> HIDE DEF a
<1>3. a[0] = InitialValues
  BY <1>0, <1>1 DEF UnfoldsSerial, InitialValues
<1>4. ASSUME NEW k \in Systems
      PROVE  a[k] = IF k \in which THEN Applied(a[k - 1], Produced(k, a[k - 1])) ELSE a[k - 1]
  BY <1>0, <1>1 DEF UnfoldsSerial, Systems
<1> QED BY <1>2, <1>3, <1>4 DEF IsRun

(* There is one serial run. *)
LEMMA OneRun ==
  ASSUME NEW which, NEW a, NEW b, IsRun(a, which), IsRun(b, which)
  PROVE  a[NumSystems] = b[NumSystems]
<1> DEFINE S == {n \in Nat : n <= NumSystems => a[n] = b[n]}
<1>0. NumSystems \in Nat
  BY PipelineAssumption
<1>1. 0 \in S
  BY DEF IsRun
<1>2. ASSUME NEW n \in Nat, n \in S PROVE n + 1 \in S
  <2> SUFFICES ASSUME n + 1 <= NumSystems PROVE a[n + 1] = b[n + 1]
    OBVIOUS
  <2>1. a[n] = b[n] /\ n + 1 \in Systems /\ (n + 1) - 1 = n
    BY <1>0, <1>2 DEF Systems
  <2> QED BY <2>1 DEF IsRun
<1>3. Nat \subseteq S
  BY <1>1, <1>2, NatSetInduction
<1> QED BY <1>0, <1>3

Declarations == [reads : SUBSET Fields, writes : SUBSET Fields, parallel : BOOLEAN]

(* A value of every field. *)
IsDataset(values) == values = [f \in Fields |-> values[f]]

(* What a system writes into a field. *)
ValueBy(i, values) == [by |-> i, saw |-> [g \in metas[i].reads |-> values[g]]]

LEMMA ApplyOne ==
  ASSUME metas \in [Systems -> Declarations], NEW i \in Systems, NEW values
  PROVE  /\ IsDataset(Applied(values, Produced(i, values)))
         /\ \A f \in Fields : Applied(values, Produced(i, values))[f] =
              IF f \in metas[i].writes THEN ValueBy(i, values) ELSE values[f]
<1>1. DOMAIN Produced(i, values) = metas[i].writes
  BY DEF Produced
<1>2. \A f \in metas[i].writes : Produced(i, values)[f] = ValueBy(i, values)
  BY DEF Produced, ValueBy
<1> QED BY <1>1, <1>2 DEF Applied, IsDataset

(* No system of `which` follows one of `late`. *)
NoneFollow(late, which) == \A i \in late : \A j \in which : ~Follows(i, j)

(* The values `after` are those before with the late systems' writes. *)
Joined(late, values, after) ==
  /\ IsDataset(values) /\ IsDataset(after)
  /\ \A f \in Fields :
       /\ \A i \in late : f \in metas[i].writes => after[f] = ValueBy(i, values)
       /\ (\A i \in late : f \notin metas[i].writes) => after[f] = values[f]

(* Systems that come late, without a later system in between that touches  *)
(* what they write or writes what they read, may as well have come in      *)
(* their own order: they find the same values and leave the same.          *)
LEMMA JoinLate ==
  ASSUME metas \in [Systems -> Declarations],
         NEW before \in SUBSET Systems, NEW late \in SUBSET Systems, before \cap late = {},
         NEW both, both = before \cup late, NoneFollow(late, both),
         NEW a, IsRun(a, before), NEW b, IsRun(b, both)
  PROVE  Joined(late, a[NumSystems], b[NumSystems])
<1> DEFINE UpTo(n) ==
      /\ IsDataset(a[n]) /\ IsDataset(b[n])
      /\ \A f \in Fields :
           /\ \A i \in late : i <= n /\ f \in metas[i].writes => b[n][f] = ValueBy(i, a[n])
           /\ (\A i \in late : i <= n => f \notin metas[i].writes) => b[n][f] = a[n][f]
    S == {n \in Nat : n <= NumSystems => UpTo(n)}
<1>0. NumSystems \in Nat /\ \A i \in Systems : i \in Nat /\ 1 <= i /\ i <= NumSystems
  BY PipelineAssumption DEF Systems
<1>1. 0 \in S
  <2>1. a[0] = InitialValues /\ b[0] = InitialValues /\ \A i \in late : ~(i <= 0)
    BY <1>0 DEF IsRun
  <2>2. IsDataset(InitialValues)
    BY DEF IsDataset, InitialValues
  <2> QED BY <2>1, <2>2
<1>2. ASSUME NEW n \in Nat, n \in S
      PROVE  n + 1 \in S
  <2> SUFFICES ASSUME n + 1 <= NumSystems PROVE UpTo(n + 1)
    OBVIOUS
  <2> DEFINE k == n + 1
             mk == metas[k]
  <2>1. UpTo(n) /\ k \in Systems /\ k - 1 = n /\ k \in Nat
    BY <1>0, <1>2 DEF Systems
  <2>2. /\ a[k] = IF k \in before THEN Applied(a[n], Produced(k, a[n])) ELSE a[n]
        /\ b[k] = IF k \in before \cup late THEN Applied(b[n], Produced(k, b[n])) ELSE b[n]
    BY <2>1 DEF IsRun
  <2>3. \A i \in late : i <= k <=> i <= n \/ i = k
    BY <1>0
  <2>4. mk \in Declarations /\ \A i \in late : metas[i] \in Declarations
    BY <2>1
  <2> HIDE DEF k, mk
  <2>5. CASE k \notin before \cup late
    <3>1. a[k] = a[n] /\ b[k] = b[n] /\ \A i \in late : i <= k <=> i <= n
      BY <2>2, <2>3, <2>5
    <3>2. UpTo(k)
      BY <2>1, <3>1
    <3> QED BY <3>2 DEF k
  (* A system that follows one of the late ones would touch its fields. *)
  <2>6. ASSUME k \in before \cup late, NEW i \in late, i <= n
        PROVE  /\ metas[i].writes \cap (mk.reads \cup mk.writes) = {}
               /\ metas[i].reads \cap mk.writes = {}
    <3>1. i < k
      BY <1>0, <2>6 DEF k
    <3> QED BY <2>6, <3>1 DEF Follows, NoneFollow, mk
  (* It sees the same values in both runs. *)
  <2>7. ASSUME k \in before \cup late
        PROVE  \A g \in mk.reads : b[n][g] = a[n][g]
    <3> SUFFICES ASSUME NEW g \in mk.reads PROVE b[n][g] = a[n][g]
      OBVIOUS
    <3>1. g \in Fields
      BY <2>4 DEF Declarations
    <3>2. \A i \in late : i <= n => g \notin metas[i].writes
      BY <2>6, <2>7
    <3> QED BY <2>1, <3>1, <3>2
  <2>8. ASSUME k \in before \cup late
        PROVE  ValueBy(k, b[n]) = ValueBy(k, a[n])
    BY <2>7, <2>8 DEF ValueBy, mk
  <2>9. /\ IsDataset(Applied(a[n], Produced(k, a[n]))) /\ IsDataset(Applied(b[n], Produced(k, b[n])))
        /\ \A f \in Fields : Applied(a[n], Produced(k, a[n]))[f] =
             IF f \in mk.writes THEN ValueBy(k, a[n]) ELSE a[n][f]
        /\ \A f \in Fields : Applied(b[n], Produced(k, b[n]))[f] =
             IF f \in mk.writes THEN ValueBy(k, b[n]) ELSE b[n][f]
    BY <2>1, ApplyOne DEF mk
  <2>10. CASE k \in late
    <3>1. k \notin before
      BY <2>10
    <3>2. a[k] = a[n] /\ \A f \in Fields : b[k][f] = IF f \in mk.writes THEN ValueBy(k, a[n]) ELSE b[n][f]
      BY <2>2, <2>8, <2>9, <2>10, <3>1
    <3>3. IsDataset(a[k]) /\ IsDataset(b[k])
      BY <2>1, <2>2, <2>9, <2>10, <3>2
    <3>4. ASSUME NEW f \in Fields, NEW i \in late, i <= k, f \in metas[i].writes
          PROVE  b[k][f] = ValueBy(i, a[k])
      <4>1. CASE i = k
        BY <3>2, <3>4, <4>1 DEF mk
      <4>2. CASE i <= n
        <5>1. f \notin mk.writes
          BY <2>6, <2>10, <3>4, <4>2
        <5> QED BY <2>1, <3>2, <3>4, <4>2, <5>1
      <4> QED BY <2>3, <3>4, <4>1, <4>2
    <3>5. ASSUME NEW f \in Fields, \A i \in late : i <= k => f \notin metas[i].writes
          PROVE  b[k][f] = a[k][f]
      <4>1. f \notin mk.writes /\ \A i \in late : i <= n => f \notin metas[i].writes
        BY <2>3, <2>10, <3>5 DEF mk
      <4> QED BY <2>1, <3>2, <4>1
    <3>6. UpTo(k)
      BY <3>3, <3>4, <3>5
    <3> QED BY <3>6 DEF k
  <2>11. CASE k \in before
    <3>1. k \notin late
      BY <2>11
    <3>2. /\ \A f \in Fields : a[k][f] = IF f \in mk.writes THEN ValueBy(k, a[n]) ELSE a[n][f]
          /\ \A f \in Fields : b[k][f] = IF f \in mk.writes THEN ValueBy(k, a[n]) ELSE b[n][f]
      BY <2>2, <2>8, <2>9, <2>11
    <3>3. IsDataset(a[k]) /\ IsDataset(b[k])
      BY <2>2, <2>9, <2>11
    <3>4. ASSUME NEW f \in Fields, NEW i \in late, i <= k, f \in metas[i].writes
          PROVE  b[k][f] = ValueBy(i, a[k])
      <4>1. i <= n
        BY <2>3, <3>1, <3>4
      <4>2. f \notin mk.writes /\ metas[i].reads \cap mk.writes = {}
        BY <2>6, <2>11, <3>4, <4>1
      <4>3. \A g \in metas[i].reads : a[k][g] = a[n][g]
        <5>1. metas[i].reads \subseteq Fields
          BY <2>4 DEF Declarations
        <5> QED BY <3>2, <4>2, <5>1
      <4>4. ValueBy(i, a[k]) = ValueBy(i, a[n])
        BY <4>3 DEF ValueBy
      <4> QED BY <2>1, <3>2, <3>4, <4>1, <4>2, <4>4
    <3>5. ASSUME NEW f \in Fields, \A i \in late : i <= k => f \notin metas[i].writes
          PROVE  b[k][f] = a[k][f]
      <4>1. \A i \in late : i <= n => f \notin metas[i].writes
        BY <2>3, <3>5
      <4> QED BY <2>1, <3>2, <4>1
    <3>6. UpTo(k)
      BY <3>3, <3>4, <3>5
    <3> QED BY <3>6 DEF k
  <2> QED BY <2>5, <2>10, <2>11
<1> HIDE DEF UpTo
<1>3. Nat \subseteq S
  BY <1>1, <1>2, NatSetInduction
<1>4. UpTo(NumSystems)
  BY <1>0, <1>3
<1> QED BY <1>0, <1>4 DEF UpTo, Joined
-----------------------------------------------------------------------------
(* The plan *)

Leaders(j) == {i \in 1..(j - 1) : Follows(i, j)}

UnfoldsLevel(l, n) ==
  l = [j \in 1..n |-> IF Leaders(j) = {} THEN 0 ELSE 1 + Max({l[i] : i \in Leaders(j)})]

LEMMA LevelExists == \A n \in Nat : \E l : UnfoldsLevel(l, n)
<1> DEFINE S == {n \in Nat : \E l : UnfoldsLevel(l, n)}
           Top(j, l) == IF Leaders(j) = {} THEN 0 ELSE 1 + Max({l[i] : i \in Leaders(j)})
<1>1. 0 \in S
  <2> DEFINE l == [j \in 1..0 |-> 0]
  <2>1. \A j \in 1..0 : FALSE
    OBVIOUS
  <2>2. UnfoldsLevel(l, 0)
    BY <2>1 DEF UnfoldsLevel
  <2> QED BY <2>2
<1>2. ASSUME NEW n \in Nat, n \in S
      PROVE  n + 1 \in S
  <2>1. PICK l : UnfoldsLevel(l, n)
    BY <1>2
  <2>2. \A j \in 1..n : l[j] = Top(j, l)
    BY <2>1 DEF UnfoldsLevel
  <2> DEFINE m == [j \in 1..(n + 1) |-> IF j = n + 1 THEN Top(n + 1, l) ELSE l[j]]
  <2>3. ASSUME NEW j \in 1..(n + 1) PROVE Top(j, m) = Top(j, l)
    <3>1. \A i \in Leaders(j) : m[i] = l[i]
      BY DEF Leaders
    <3> HIDE DEF m
    <3>2. {m[i] : i \in Leaders(j)} = {l[i] : i \in Leaders(j)}
      BY <3>1
    <3> QED BY <3>2
  <2> HIDE DEF Top
  <2>4. ASSUME NEW j \in 1..(n + 1) PROVE m[j] = Top(j, m)
    <3>1. CASE j = n + 1
      BY <2>3, <3>1
    <3>2. CASE j \in 1..n
      BY <2>2, <2>3, <3>2
    <3> QED BY <3>1, <3>2
  <2>5. m = [j \in 1..(n + 1) |-> Top(j, m)]
    <3>1. m = [j \in 1..(n + 1) |-> m[j]]
      OBVIOUS
    <3> HIDE DEF m
    <3> QED BY <2>4, <3>1
  <2>6. UnfoldsLevel(m, n + 1)
    <3> HIDE DEF m
    <3> QED BY <2>5 DEF UnfoldsLevel, Top
  <2> QED BY <2>6
<1>3. Nat \subseteq S
  BY <1>1, <1>2, NatSetInduction
<1> QED BY <1>3

(* A system is planned after every system it follows. *)
LEMMA LevelRises ==
  /\ Level \in [Systems -> Nat]
  /\ \A i, j \in Systems : Follows(i, j) => Level[i] < Level[j]
<1>0. NumSystems \in Nat
  BY PipelineAssumption
<1>1. UnfoldsLevel(Level, NumSystems)
  <2>1. Level = CHOOSE l : UnfoldsLevel(l, NumSystems)
    BY DEF Level, UnfoldsLevel, Leaders, Systems
  <2>2. \E l : UnfoldsLevel(l, NumSystems)
    BY <1>0, LevelExists
  <2> QED BY <2>1, <2>2
<1>2. /\ Level = [j \in Systems |-> Level[j]]
      /\ \A j \in Systems : Level[j] = IF Leaders(j) = {} THEN 0
                                       ELSE 1 + Max({Level[i] : i \in Leaders(j)})
  BY <1>1 DEF UnfoldsLevel, Systems
<1>3. ASSUME NEW j \in Systems, \A i \in Leaders(j) : Level[i] \in Nat
      PROVE  Level[j] \in Nat /\ \A i \in Leaders(j) : Level[i] < Level[j]
  <2>1. CASE Leaders(j) = {}
    <3>1. Level[j] = 0
      BY <1>2, <2>1
    <3>2. \A i \in Leaders(j) : FALSE
      BY <2>1
    <3>3. Level[j] \in Nat
      BY <3>1
    <3> QED BY <3>2, <3>3, Zenon
  <2>2. CASE Leaders(j) # {}
    <3> DEFINE heights == {Level[i] : i \in Leaders(j)}
               f == [i \in Leaders(j) |-> Level[i]]
    <3>1. heights \in SUBSET Int /\ heights # {}
      BY <1>3, <2>2
    <3>2. IsFiniteSet(Leaders(j))
      <4>1. Leaders(j) \in SUBSET (1..(j - 1)) /\ j - 1 \in Int
        BY <1>0 DEF Leaders, Systems
      <4> QED BY <4>1, FS_Interval, FS_Subset
    <3>3. f \in Surjection(Leaders(j), heights)
      BY DEF Surjection
    <3>4. IsFiniteSet(heights)
      BY <3>2, <3>3, FS_Surjection
    <3>5. Max(heights) \in heights /\ \A h \in heights : Max(heights) >= h
      BY <3>1, <3>4, MaxOfFinite
    <3>6. Level[j] = 1 + Max(heights)
      BY <1>2, <2>2
    <3>7. \A i \in Leaders(j) : Level[i] \in heights /\ Level[i] \in Nat
      BY <1>3
    <3>8. Max(heights) \in Nat
      BY <1>3, <3>5
    <3> HIDE DEF heights
    <3>9. \A i \in Leaders(j) : Level[i] <= Max(heights)
      BY <3>5, <3>7, <3>8
    <3> QED BY <3>6, <3>7, <3>8, <3>9
  <2> QED BY <2>1, <2>2
<1> DEFINE S == {n \in Nat : \A j \in Systems : j <= n => Level[j] \in Nat}
<1>4. 0 \in S
  BY <1>0 DEF Systems
<1>5. ASSUME NEW n \in Nat, n \in S PROVE n + 1 \in S
  <2> SUFFICES ASSUME NEW j \in Systems, j <= n + 1 PROVE Level[j] \in Nat
    OBVIOUS
  <2>1. ASSUME NEW i \in Leaders(j) PROVE Level[i] \in Nat
    <3>1. i \in Systems /\ i <= n
      BY <1>0 DEF Leaders, Systems
    <3> QED BY <1>5, <3>1
  <2> QED BY <1>3, <2>1
<1>6. Nat \subseteq S
  BY <1>4, <1>5, NatSetInduction
<1>7. ASSUME NEW j \in Systems PROVE Level[j] \in Nat
  <2>1. j \in Nat /\ j <= j
    BY <1>0 DEF Systems
  <2> QED BY <1>6, <2>1
<1>8. ASSUME NEW i \in Systems, NEW j \in Systems, Follows(i, j)
      PROVE  Level[i] < Level[j]
  <2>1. i \in Leaders(j)
    BY <1>0, <1>8 DEF Leaders, Systems, Follows
  <2>2. \A h \in Leaders(j) : h \in Systems
    BY <1>0 DEF Leaders, Systems
  <2> QED BY <1>3, <1>7, <2>1, <2>2
<1>9. Level \in [Systems -> Nat]
  <2> HIDE DEF S
  <2> QED BY <1>2, <1>7
<1> QED BY <1>8, <1>9

-----------------------------------------------------------------------------
(* The run *)

(* A system of the plan comes after those it follows. *)
PlanRises ==
  /\ levels \in [Systems -> Nat]
  /\ \A i, j \in Systems : Follows(i, j) => levels[i] < levels[j]

(* The systems that have reached the dataset while the stages run. *)
Reached == {i \in Systems : levels[i] < level} \cup (IF Concurrent THEN {} ELSE ran)

InSeries ==
  ~dirty /\ partly = {} => \E a : IsRun(a, applied) /\ dataset = a[NumSystems]

(* What an error in the middle of apply_write_set leaves behind. *)
CutShort ==
  partly # {} =>
    /\ pipeline = "failed"
    /\ ~dirty => \E a, b : /\ IsRun(a, applied) /\ IsRun(b, applied \cup partly)
                          /\ \A f \in Fields : dataset[f] \in {a[NumSystems][f], b[NumSystems][f]}

PipeInv ==
  /\ metas \in [Systems -> Declarations]
  /\ PlanRises
  /\ level \in Nat
  /\ ran \subseteq Stage(level)
  /\ applied \subseteq Systems
  /\ dirty \in BOOLEAN
  /\ IsDataset(dataset)
  /\ pipeline = "running" => applied = Reached
  /\ pipeline = "running" /\ Concurrent =>
       /\ DOMAIN writeSets \subseteq ran
       /\ \A i \in DOMAIN writeSets : writeSets[i] = Produced(i, dataset)
  /\ pipeline = "running" /\ ~Concurrent => DOMAIN writeSets = {}
  /\ pipeline = "done" => applied = Systems
  /\ InSeries
  /\ CutShort

LEMMA PipeInvInit == PipelineInit => PipeInv
<1> SUFFICES ASSUME PipelineInit PROVE PipeInv
  OBVIOUS
<1>1. metas \in [Systems -> Declarations]
  BY PipelineAssumption DEF PipelineInit, Declarations
<1>2. PlanRises
  BY LevelRises DEF PipelineInit, PlanRises
<1>3. dataset = InitialValues /\ IsDataset(dataset)
  BY DEF PipelineInit, InitialValues, IsDataset
<1>4. level = 0 /\ ran = {} /\ applied = {} /\ dirty = FALSE /\ pipeline = "running"
  BY DEF PipelineInit
<1>5. Reached = {}
  BY <1>2, <1>4 DEF Reached, PlanRises
<1>6. DOMAIN writeSets = {}
  BY DEF PipelineInit
<1>7. InSeries
  <2> DEFINE a == [k \in 0..NumSystems |-> InitialValues]
  <2>0. NumSystems \in Nat
    BY PipelineAssumption
  <2>1. a[0] = InitialValues /\ a[NumSystems] = InitialValues
    BY <2>0
  <2>2. \A k \in Systems : a[k] = a[k - 1]
    BY <2>0 DEF Systems
  <2> HIDE DEF a
  <2>3. IsRun(a, {})
    BY <2>1, <2>2 DEF IsRun
  <2> QED BY <1>3, <1>4, <2>1, <2>3 DEF InSeries
<1>8. CutShort
  BY DEF PipelineInit, CutShort
<1> QED BY <1>1, <1>2, <1>3, <1>4, <1>5, <1>6, <1>7, <1>8 DEF PipeInv

(* The declarations and the plan do not change, and what follows from them. *)
LEMMA PlanStays ==
  ASSUME PipeInv, UNCHANGED <<metas, levels>>
  PROVE  /\ metas' \in [Systems -> Declarations] /\ PlanRises'
         /\ \A l : Stage(l)' = Stage(l)
         /\ \A i, v : Produced(i, v)' = Produced(i, v)
         /\ \A a, w : IsRun(a, w)' <=> IsRun(a, w)
<1>1. metas' \in [Systems -> Declarations] /\ PlanRises'
  BY DEF PipeInv, PlanRises, Follows
<1>2. \A l : Stage(l)' = Stage(l)
  BY DEF Stage
<1>3. \A i, v : Produced(i, v)' = Produced(i, v)
  BY DEF Produced
<1>4. \A a, w : IsRun(a, w)' <=> IsRun(a, w)
  BY <1>3 DEF IsRun, Applied
<1> QED BY <1>1, <1>2, <1>3, <1>4

(* Systems of the stage being run join those of the stages before. *)
LEMMA StageJoins ==
  ASSUME PipeInv, ~dirty, partly = {}, NEW late \in SUBSET Stage(level), applied \cap late = {},
         \A j \in applied : levels[j] <= level
  PROVE  \E b : IsRun(b, applied \cup late) /\ Joined(late, dataset, b[NumSystems])
<1>1. PICK a : IsRun(a, applied) /\ dataset = a[NumSystems]
  BY DEF PipeInv, InSeries
<1>2. PICK b : IsRun(b, applied \cup late)
  BY SerialIsRun
<1>3. /\ metas \in [Systems -> Declarations] /\ applied \in SUBSET Systems
      /\ late \in SUBSET Systems /\ \A i \in late : levels[i] = level
  BY DEF PipeInv, Stage
<1>4. NoneFollow(late, applied \cup late)
  BY <1>3 DEF PipeInv, PlanRises, NoneFollow
<1>5. Joined(late, a[NumSystems], b[NumSystems])
  BY <1>1, <1>2, <1>3, <1>4, JoinLate
<1> QED BY <1>1, <1>2, <1>5

(* A write set that holds what some systems make of the dataset. *)
WrittenBy(which, ws) ==
  \A f \in Fields :
    /\ f \in DOMAIN ws <=> \E i \in which : f \in metas[i].writes
    /\ f \in DOMAIN ws =>
         \E i \in which : f \in metas[i].writes /\ ws[f] = ValueBy(i, dataset)

(* Systems of the stage being run hand over their write set, which reaches *)
(* the dataset in full or in part.                                         *)
LEMMA ApplyKeeps ==
  ASSUME PipeInv, pipeline = "running", UNCHANGED <<metas, levels, dirty>>,
         NEW which \in SUBSET Stage(level), which # {}, applied \cap which = {},
         NEW ws, WrittenBy(which, ws),
         ApplyWriteSet(which, ws) \/ ApplyFails(which, ws)
  PROVE  IsDataset(dataset)' /\ InSeries' /\ CutShort' /\ applied' \subseteq Systems
<1>1. partly = {} /\ applied \subseteq Systems /\ which \subseteq Systems
  BY DEF PipeInv, CutShort, Stage
<1>2. \A j \in applied : levels[j] <= level
  BY DEF PipeInv, PlanRises, Reached, Stage
<1>3. ASSUME ~dirty
      PROVE  \E a, b : /\ IsRun(a, applied) /\ dataset = a[NumSystems]
                       /\ IsRun(b, applied \cup which) /\ Joined(which, dataset, b[NumSystems])
  BY <1>1, <1>2, <1>3, StageJoins DEF PipeInv, InSeries
<1>4. CASE ApplyWriteSet(which, ws)
  <2>1. /\ dataset' = [f \in Fields |-> IF f \in DOMAIN ws THEN ws[f] ELSE dataset[f]]
        /\ applied' = applied \cup which /\ partly' = partly /\ pipeline' = pipeline
    BY <1>4 DEF ApplyWriteSet, Applied
  <2>2. IsDataset(dataset)'
    BY <2>1 DEF IsDataset
  <2>3. ASSUME ~dirty
        PROVE  (\E a : IsRun(a, applied) /\ dataset = a[NumSystems])'
    <3>1. PICK b : IsRun(b, applied \cup which) /\ Joined(which, dataset, b[NumSystems])
      BY <1>3, <2>3
    <3>2. ASSUME NEW f \in Fields PROVE b[NumSystems][f] = dataset'[f]
      <4>1. CASE f \in DOMAIN ws
        <5>1. PICK i \in which : f \in metas[i].writes /\ ws[f] = ValueBy(i, dataset)
          BY <4>1 DEF WrittenBy
        <5> QED BY <2>1, <3>1, <4>1, <5>1 DEF Joined
      <4>2. CASE f \notin DOMAIN ws
        <5>1. \A i \in which : f \notin metas[i].writes
          BY <4>2 DEF WrittenBy
        <5> QED BY <2>1, <3>1, <4>2, <5>1 DEF Joined
      <4> QED BY <4>1, <4>2
    <3>3. b[NumSystems] = dataset'
      BY <2>2, <3>1, <3>2 DEF Joined, IsDataset
    <3>4. (IsRun(b, applied))'
      BY <2>1, <3>1, PlanStays
    <3> QED BY <3>3, <3>4
  <2>4. InSeries' /\ CutShort'
    BY <1>1, <2>1, <2>3 DEF InSeries, CutShort
  <2> QED BY <1>1, <2>1, <2>2, <2>4
<1>5. CASE ApplyFails(which, ws)
  <2>1. PICK landed \in SUBSET (DOMAIN ws \ Resources) :
          dataset' = Applied(dataset, [f \in landed |-> ws[f]])
    BY <1>5 DEF ApplyFails
  <2>2. /\ dataset' = [f \in Fields |-> IF f \in landed THEN ws[f] ELSE dataset[f]]
        /\ applied' = applied /\ partly' = which /\ pipeline' = "failed"
    <3>1. Applied(dataset, [f \in landed |-> ws[f]])
            = [f \in Fields |-> IF f \in landed THEN ws[f] ELSE dataset[f]]
      BY DEF Applied
    <3> QED BY <1>5, <2>1, <3>1 DEF ApplyFails
  <2>3. IsDataset(dataset)'
    BY <2>2 DEF IsDataset
  <2>4. ASSUME ~dirty
        PROVE  (\E a, b : /\ IsRun(a, applied) /\ IsRun(b, applied \cup partly)
                          /\ \A f \in Fields : dataset[f] \in {a[NumSystems][f], b[NumSystems][f]})'
    <3>1. PICK a, b : /\ IsRun(a, applied) /\ dataset = a[NumSystems]
                      /\ IsRun(b, applied \cup which) /\ Joined(which, dataset, b[NumSystems])
      BY <1>3, <2>4
    <3>2. ASSUME NEW f \in Fields PROVE dataset'[f] \in {a[NumSystems][f], b[NumSystems][f]}
      <4>1. CASE f \in landed
        <5>1. PICK i \in which : f \in metas[i].writes /\ ws[f] = ValueBy(i, dataset)
          BY <2>1, <4>1 DEF WrittenBy
        <5> QED BY <2>2, <3>1, <4>1, <5>1 DEF Joined
      <4>2. CASE f \notin landed
        BY <2>2, <3>1, <4>2
      <4> QED BY <4>1, <4>2
    <3>3. (IsRun(a, applied) /\ IsRun(b, applied \cup partly))'
      BY <2>2, <3>1, PlanStays
    <3> QED BY <3>2, <3>3
  <2>5. InSeries' /\ CutShort'
    BY <2>2, <2>4 DEF InSeries, CutShort
  <2> QED BY <1>1, <2>2, <2>3, <2>5
<1> QED BY <1>4, <1>5

LEMMA PipeInvNext == PipeInv /\ [PipelineNext]_pipelineVars => PipeInv'
<1> SUFFICES ASSUME PipeInv, [PipelineNext]_pipelineVars PROVE PipeInv'
  OBVIOUS
<1>0. NumSystems \in Nat
  BY PipelineAssumption
(* Where the run stands. *)
<1>1. ASSUME pipeline = "running"
      PROVE  (\A j \in applied : levels[j] <= level) /\ partly = {}
  BY <1>1 DEF PipeInv, PlanRises, Reached, Stage, CutShort
<1>2. ASSUME NEW i \in Systems, RunTask(i)
      PROVE  PipeInv'
  <2>1. UNCHANGED <<metas, levels, wide, dataset, level, applied, partly, dirty, pipeline>>
    BY <1>2 DEF RunTask, TaskReturns, TaskAttemptFails
  <2>2. /\ pipeline = "running" /\ Concurrent /\ i \in Stage(level) \ ran
        /\ ran' = ran \cup {i} \/ ran' = ran
    BY <1>2 DEF RunTask, TaskReturns, TaskAttemptFails
  <2>3. metas' \in [Systems -> Declarations] /\ PlanRises' /\ Stage(level)' = Stage(level)
    BY <2>1, PlanStays DEF Stage
  <2>4. Concurrent'
    BY <2>1, <2>2, <2>3 DEF Concurrent
  <2>5. InSeries'
    BY <2>1, PlanStays DEF InSeries, PipeInv
  <2>6. Reached' = Reached
    BY <2>1, <2>2, <2>4 DEF Reached
  <2>7. ran' \subseteq Stage(level)'
    BY <2>2, <2>3 DEF PipeInv
  <2>8. /\ DOMAIN writeSets' \subseteq ran'
        /\ \A k \in DOMAIN writeSets' : writeSets'[k] = Produced(k, dataset)'
    <3>1. CASE TaskReturns(i)
      <4>1. ran' = ran \cup {i} /\ DOMAIN writeSets' = DOMAIN writeSets \cup {i}
        BY <3>1 DEF TaskReturns
      <4>2. \A k \in DOMAIN writeSets' : writeSets'[k] = Produced(k, dataset)
        BY <2>2, <3>1 DEF TaskReturns, PipeInv
      <4>3. \A k : Produced(k, dataset)' = Produced(k, dataset)
        BY <2>1 DEF Produced
      <4> QED BY <2>2, <4>1, <4>2, <4>3 DEF PipeInv
    <3>2. CASE TaskAttemptFails(i)
      <4>1. writeSets' = writeSets /\ ran \subseteq ran'
        BY <2>2, <3>2 DEF TaskAttemptFails
      <4>2. \A k : Produced(k, dataset)' = Produced(k, dataset)
        BY <2>1 DEF Produced
      <4> QED BY <2>2, <4>1, <4>2 DEF PipeInv
    <3> QED BY <1>2, <3>1, <3>2 DEF RunTask
  <2>9. IsDataset(dataset)' /\ CutShort'
    BY <1>1, <2>1, <2>2 DEF PipeInv, IsDataset, CutShort
  <2> QED BY <2>1, <2>2, <2>3, <2>4, <2>5, <2>6, <2>7, <2>8, <2>9 DEF PipeInv
<1>3. ASSUME NEW i \in Systems, RunInline(i)
      PROVE  PipeInv'
  <2>1. /\ pipeline = "running" /\ ~Concurrent /\ i \in Stage(level) \ ran
        /\ ApplyWriteSet({i}, Produced(i, dataset)) \/ ApplyFails({i}, Produced(i, dataset))
        /\ ran' = ran \cup {i}
        /\ UNCHANGED <<metas, levels, wide, level, writeSets, attempt, dirty>>
    BY <1>3 DEF RunInline
  <2>2. metas' \in [Systems -> Declarations] /\ PlanRises' /\ Stage(level)' = Stage(level)
    BY <2>1, PlanStays DEF Stage
  <2>3. ~Concurrent'
    BY <2>1, <2>2 DEF Concurrent
  <2>4. applied \cap {i} = {} /\ {i} \in SUBSET Stage(level) /\ {i} # {}
    BY <2>1 DEF Reached, Stage, PipeInv, PlanRises
  <2>5. WrittenBy({i}, Produced(i, dataset))
    BY DEF WrittenBy, Produced, ValueBy
  <2>6. IsDataset(dataset)' /\ InSeries' /\ CutShort' /\ applied' \subseteq Systems
    BY <2>1, <2>4, <2>5, ApplyKeeps
  <2>7. pipeline' \in {"running", "failed"} /\ (pipeline' = "running" => applied' = applied \cup {i})
    BY <2>1 DEF ApplyWriteSet, ApplyFails
  <2>8. pipeline' = "running" => applied' = Reached'
    BY <2>1, <2>3, <2>7 DEF PipeInv, Reached
  <2>9. ran' \subseteq Stage(level)'
    BY <2>1, <2>2 DEF PipeInv
  <2> QED BY <2>1, <2>2, <2>3, <2>6, <2>7, <2>8, <2>9 DEF PipeInv
<1>4. ASSUME NEW i \in Systems, NEW left \in SUBSET metas[i].writes, InlineAttemptFails(i, left)
      PROVE  PipeInv'
  <2>1. /\ pipeline = "running" /\ ~Concurrent
        /\ dataset' = [f \in Fields |-> IF f \in left THEN Produced(i, dataset)[f] ELSE dataset[f]]
        /\ dirty' = (dirty \/ left # {})
        /\ pipeline' \in {"running", "failed"}
        /\ UNCHANGED <<metas, levels, wide, level, ran, writeSets, applied, partly>>
    BY <1>4 DEF InlineAttemptFails
  <2>2. metas' \in [Systems -> Declarations] /\ PlanRises' /\ Stage(level)' = Stage(level)
    BY <2>1, PlanStays DEF Stage
  <2>3. ~Concurrent'
    BY <2>1, <2>2 DEF Concurrent
  <2>4. IsDataset(dataset')
    BY <2>1 DEF IsDataset
  <2>5. applied = Reached /\ applied' = Reached'
    BY <2>1, <2>3 DEF PipeInv, Reached
  <2>6. InSeries'
    <3> SUFFICES ASSUME ~dirty' PROVE (\E a : IsRun(a, applied) /\ dataset = a[NumSystems])'
      BY DEF InSeries
    <3>1. ~dirty /\ left = {} /\ partly = {}
      BY <1>1, <2>1
    <3>2. dataset' = dataset
      <4>1. dataset' = [f \in Fields |-> dataset[f]]
        BY <2>1, <3>1
      <4> QED BY <4>1 DEF PipeInv, IsDataset
    <3> QED BY <2>1, <3>1, <3>2, PlanStays DEF PipeInv, InSeries
  <2>7. dirty' \in BOOLEAN /\ CutShort'
    BY <1>1, <2>1 DEF CutShort
  <2> QED BY <2>1, <2>2, <2>3, <2>4, <2>5, <2>6, <2>7 DEF PipeInv, IsDataset
<1>5. ASSUME UNCHANGED <<metas, levels>>, level' = level + 1, ran' = {},
             pipeline = "running", Concurrent \/ ran = Stage(level)
      PROVE  /\ Reached' = {j \in Systems : levels[j] < level} \cup Stage(level)
             /\ level' \in Nat /\ ran' \subseteq Stage(level)'
  <2>1. level \in Nat /\ levels \in [Systems -> Nat]
    BY DEF PipeInv, PlanRises
  <2>2. Reached' = {j \in Systems : levels[j] < level + 1}
    BY <1>5 DEF Reached
  <2>3. \A j \in Systems : levels[j] < level + 1 <=> levels[j] < level \/ levels[j] = level
    BY <2>1
  <2> QED BY <1>5, <2>1, <2>2, <2>3 DEF Stage
<1>6. ASSUME JoinTasks
      PROVE  PipeInv'
  <2>1. /\ pipeline = "running" /\ Concurrent /\ ran = Stage(level)
        /\ level' = level + 1 /\ ran' = {} /\ DOMAIN writeSets' = {}
        /\ UNCHANGED <<metas, levels, wide, attempt, dirty>>
    BY <1>6 DEF JoinTasks
  <2>2. metas' \in [Systems -> Declarations] /\ PlanRises'
    BY <2>1, PlanStays
  <2>3. /\ Reached' = {j \in Systems : levels[j] < level} \cup Stage(level)
        /\ level' \in Nat /\ ran' \subseteq Stage(level)'
    BY <1>5, <2>1
  <2>4. applied = {j \in Systems : levels[j] < level}
    BY <2>1 DEF PipeInv, Reached
  <2>5. CASE \E i \in ran : i \notin DOMAIN writeSets
    <3>1. pipeline' = "failed" /\ UNCHANGED <<dataset, applied, partly>>
      BY <1>6, <2>5 DEF JoinTasks
    <3>2. InSeries' /\ CutShort'
      BY <1>1, <2>1, <3>1, PlanStays DEF InSeries, CutShort, PipeInv
    <3>3. IsDataset(dataset')
      BY <3>1 DEF PipeInv
    <3> QED BY <2>1, <2>2, <2>3, <3>1, <3>2, <3>3 DEF PipeInv, IsDataset
  <2>6. CASE \A i \in ran : i \in DOMAIN writeSets
    <3> DEFINE writers(f) == {i \in ran : f \in metas[i].writes}
    <3>1. ApplyWriteSet(ran, Merged) \/ ApplyFails(ran, Merged)
      BY <1>6, <2>6 DEF JoinTasks
    <3>2. ASSUME NEW f, writers(f) # {}
          PROVE  Max(writers(f)) \in writers(f)
      <4>1. writers(f) \subseteq Systems
        BY <2>1 DEF Stage
      <4>2. IsFiniteSet(Systems) /\ Systems \subseteq Int
        BY <1>0, FS_Interval DEF Systems
      <4>3. IsFiniteSet(writers(f)) /\ writers(f) \in SUBSET Int
        BY <4>1, <4>2, FS_Subset
      <4> HIDE DEF writers
      <4> QED BY <3>2, <4>3, MaxOfFinite
    <3>3. \A i \in ran, f \in Fields : f \in metas[i].writes => writeSets[i][f] = ValueBy(i, dataset)
      BY <2>1, <2>6 DEF PipeInv, Produced, ValueBy
    <3>4. /\ \A f : f \in DOMAIN Merged <=> writers(f) # {}
          /\ \A f : writers(f) # {} => Merged[f] = writeSets[Max(writers(f))][f]
      BY DEF Merged
    <3>5. WrittenBy(ran, Merged)
      <4> SUFFICES ASSUME NEW f \in Fields
                   PROVE  /\ f \in DOMAIN Merged <=> \E i \in ran : f \in metas[i].writes
                          /\ f \in DOMAIN Merged =>
                               \E i \in ran : f \in metas[i].writes /\ Merged[f] = ValueBy(i, dataset)
        BY DEF WrittenBy
      <4>1. f \in DOMAIN Merged <=> \E i \in ran : f \in metas[i].writes
        BY <3>4
      <4>2. ASSUME f \in DOMAIN Merged
            PROVE  \E i \in ran : f \in metas[i].writes /\ Merged[f] = ValueBy(i, dataset)
        <5>1. writers(f) # {}
          BY <3>4, <4>2
        <5>2. PICK i \in ran : f \in metas[i].writes /\ i = Max(writers(f))
          BY <3>2, <5>1
        <5>3. Merged[f] = writeSets[i][f]
          BY <3>4, <5>1, <5>2
        <5> QED BY <3>3, <5>2, <5>3
      <4> QED BY <4>1, <4>2
    <3>6. applied \cap ran = {} /\ ran \in SUBSET Stage(level)
      BY <2>1, <2>4 DEF Stage, PipeInv, PlanRises
    <3>7. ran # {}
      BY <2>1, FS_EmptySet DEF Concurrent
    <3>8. IsDataset(dataset)' /\ InSeries' /\ CutShort' /\ applied' \subseteq Systems
      <4> HIDE DEF writers
      <4> QED BY <2>1, <3>1, <3>5, <3>6, <3>7, ApplyKeeps
    <3>9. pipeline' \in {"running", "failed"} /\ (pipeline' = "running" => applied' = Reached')
      BY <2>1, <2>3, <2>4, <3>1 DEF ApplyWriteSet, ApplyFails
    <3> HIDE DEF writers
    <3> QED BY <2>1, <2>2, <2>3, <3>8, <3>9 DEF PipeInv
  <2> QED BY <2>5, <2>6
<1>7. ASSUME EndStage
      PROVE  PipeInv'
  <2>1. /\ pipeline = "running" /\ ~Concurrent /\ ran = Stage(level) /\ ran' = {}
        /\ UNCHANGED <<metas, levels, wide, dataset, writeSets, attempt, applied, partly, dirty>>
    BY <1>7 DEF EndStage
  <2>2. metas' \in [Systems -> Declarations] /\ PlanRises'
    BY <2>1, PlanStays
  <2>3. InSeries' /\ CutShort'
    BY <1>1, <2>1, PlanStays DEF InSeries, CutShort, PipeInv
  <2>4. applied = {j \in Systems : levels[j] < level} \cup Stage(level)
    BY <2>1 DEF PipeInv, Reached
  <2>5. IsDataset(dataset)' /\ DOMAIN writeSets' = {}
    BY <2>1 DEF PipeInv, IsDataset
  <2>6. CASE \E i \in Systems : levels[i] > level
    <3>1. level' = level + 1 /\ pipeline' = pipeline
      BY <1>7, <2>6 DEF EndStage
    <3>2. /\ Reached' = {j \in Systems : levels[j] < level} \cup Stage(level)
          /\ level' \in Nat /\ ran' \subseteq Stage(level)'
      BY <1>5, <2>1, <3>1
    <3> QED BY <2>1, <2>2, <2>3, <2>4, <2>5, <3>1, <3>2 DEF PipeInv
  <2>7. CASE ~ \E i \in Systems : levels[i] > level
    <3>1. level' = level /\ pipeline' = "done"
      BY <1>7, <2>7 DEF EndStage
    <3>2. applied = Systems
      BY <2>4, <2>7 DEF Stage, PipeInv, PlanRises
    <3> QED BY <2>1, <2>2, <2>3, <2>5, <3>1, <3>2 DEF PipeInv
  <2> QED BY <2>6, <2>7
<1>8. ASSUME UNCHANGED pipelineVars
      PROVE  PipeInv'
  <2>1. UNCHANGED <<metas, levels, wide, dataset, level, ran, writeSets, attempt, applied, partly, dirty, pipeline>>
    BY <1>8 DEF pipelineVars
  <2>2. metas' \in [Systems -> Declarations] /\ PlanRises' /\ Stage(level)' = Stage(level)
    BY <2>1, PlanStays DEF Stage
  <2>3. InSeries' /\ CutShort'
    BY <2>1, PlanStays DEF InSeries, CutShort, PipeInv
  <2>4. Concurrent' = Concurrent /\ Reached' = Reached
    BY <2>1 DEF Concurrent, Reached, Stage
  <2>5. \A k : Produced(k, dataset)' = Produced(k, dataset)
    BY <2>1 DEF Produced
  <2> QED BY <2>1, <2>2, <2>3, <2>4, <2>5 DEF PipeInv, IsDataset
<1> QED BY <1>2, <1>3, <1>4, <1>6, <1>7, <1>8 DEF PipelineNext

(* SerialEquivalence for any systems, any declarations and any number of   *)
(* attempts: Pipeline::run_stages leaves the dataset that the same systems *)
(* would have left had they run one at a time, in registration order; an   *)
(* error in apply_write_set leaves each field as it was before those       *)
(* systems or as it would be after them.  Excepted is a run in which a     *)
(* sequential system failed half way.                                      *)
THEOREM StagesRunLikeSeries == PipelineSpec => []SerialEquivalence
<1>1. PipeInv => SerialEquivalence
  <2> SUFFICES ASSUME PipeInv, ~dirty
               PROVE  /\ \A f \in Fields :
                           dataset[f] \in {Serial(applied)[f], Serial(applied \cup partly)[f]}
                      /\ partly # {} => pipeline = "failed"
                      /\ pipeline = "done" => applied = Systems
    BY DEF SerialEquivalence
  <2>1. \A w, a : IsRun(a, w) => a[NumSystems] = Serial(w)
    BY SerialIsRun, OneRun
  <2>2. CASE partly = {}
    <3>1. dataset = Serial(applied)
      BY <2>1, <2>2 DEF PipeInv, InSeries
    <3> QED BY <2>2, <3>1 DEF PipeInv
  <2>3. CASE partly # {}
    BY <2>1, <2>3 DEF PipeInv, CutShort
  <2> QED BY <2>2, <2>3
<1> QED BY <1>1, PipeInvInit, PipeInvNext, PTL DEF PipelineSpec

-----------------------------------------------------------------------------
(***************************************************************************)
(* The binlog source.  Its three properties rest on one invariant of the   *)
(* reader, written of a reader `r` over a binlog `log`, what the host was  *)
(* `given`, the `rows` of the cycle and the number `n` of its stores, so   *)
(* that the parts of a call can be taken one after the other.              *)
(***************************************************************************)

(* A change waiting for its batch. *)
Change == [tx : Nat, row : Nat, ack : Int]

LogOK(log) ==
  /\ log \in Seq([kind : {"table", "other", "own"}, rows : Nat])
  /\ \A t \in 1..Len(log) : log[t].rows > 0 => log[t].kind # "own"

(* Everything up to p was handed over, or is among the first n changes. *)
Reaches(log, given, q, n, p) ==
  \A t \in 1..p :
    \/ t <= given.upTo
    \/ \A row \in 1..log[t].rows :
         <<t, row>> \in given.rows \/ \E j \in 1..n : q[j].tx = t /\ q[j].row = row

Settled(log, given, p) ==
  \A t \in 1..p : t <= given.upTo \/ \A row \in 1..log[t].rows : <<t, row>> \in given.rows

(* Transactions up to p that are news. *)
News(log, p) == Cardinality({t \in 1..p : log[t].kind # "own"})

Ends(log, change) == change.row = log[change.tx].rows

ReaderType ==
  [batchRows : Nat \ {0},
   phase : {"unresolved", "snapshot", "streaming"}, committed : Int, dirty : BOOLEAN,
   page : Nat, pinned : Int,
   queue : Seq(Change), at : Int, rowsRead : Nat, foreign : BOOLEAN, done : BOOLEAN,
   cycleStart : BOOLEAN, batches : Nat, midTx : BOOLEAN]

(* Where the parts of a reader stand to each other. *)
PhaseInv(r, log) ==
  /\ r.committed \in -1..Len(log) /\ r.at \in -1..Len(log)
  /\ r.phase # "streaming" => r.committed = -1 /\ r.queue = <<>> /\ r.at = -1 /\ ~r.dirty
  /\ r.phase = "streaming" => r.committed # -1
  /\ r.page > 0 => r.pinned \in 0..Len(log)
  /\ r.cycleStart \/ r.done => r.at = -1
  /\ r.cycleStart \/ (r.at = -1 /\ ~r.done) => r.queue = <<>>

(* A queued change, and what its acknowledgement covers. *)
QueuedInv(r, log, given, j) ==
  /\ r.queue[j].tx \in (r.committed + 1)..Len(log)
  /\ r.queue[j].row \in 1..log[r.queue[j].tx].rows
  /\ r.queue[j].ack \in -1..Len(log)
  /\ r.queue[j].ack # -1 => r.queue[j].tx <= r.queue[j].ack
  /\ r.queue[j].ack # -1 => Reaches(log, given, r.queue, j, r.queue[j].ack)
  /\ Ends(log, r.queue[j]) => r.queue[j].ack # -1
  /\ \E m \in j..Len(r.queue) : r.queue[m].tx = r.queue[j].tx /\ Ends(log, r.queue[m])
  /\ r.at # -1 => r.queue[j].tx <= r.at /\ r.queue[j].ack <= r.at

ChangeInv(r, log, given) == \A j \in 1..Len(r.queue) : QueuedInv(r, log, given, j)

(* Two of them: in order, and a transaction ends before the next begins. *)
OrderedInv(r, log) ==
  \A j, k \in 1..Len(r.queue) : j < k =>
    /\ r.queue[j].tx <= r.queue[k].tx
    /\ r.queue[j].ack < r.queue[k].tx
    /\ r.queue[j].tx < r.queue[k].tx =>
         \E m \in j..(k - 1) : r.queue[m].tx = r.queue[j].tx /\ Ends(log, r.queue[m])

PositionInv(r, log, given) ==
  /\ r.committed # -1 => Settled(log, given, r.committed)
  /\ r.at # -1 => r.committed <= r.at /\ Reaches(log, given, r.queue, Len(r.queue), r.at)

(* The reader may store once more for every news behind its position. *)
BudgetInv(r, log, n) ==
  /\ r.committed # -1 => n <= 1 + News(log, r.committed)
  /\ r.committed # -1 /\ r.dirty => n <= News(log, r.committed)
  /\ r.at # -1 /\ r.foreign => r.dirty \/ \E t \in (r.committed + 1)..r.at : log[t].kind # "own"

(* What the cycle handed over is behind the position, or of the            *)
(* transaction that the queue goes on with.                                *)
RowsInv(r, rows) ==
  \A row \in rows : \/ row[1] <= r.committed
                    \/ r.midTx /\ r.queue # <<>> /\ row[1] = r.queue[1].tx

ReaderInv(r, log, given, rows, n) ==
  /\ r \in ReaderType
  /\ PhaseInv(r, log)
  /\ ChangeInv(r, log, given)
  /\ OrderedInv(r, log)
  /\ PositionInv(r, log, given)
  /\ BudgetInv(r, log, n)
  /\ RowsInv(r, rows)

Given == [rows : SUBSET (Nat \X Nat), upTo : Nat]

StoredInv ==
  /\ stored = -1 => stores = 0
  /\ stored # -1 => /\ Settled(binlog, binlogWritten, stored)
                    /\ Settled(binlog, handedOver, stored)
                    /\ stores <= 1 + News(binlog, stored)
  /\ reader.phase = "unresolved" => handedOver = binlogWritten
  /\ reader.phase = "snapshot" => stored = -1

BinlogInv ==
  /\ LogOK(binlog)
  /\ stored \in -1..Len(binlog)
  /\ handedOver \in Given /\ binlogWritten \in Given
  /\ cycleRows \in SUBSET (Nat \X Nat)
  /\ stores \in Nat
  /\ StoredInv
  /\ ReaderInv(reader, binlog, handedOver, cycleRows, stores)

LEMMA ReaderFields ==
  ASSUME NEW r \in ReaderType
  PROVE  /\ r.batchRows \in Nat \ {0} /\ r.phase \in {"unresolved", "snapshot", "streaming"}
         /\ r.committed \in Int /\ r.dirty \in BOOLEAN /\ r.page \in Nat /\ r.pinned \in Int
         /\ r.queue \in Seq(Change) /\ r.at \in Int /\ r.rowsRead \in Nat
         /\ r.foreign \in BOOLEAN /\ r.done \in BOOLEAN /\ r.cycleStart \in BOOLEAN
         /\ r.batches \in Nat /\ r.midTx \in BOOLEAN
         /\ \A j \in 1..Len(r.queue) : /\ r.queue[j] \in Change /\ r.queue[j].tx \in Nat
                                       /\ r.queue[j].row \in Nat /\ r.queue[j].ack \in Int
<1>1. r.queue \in Seq(Change)
  BY DEF ReaderType
<1>2. \A j \in 1..Len(r.queue) : r.queue[j] \in Change
  BY <1>1
<1>3. \A c \in Change : c.tx \in Nat /\ c.row \in Nat /\ c.ack \in Int
  BY DEF Change
<1> QED BY <1>1, <1>2, <1>3 DEF ReaderType

LEMMA LogFields ==
  ASSUME NEW log, LogOK(log)
  PROVE  /\ Len(log) \in Nat
         /\ \A t \in 1..Len(log) : log[t].rows \in Nat /\ (log[t].rows > 0 => log[t].kind # "own")
<1> DEFINE T == [kind : {"table", "other", "own"}, rows : Nat]
<1>1. log \in Seq(T)
  BY DEF LogOK
<1>2. \A x \in T : x.rows \in Nat
  OBVIOUS
<1> HIDE DEF T
<1>3. Len(log) \in Nat /\ \A t \in 1..Len(log) : log[t] \in T
  BY <1>1
<1> QED BY <1>2, <1>3 DEF LogOK

LEMMA QueuedTx ==
  ASSUME NEW r, NEW log, NEW given, NEW rows, NEW n, Len(log) \in Nat,
         ReaderInv(r, log, given, rows, n)
  PROVE  /\ r \in ReaderType
         /\ \A j \in 1..Len(r.queue) : /\ r.queue[j].tx \in 1..Len(log)
                                       /\ r.committed < r.queue[j].tx
<1>1. r \in ReaderType /\ PhaseInv(r, log) /\ ChangeInv(r, log, given)
  BY DEF ReaderInv
<1>2. r.committed \in -1..Len(log) /\ r.committed \in Int
  BY <1>1, ReaderFields DEF PhaseInv
<1> SUFFICES ASSUME NEW j \in 1..Len(r.queue)
             PROVE  r.queue[j].tx \in 1..Len(log) /\ r.committed < r.queue[j].tx
  BY <1>1
<1>3. r.queue # <<>>
  BY <1>1, ReaderFields
<1>4. r.committed # -1
  BY <1>1, <1>3, ReaderFields DEF PhaseInv
<1>5. r.queue[j].tx \in (r.committed + 1)..Len(log)
  BY <1>1 DEF ChangeInv, QueuedInv
<1> QED BY <1>2, <1>4, <1>5

(* News adds up. *)
LEMMA NewsGrow ==
  ASSUME NEW log, NEW p \in Int, NEW q \in Int, p <= q
  PROVE  /\ News(log, p) \in Nat /\ News(log, q) \in Nat /\ News(log, p) <= News(log, q)
         /\ \A t \in (p + 1)..q : 1 <= t /\ log[t].kind # "own" => News(log, p) + 1 <= News(log, q)
<1> DEFINE P == {t \in 1..p : log[t].kind # "own"}
           Q == {t \in 1..q : log[t].kind # "own"}
<1>1. IsFiniteSet(1..p) /\ IsFiniteSet(1..q)
  BY FS_Interval
<1>2. P \subseteq 1..p /\ Q \subseteq 1..q /\ P \subseteq Q
  OBVIOUS
<1>3. IsFiniteSet(P) /\ IsFiniteSet(Q)
  BY <1>1, <1>2, FS_Subset
<1>4. Cardinality(P) \in Nat /\ Cardinality(Q) \in Nat /\ Cardinality(P) <= Cardinality(Q)
  BY <1>2, <1>3, FS_Subset, FS_CardinalityType
<1>5. ASSUME NEW t \in (p + 1)..q, 1 <= t, log[t].kind # "own"
      PROVE  Cardinality(P) + 1 <= Cardinality(Q)
  <2>1. t \in Q /\ t \notin P
    BY <1>5
  <2> HIDE DEF P, Q
  <2>2. IsFiniteSet(P \cup {t}) /\ Cardinality(P \cup {t}) = Cardinality(P) + 1
    BY <1>3, <2>1, FS_AddElement
  <2>3. P \cup {t} \subseteq Q
    BY <1>2, <2>1
  <2>4. Cardinality(P \cup {t}) <= Cardinality(Q)
    BY <1>3, <2>3, FS_Subset
  <2> QED BY <2>2, <2>4
<1> QED BY <1>4, <1>5 DEF News

(* A transaction more changes nothing about those before. *)
LEMMA LogGrows ==
  ASSUME NEW log, LogOK(log), NEW more, LogOK(more), Len(log) <= Len(more),
         \A t \in 1..Len(log) : more[t] = log[t]
  PROVE  /\ \A p \in -1..Len(log) : News(more, p) = News(log, p)
         /\ \A given : \A p \in -1..Len(log) : Settled(log, given, p) => Settled(more, given, p)
         /\ \A r, given, rows, n :
              ReaderInv(r, log, given, rows, n) => ReaderInv(r, more, given, rows, n)
<1>0. Len(log) \in Nat /\ Len(more) \in Nat
  BY LogFields
<1>1. ASSUME NEW p \in -1..Len(log)
      PROVE  News(more, p) = News(log, p)
  <2>1. {t \in 1..p : more[t].kind # "own"} = {t \in 1..p : log[t].kind # "own"}
    BY <1>0
  <2> QED BY <2>1 DEF News
<1>2. \A given : \A p \in -1..Len(log) : Settled(log, given, p) => Settled(more, given, p)
  BY <1>0 DEF Settled
<1>3. \A given, q, n : \A p \in -1..Len(log) : Reaches(log, given, q, n, p) => Reaches(more, given, q, n, p)
  BY <1>0 DEF Reaches
<1>4. ASSUME NEW r, NEW given, NEW rows, NEW n, ReaderInv(r, log, given, rows, n)
      PROVE  ReaderInv(r, more, given, rows, n)
  <2>1. r \in ReaderType /\ RowsInv(r, rows)
    BY <1>4 DEF ReaderInv
  <2>2. PhaseInv(r, log) /\ PhaseInv(r, more)
    BY <1>0, <1>4 DEF ReaderInv, PhaseInv
  <2>3. ChangeInv(r, log, given)
    BY <1>4 DEF ReaderInv
  <2>4. \A j \in 1..Len(r.queue) : r.queue[j].tx \in 1..Len(log)
    BY <1>0, <1>4, QueuedTx
  <2>5. \A j \in 1..Len(r.queue) : Ends(more, r.queue[j]) <=> Ends(log, r.queue[j])
    BY <2>4 DEF Ends
  <2>6. ChangeInv(r, more, given)
    <3> SUFFICES ASSUME NEW j \in 1..Len(r.queue) PROVE QueuedInv(r, more, given, j)
      BY DEF ChangeInv
    <3>1. \A m \in j..Len(r.queue) : m \in 1..Len(r.queue)
      BY <2>1, ReaderFields
    <3>2. more[r.queue[j].tx] = log[r.queue[j].tx]
      BY <2>4
    <3>3. QueuedInv(r, log, given, j)
      BY <2>3 DEF ChangeInv
    <3>4. r.queue[j].ack # -1 => Reaches(more, given, r.queue, j, r.queue[j].ack)
      BY <1>3, <3>3 DEF QueuedInv
    <3>5. r.queue[j].tx \in (r.committed + 1)..Len(more) /\ r.queue[j].ack \in -1..Len(more)
      BY <1>0, <2>1, <2>2, <3>3, ReaderFields DEF QueuedInv
    <3>6. \E m \in j..Len(r.queue) : r.queue[m].tx = r.queue[j].tx /\ Ends(more, r.queue[m])
      BY <2>5, <3>1, <3>3 DEF QueuedInv
    <3> QED BY <2>5, <3>2, <3>3, <3>4, <3>5, <3>6 DEF QueuedInv
  <2>7. OrderedInv(r, more)
    <3>1. OrderedInv(r, log)
      BY <1>4 DEF ReaderInv
    <3>2. \A j, k \in 1..Len(r.queue) : \A m \in j..(k - 1) : m \in 1..Len(r.queue)
      BY <2>1, ReaderFields
    <3> QED BY <2>5, <3>1, <3>2 DEF OrderedInv
  <2>8. PositionInv(r, more, given)
    <3>1. PositionInv(r, log, given) /\ r.committed \in -1..Len(log) /\ r.at \in -1..Len(log)
      BY <1>4, <2>2 DEF ReaderInv, PhaseInv
    <3> QED BY <1>2, <1>3, <3>1 DEF PositionInv
  <2>9. BudgetInv(r, more, n)
    <3>1. BudgetInv(r, log, n) /\ r.committed \in -1..Len(log) /\ r.at \in -1..Len(log)
      BY <1>4, <2>2 DEF ReaderInv, PhaseInv
    <3>2. News(more, r.committed) = News(log, r.committed)
      BY <1>1, <3>1
    <3>3. r.at # -1 => r.committed # -1
      BY <2>1, <2>2, ReaderFields DEF PhaseInv
    <3>4. r.at # -1 => \A t \in (r.committed + 1)..r.at : more[t] = log[t]
      BY <1>0, <3>1, <3>3
    <3> QED BY <3>1, <3>2, <3>4 DEF BudgetInv
  <2> QED BY <2>1, <2>2, <2>6, <2>7, <2>8, <2>9 DEF ReaderInv
<1> QED BY <1>1, <1>2, <1>4

-----------------------------------------------------------------------------
(* The parts of a call *)

(* What a reader that dropped its queue must still know. *)
LEMMA EmptyReader ==
  ASSUME NEW log, LogOK(log), NEW r \in ReaderType, NEW given, NEW rows, NEW n \in Nat,
         r.queue = <<>>, r.at = -1, PhaseInv(r, log),
         r.committed # -1 => Settled(log, given, r.committed) /\ n <= 1 + News(log, r.committed),
         r.committed # -1 /\ r.dirty => n <= News(log, r.committed),
         \A row \in rows : row[1] <= r.committed
  PROVE  ReaderInv(r, log, given, rows, n)
<1>1. Len(r.queue) = 0
  OBVIOUS
<1>2. ChangeInv(r, log, given) /\ OrderedInv(r, log)
  BY <1>1 DEF ChangeInv, OrderedInv
<1>3. PositionInv(r, log, given) /\ BudgetInv(r, log, n) /\ RowsInv(r, rows)
  BY DEF PositionInv, BudgetInv, RowsInv
<1> QED BY <1>2, <1>3 DEF ReaderInv

(* ... and one that never had one. *)
LEMMA QueueIsAll ==
  ASSUME NEW log, LogOK(log), NEW given, NEW q, NEW p \in Int, Reaches(log, given, q, 0, p)
  PROVE  Settled(log, given, p)
<1>1. \A j \in 1..0 : FALSE
  OBVIOUS
<1> QED BY <1>1 DEF Reaches, Settled

(* open_stream *)
LEMMA Opens ==
  ASSUME NEW log, LogOK(log), NEW r, NEW given, NEW rows, NEW n \in Nat,
         ReaderInv(r, log, given, rows, n), r.phase = "streaming", ~r.done, ~r.cycleStart,
         r.at = -1,
         NEW s, s = [r EXCEPT !.at = r.committed, !.rowsRead = 0, !.foreign = FALSE]
  PROVE  /\ ReaderInv(s, log, given, rows, n)
         /\ s.phase = "streaming" /\ ~s.done /\ ~s.cycleStart /\ s.at # -1
<1>1. r \in ReaderType /\ PhaseInv(r, log)
  BY DEF ReaderInv
<1>2. /\ s \in ReaderType /\ s.at = r.committed /\ s.foreign = FALSE /\ s.queue = r.queue
      /\ s.committed = r.committed /\ s.dirty = r.dirty /\ s.midTx = r.midTx
      /\ s.phase = "streaming" /\ s.page = r.page /\ s.pinned = r.pinned
      /\ ~s.done /\ ~s.cycleStart
  BY <1>1 DEF ReaderType
<1>3. r.queue = <<>> /\ Len(s.queue) = 0 /\ r.committed \in -1..Len(log) /\ r.committed # -1
  BY <1>1, <1>2 DEF PhaseInv
<1>4. PhaseInv(s, log)
  BY <1>1, <1>2, <1>3 DEF PhaseInv
<1>5. ChangeInv(s, log, given) /\ OrderedInv(s, log)
  BY <1>3 DEF ChangeInv, OrderedInv
<1>6. PositionInv(s, log, given)
  BY <1>1, <1>2, <1>3, ReaderFields DEF ReaderInv, PositionInv, Settled, Reaches
<1>7. BudgetInv(s, log, n) /\ RowsInv(s, rows)
  BY <1>2 DEF ReaderInv, BudgetInv, RowsInv
<1> QED BY <1>2, <1>3, <1>4, <1>5, <1>6, <1>7 DEF ReaderInv

Finished(r, q, c, d) ==
  [r EXCEPT !.done = TRUE, !.at = NotOpen, !.queue = q, !.committed = c, !.dirty = d]

LEMMA FinishedFields ==
  ASSUME NEW r \in ReaderType, NEW q \in Seq(Change), NEW c \in Int, NEW d \in BOOLEAN
  PROVE  LET s == Finished(r, q, c, d)
         IN  /\ s \in ReaderType /\ s.queue = q /\ s.at = -1 /\ s.committed = c /\ s.dirty = d
             /\ s.done /\ s.midTx = r.midTx /\ s.phase = r.phase /\ s.page = r.page
             /\ s.pinned = r.pinned /\ s.cycleStart = r.cycleStart
<1>1. NotOpen \in Int /\ TRUE \in BOOLEAN
  BY DEF NotOpen
<1>2. Finished(r, q, c, d) \in ReaderType
  BY <1>1, Zenon DEF ReaderType, Finished
<1> QED BY <1>2 DEF ReaderType, NotOpen, Finished

(* finish_stream *)
LEMMA Finishes ==
  ASSUME NEW log, LogOK(log), NEW r, NEW given, NEW rows \in SUBSET (Nat \X Nat), NEW n \in Nat,
         ReaderInv(r, log, given, rows, n), r.phase = "streaming", ~r.cycleStart, r.at # -1
  PROVE  ReaderInv(FinishStream(r), log, given, rows, n) /\ FinishStream(r).phase = "streaming"
<1> DEFINE s == FinishStream(r)
           q == r.queue
           last == Len(q)
<1>0. Len(log) \in Nat
  BY LogFields
<1>1. /\ r \in ReaderType /\ PhaseInv(r, log) /\ ChangeInv(r, log, given) /\ OrderedInv(r, log)
      /\ PositionInv(r, log, given) /\ BudgetInv(r, log, n) /\ RowsInv(r, rows)
  BY DEF ReaderInv
<1>2. /\ r.at \in -1..Len(log) /\ r.at \in Int /\ r.at >= 0 /\ r.committed \in Int /\ r.committed <= r.at
      /\ r.committed # -1 /\ r.committed \in -1..Len(log) /\ q \in Seq(Change) /\ last \in Nat
  BY <1>1, ReaderFields, <1>0 DEF PhaseInv, PositionInv
<1>3. CASE q = <<>>
  <2> DEFINE d == (r.dirty \/ (r.at # r.committed /\ r.foreign))
  <2>0. d \in BOOLEAN /\ r.queue \in Seq(Change)
    BY <1>1, ReaderFields
  <2>1. s = Finished(r, r.queue, r.at, d)
    BY <1>3 DEF FinishStream, Finished
  <2>12. d = (r.dirty \/ (r.at # r.committed /\ r.foreign))
    OBVIOUS
  <2> HIDE DEF d
  <2>2. /\ s \in ReaderType /\ s.queue = <<>> /\ s.at = -1 /\ s.committed = r.at
        /\ s.dirty = d
        /\ s.phase = "streaming" /\ s.page = r.page /\ s.pinned = r.pinned /\ ~s.cycleStart
    <3>1. r \in ReaderType /\ r.at \in Int
      BY <1>1, <1>2
    <3> HIDE DEF s
    <3>2. /\ s \in ReaderType /\ s.queue = r.queue /\ s.at = -1 /\ s.committed = r.at /\ s.dirty = d
          /\ s.phase = r.phase /\ s.page = r.page
          /\ s.pinned = r.pinned /\ s.cycleStart = r.cycleStart
      BY <2>0, <2>1, <3>1, FinishedFields
    <3> QED BY <1>3, <3>2
  <2> HIDE DEF s
  <2>3. PhaseInv(s, log)
    BY <1>1, <1>2, <2>2 DEF PhaseInv
  <2>4. Settled(log, given, r.at)
    <3>1. Reaches(log, given, q, 0, r.at)
      BY <1>1, <1>2, <1>3 DEF PositionInv
    <3> QED BY <1>2, <3>1, QueueIsAll
  <2>5. /\ News(log, r.committed) \in Nat /\ News(log, r.at) \in Nat
        /\ News(log, r.committed) <= News(log, r.at)
    BY <1>2, NewsGrow
  <2>6. ASSUME ~r.dirty, r.foreign PROVE News(log, r.committed) + 1 <= News(log, r.at)
    <3>1. PICK t \in (r.committed + 1)..r.at : log[t].kind # "own"
      BY <1>1, <2>6 DEF BudgetInv
    <3>2. 1 <= t
      BY <1>2
    <3> QED BY <1>2, <3>1, <3>2, NewsGrow
  <2>7. n <= 1 + News(log, r.at) /\ (s.dirty => n <= News(log, r.at))
    BY <1>1, <1>2, <2>2, <2>5, <2>6, <2>12, ReaderFields DEF BudgetInv
  <2>8. \A row \in rows : row[1] <= s.committed
    <3>1. \A row \in rows : row[1] <= r.committed
      BY <1>1, <1>3 DEF RowsInv
    <3> QED BY <1>2, <2>2, <3>1
  <2>9. ReaderInv(s, log, given, rows, n)
    BY <2>2, <2>3, <2>4, <2>7, <2>8, EmptyReader
  <2> QED BY <2>2, <2>9 DEF s
<1>4. CASE q # <<>>
  <2>0. last \in 1..last /\ q[last] \in Change
    BY <1>2, <1>4
  <2> DEFINE x == [q[last] EXCEPT !.ack = r.at]
             p == [q EXCEPT ![last] = x]
  <2>12. x \in Change /\ x.tx = q[last].tx /\ x.row = q[last].row /\ x.ack = r.at
    BY <1>2, <2>0 DEF Change
  <2>1. s = Finished(r, p, r.committed, r.dirty)
    BY <1>1, <1>4, ReaderFields DEF FinishStream, Finished
  <2>2. /\ Len(p) = last /\ p \in Seq(Change)
        /\ \A j \in 1..last : j # last => p[j] = q[j]
        /\ p[last].tx = q[last].tx /\ p[last].row = q[last].row /\ p[last].ack = r.at
    <3> HIDE DEF x
    <3>1. Len(p) = last /\ p \in Seq(Change) /\ p[last] = x /\ \A j \in 1..last : j # last => p[j] = q[j]
      BY <1>2, <2>0, <2>12
    <3> QED BY <2>12, <3>1
  <2> HIDE DEF p
  <2>3. /\ s \in ReaderType /\ s.queue = p /\ s.at = -1 /\ s.committed = r.committed
        /\ s.dirty = r.dirty /\ s.done /\ s.midTx = r.midTx
        /\ s.phase = "streaming" /\ s.page = r.page /\ s.pinned = r.pinned /\ ~s.cycleStart
    <3>1. r.dirty \in BOOLEAN
      BY <1>1, ReaderFields
    <3>2. r \in ReaderType /\ r.committed \in Int /\ p \in Seq(Change)
      BY <1>1, <1>2, <2>2
    <3> HIDE DEF s
    <3>3. /\ s \in ReaderType /\ s.queue = p /\ s.at = -1 /\ s.committed = r.committed
          /\ s.dirty = r.dirty /\ s.done /\ s.midTx = r.midTx
          /\ s.phase = r.phase /\ s.page = r.page
          /\ s.pinned = r.pinned /\ s.cycleStart = r.cycleStart
      BY <2>1, <3>1, <3>2, FinishedFields
    <3> QED BY <3>3
  <2> HIDE DEF s
  <2>4. PhaseInv(s, log)
    BY <1>1, <1>2, <2>3 DEF PhaseInv
  <2>5. /\ \A j \in 1..last : p[j].tx = q[j].tx /\ p[j].row = q[j].row
        /\ \A j \in 1..last : Ends(log, p[j]) <=> Ends(log, q[j])
    BY <2>2 DEF Ends
  <2>6. \A k \in 1..last : \A t : Reaches(log, given, q, k, t) => Reaches(log, given, p, k, t)
    <3> SUFFICES ASSUME NEW k \in 1..last, NEW t, Reaches(log, given, q, k, t)
                 PROVE  Reaches(log, given, p, k, t)
      OBVIOUS
    <3>1. \A j \in 1..k : p[j].tx = q[j].tx /\ p[j].row = q[j].row
      BY <1>2, <2>5
    <3> QED BY <3>1 DEF Reaches
  <2>7. ASSUME NEW j \in 1..last PROVE QueuedInv(s, log, given, j)
    <3>1. QueuedInv(r, log, given, j)
      BY <1>1 DEF ChangeInv
    <3>2. \E m \in j..last : p[m].tx = p[j].tx /\ Ends(log, p[m])
      <4>1. \A m \in j..last : m \in 1..last
        BY <1>2
      <4> QED BY <2>5, <3>1, <4>1 DEF QueuedInv
    <3>3. CASE j = last
      <4>1. q[last].tx <= r.at
        BY <1>2, <2>0, <3>1, <3>3 DEF QueuedInv
      <4>2. Reaches(log, given, p, last, r.at)
        BY <1>1, <2>0, <2>6 DEF PositionInv
      <4> QED BY <1>2, <2>2, <2>3, <3>1, <3>2, <3>3, <4>1, <4>2 DEF QueuedInv
    <3>4. CASE j # last
      <4>1. q[j].ack # -1 => Reaches(log, given, p, j, q[j].ack)
        BY <2>6, <3>1 DEF QueuedInv
      <4> QED BY <2>2, <2>3, <3>1, <3>2, <3>4, <4>1 DEF QueuedInv
    <3> QED BY <3>3, <3>4
  <2>8. OrderedInv(s, log)
    <3> SUFFICES ASSUME NEW j \in 1..last, NEW k \in 1..last, j < k
                 PROVE  /\ p[j].tx <= p[k].tx /\ p[j].ack < p[k].tx
                        /\ p[j].tx < p[k].tx =>
                             \E m \in j..(k - 1) : p[m].tx = p[j].tx /\ Ends(log, p[m])
      BY <2>2, <2>3 DEF OrderedInv
    <3>1. p[j] = q[j] /\ \A m \in j..(k - 1) : m \in 1..last
      BY <1>2, <2>2
    <3> QED BY <1>1, <2>5, <3>1 DEF OrderedInv
  <2>9. PositionInv(s, log, given) /\ BudgetInv(s, log, n)
    BY <1>1, <2>3 DEF PositionInv, BudgetInv
  <2>10. RowsInv(s, rows)
    <3>1. p # <<>> /\ p[1].tx = q[1].tx
      BY <1>2, <2>0, <2>2, <2>5
    <3> QED BY <1>1, <2>3, <3>1 DEF RowsInv
  <2>11. ReaderInv(s, log, given, rows, n)
    BY <2>2, <2>3, <2>4, <2>7, <2>8, <2>9, <2>10 DEF ReaderInv, ChangeInv
  <2> QED BY <2>3, <2>11 DEF s
<1> QED BY <1>3, <1>4

(* What the stream hands over for one transaction. *)
ChangesOf(log, tx) ==
  [row \in 1..log[tx].rows |->
     [tx |-> tx, row |-> row, ack |-> IF row = log[tx].rows THEN tx ELSE -1]]

ReadOn(r, log, tx) ==
  [r EXCEPT !.at = tx, !.queue = @ \o ChangesOf(log, tx), !.rowsRead = @ + log[tx].rows,
            !.foreign = @ \/ log[tx].kind # "own"]

(* The rows of the transaction come after what is queued. *)
Grown(p, q, log, tx) ==
  /\ log[tx].rows \in Nat
  /\ p \in Seq(Change) /\ Len(p) = Len(q) + log[tx].rows
  /\ \A j \in 1..Len(q) : p[j] = q[j]
  /\ \A i \in 1..log[tx].rows :
       p[Len(q) + i] = [tx |-> tx, row |-> i, ack |-> IF i = log[tx].rows THEN tx ELSE -1]

LEMMA QueueGrows ==
  ASSUME NEW log, LogOK(log), NEW tx \in 1..Len(log), NEW q \in Seq(Change)
  PROVE  Grown(q \o ChangesOf(log, tx), q, log, tx)
<1> DEFINE new == ChangesOf(log, tx)
           size == log[tx].rows
<1>1. size \in Nat /\ tx \in Nat
  BY LogFields
<1>2. \A i \in 1..size : [tx |-> tx, row |-> i, ack |-> IF i = size THEN tx ELSE -1] \in Change
  BY <1>1 DEF Change
<1>3. new = [i \in 1..size |-> [tx |-> tx, row |-> i, ack |-> IF i = size THEN tx ELSE -1]]
  BY DEF ChangesOf
<1>4. new \in [1..size -> Change]
  BY <1>2, <1>3
<1>5. \A i \in 1..size : new[i] = [tx |-> tx, row |-> i, ack |-> IF i = size THEN tx ELSE -1]
  BY <1>3
<1> HIDE DEF new, size
<1>6. new \in Seq(Change) /\ Len(new) = size
  BY <1>1, <1>4
<1>7. /\ q \o new \in Seq(Change) /\ Len(q \o new) = Len(q) + size
      /\ \A j \in 1..Len(q) : (q \o new)[j] = q[j]
      /\ \A i \in 1..size : (q \o new)[Len(q) + i] = new[i]
  BY <1>1, <1>6
<1> QED BY <1>1, <1>5, <1>7 DEF new, size, Grown

HasRead(s, r, log, tx) ==
  /\ s \in ReaderType /\ s.queue = r.queue \o ChangesOf(log, tx) /\ s.at = tx
  /\ s.foreign = (r.foreign \/ log[tx].kind # "own")
  /\ s.committed = r.committed /\ s.dirty = r.dirty /\ s.done = r.done
  /\ s.midTx = r.midTx /\ s.phase = r.phase /\ s.page = r.page
  /\ s.pinned = r.pinned /\ s.cycleStart = r.cycleStart

LEMMA ReadFields ==
  ASSUME NEW log, LogOK(log), NEW tx \in 1..Len(log), NEW r \in ReaderType
  PROVE  HasRead(ReadOn(r, log, tx), r, log, tx)
<1> DEFINE q == r.queue \o ChangesOf(log, tx)
           f == (r.foreign \/ log[tx].kind # "own")
           k == r.rowsRead + log[tx].rows
<1>1. q \in Seq(Change)
  BY QueueGrows, ReaderFields DEF Grown
<1>2. f \in BOOLEAN
  BY ReaderFields
<1>3. k \in Nat
  BY ReaderFields, LogFields
<1>4. tx \in Int
  BY LogFields
<1>5. ReadOn(r, log, tx) = [r EXCEPT !.at = tx, !.queue = q, !.rowsRead = k, !.foreign = f]
  BY DEF ReadOn
<1> HIDE DEF q, f, k
<1>6. [r EXCEPT !.at = tx, !.queue = q, !.rowsRead = k, !.foreign = f] \in ReaderType
  BY <1>1, <1>2, <1>3, <1>4, Zenon DEF ReaderType
<1>7. LET s == [r EXCEPT !.at = tx, !.queue = q, !.rowsRead = k, !.foreign = f]
      IN  /\ s.queue = q /\ s.at = tx /\ s.foreign = f
          /\ s.committed = r.committed /\ s.dirty = r.dirty /\ s.done = r.done
          /\ s.midTx = r.midTx /\ s.phase = r.phase /\ s.page = r.page
          /\ s.pinned = r.pinned /\ s.cycleStart = r.cycleStart
  BY DEF ReaderType
<1> QED BY <1>5, <1>6, <1>7 DEF q, f, k, HasRead

(* on_rows and on_commit *)
LEMMA Reads ==
  ASSUME NEW log, LogOK(log), NEW r, NEW given, NEW rows, NEW n \in Nat,
         ReaderInv(r, log, given, rows, n), r.phase = "streaming", ~r.cycleStart, ~r.done,
         r.at # -1, NEW tx \in 1..Len(log), tx = r.at + 1
  PROVE  /\ ReaderInv(ReadOn(r, log, tx), log, given, rows, n)
         /\ ReadOn(r, log, tx).phase = "streaming" /\ ~ReadOn(r, log, tx).cycleStart
         /\ ReadOn(r, log, tx).at # -1
<1> DEFINE s == ReadOn(r, log, tx)
           q == r.queue
           p == q \o ChangesOf(log, tx)
           size == log[tx].rows
<1>0. Len(log) \in Nat
  BY LogFields
<1>1. /\ r \in ReaderType /\ PhaseInv(r, log) /\ ChangeInv(r, log, given) /\ OrderedInv(r, log)
      /\ PositionInv(r, log, given) /\ BudgetInv(r, log, n) /\ RowsInv(r, rows)
  BY DEF ReaderInv
<1>2. /\ r.at \in Int /\ r.at >= 0 /\ r.committed \in Int /\ r.committed <= r.at
      /\ r.committed # -1 /\ r.committed \in -1..Len(log) /\ q \in Seq(Change) /\ Len(q) \in Nat
  BY <1>1, ReaderFields, <1>0 DEF PhaseInv, PositionInv
<1>3. /\ s \in ReaderType /\ s.queue = p /\ s.at = tx /\ s.committed = r.committed
      /\ s.foreign = (r.foreign \/ log[tx].kind # "own") /\ s.dirty = r.dirty
      /\ s.midTx = r.midTx /\ s.phase = "streaming" /\ s.page = r.page
      /\ s.pinned = r.pinned /\ ~s.cycleStart /\ ~s.done
  <2>1. HasRead(s, r, log, tx)
    BY <1>1, ReadFields
  <2> HIDE DEF s
  <2> QED BY <2>1 DEF HasRead
<1>4. /\ size \in Nat /\ p \in Seq(Change) /\ Len(p) = Len(q) + size
      /\ \A j \in 1..Len(q) : p[j] = q[j]
      /\ \A i \in 1..size : p[Len(q) + i] = [tx |-> tx, row |-> i, ack |-> IF i = size THEN tx ELSE -1]
  <2>1. Grown(p, q, log, tx)
    BY <1>2, QueueGrows
  <2> HIDE DEF p, q
  <2> QED BY <2>1 DEF Grown
<1> HIDE DEF s, p, q, size
<1>18. tx = r.at + 1 /\ tx \in Int /\ r.at \in Int /\ r.at < tx
  BY <1>2
<1>5. \A i \in 1..size : /\ p[Len(q) + i].tx = tx /\ p[Len(q) + i].row = i
                         /\ p[Len(q) + i].ack = IF i = size THEN tx ELSE -1
  <2> SUFFICES ASSUME NEW i \in 1..size
               PROVE  /\ p[Len(q) + i].tx = tx /\ p[Len(q) + i].row = i
                      /\ p[Len(q) + i].ack = IF i = size THEN tx ELSE -1
    OBVIOUS
  <2> DEFINE x == p[Len(q) + i]
  <2>1. x = [tx |-> tx, row |-> i, ack |-> IF i = size THEN tx ELSE -1]
    BY <1>4
  <2> HIDE DEF x
  <2>2. x.tx = tx /\ x.row = i /\ x.ack = IF i = size THEN tx ELSE -1
    BY <2>1
  <2> QED BY <2>2 DEF x
<1>6. \A j \in 1..Len(p) : j \in 1..Len(q) \/ \E i \in 1..size : j = Len(q) + i
  <2> SUFFICES ASSUME NEW j \in 1..Len(p), j \notin 1..Len(q)
               PROVE  \E i \in 1..size : j = Len(q) + i
    OBVIOUS
  <2>1. j - Len(q) \in 1..size /\ j = Len(q) + (j - Len(q))
    BY <1>2, <1>4
  <2> QED BY <2>1
<1>7. PhaseInv(s, log)
  BY <1>0, <1>1, <1>2, <1>3 DEF PhaseInv
(* With the transaction the queue reaches to its end. *)
<1>8. Reaches(log, given, p, Len(p), tx)
  <2> SUFFICES ASSUME NEW t \in 1..tx, ~(t <= given.upTo), NEW row \in 1..log[t].rows,
                      <<t, row>> \notin given.rows
               PROVE  \E j \in 1..Len(p) : p[j].tx = t /\ p[j].row = row
    BY DEF Reaches
  <2>1. CASE t = tx
    <3>1. row \in 1..size
      BY <2>1 DEF size
    <3>2. Len(q) + row \in 1..Len(p)
      BY <1>2, <1>4, <3>1
    <3> QED BY <1>5, <2>1, <3>1, <3>2
  <2>2. CASE t # tx
    <3>1. t \in 1..r.at
      BY <1>2, <2>2
    <3>2. PICK j \in 1..Len(q) : q[j].tx = t /\ q[j].row = row
      BY <1>1, <3>1, SMTT(40) DEF PositionInv, Reaches, q
    <3>3. j \in 1..Len(p)
      BY <1>2, <1>4
    <3> QED BY <1>4, <3>2, <3>3
  <2> QED BY <2>1, <2>2
<1>9. ASSUME NEW i \in 1..size PROVE Ends(log, p[Len(q) + i]) <=> i = size
  BY <1>5 DEF Ends, size
<1>10. ASSUME NEW j \in 1..Len(q) PROVE /\ QueuedInv(r, log, given, j)
                                        /\ QueuedInv(s, log, given, j)
  <2>1. QueuedInv(r, log, given, j) /\ p[j] = q[j] /\ q[j].tx \in Int /\ q[j].ack \in Int
    BY <1>1, <1>4, ReaderFields DEF ChangeInv, q
  <2>2. q[j].ack # -1 => Reaches(log, given, p, j, q[j].ack)
    <3>1. \A i \in 1..j : p[i] = q[i]
      BY <1>2, <1>4
    <3>2. q[j].ack # -1 => Reaches(log, given, q, j, q[j].ack)
      BY <2>1 DEF QueuedInv, q
    <3> QED BY <3>1, <3>2 DEF Reaches
  <2>3. \E m \in j..Len(p) : p[m].tx = p[j].tx /\ Ends(log, p[m])
    <3>1. PICK m \in j..Len(q) : q[m].tx = q[j].tx /\ Ends(log, q[m])
      BY <2>1 DEF QueuedInv, q
    <3>2. m \in 1..Len(q) /\ m \in j..Len(p)
      BY <1>2, <1>4
    <3> QED BY <1>4, <2>1, <3>1, <3>2
  <2>4. q[j].tx <= tx /\ q[j].ack <= tx
    <3>1. q[j].tx <= r.at /\ q[j].ack <= r.at
      BY <2>1 DEF QueuedInv, q
    <3> QED BY <1>2, <2>1, <3>1
  <2> QED BY <1>3, <2>1, <2>2, <2>3, <2>4 DEF QueuedInv, q
<1>11. ASSUME NEW i \in 1..size PROVE QueuedInv(s, log, given, Len(q) + i)
  <2>1. p[Len(q) + i].tx \in (r.committed + 1)..Len(log) /\ p[Len(q) + i].row \in 1..log[tx].rows
    BY <1>0, <1>2, <1>5, SMTT(40) DEF size
  <2>2. i = size => Reaches(log, given, p, Len(q) + i, tx)
    BY <1>4, <1>8
  <2>3. Len(q) + size \in (Len(q) + i)..Len(p) /\ size \in 1..size
    BY <1>2, <1>4
  <2>4. \E m \in (Len(q) + i)..Len(p) : p[m].tx = p[Len(q) + i].tx /\ Ends(log, p[m])
    BY <1>5, <1>9, <2>3
  <2>5. tx \in -1..Len(log) /\ -1 \in -1..Len(log) /\ tx # -1 /\ -1 <= tx
    BY <1>0
  <2> QED BY <1>3, <1>5, <1>9, <2>1, <2>2, <2>4, <2>5 DEF QueuedInv
<1>12. ChangeInv(s, log, given)
  BY <1>3, <1>6, <1>10, <1>11 DEF ChangeInv
<1>13. OrderedInv(s, log)
  <2> SUFFICES ASSUME NEW j \in 1..Len(p), NEW k \in 1..Len(p), j < k
               PROVE  /\ p[j].tx <= p[k].tx /\ p[j].ack < p[k].tx
                      /\ p[j].tx < p[k].tx =>
                           \E m \in j..(k - 1) : p[m].tx = p[j].tx /\ Ends(log, p[m])
    BY <1>3 DEF OrderedInv
  <2>1. CASE k \in 1..Len(q)
    <3>1. j \in 1..Len(q) /\ \A m \in j..(k - 1) : m \in 1..Len(q)
      BY <1>2, <2>1
    <3>2. /\ q[j].tx <= q[k].tx /\ q[j].ack < q[k].tx
          /\ q[j].tx < q[k].tx => \E m \in j..(k - 1) : q[m].tx = q[j].tx /\ Ends(log, q[m])
      BY <1>1, <2>1, <3>1 DEF OrderedInv, q
    <3> QED BY <1>4, <2>1, <3>1, <3>2
  <2>2. CASE j \in 1..Len(q) /\ k \notin 1..Len(q)
    <3>1. PICK i \in 1..size : k = Len(q) + i
      BY <1>6, <2>2
    <3>2. QueuedInv(r, log, given, j) /\ p[j] = q[j] /\ q[j].tx \in Int /\ q[j].ack \in Int
      BY <1>1, <1>4, <1>10, <2>2, ReaderFields DEF q
    <3>3. q[j].tx < tx /\ q[j].ack < tx
      <4>1. q[j].tx <= r.at /\ q[j].ack <= r.at
        BY <3>2 DEF QueuedInv, q
      <4> QED BY <1>18, <3>2, <4>1
    <3>4. PICK m \in j..Len(q) : q[m].tx = q[j].tx /\ Ends(log, q[m])
      BY <3>2 DEF QueuedInv, q
    <3>5. m \in 1..Len(q) /\ m \in j..(k - 1)
      BY <1>2, <2>2, <3>1
    <3>6. p[k].tx = tx /\ p[m] = q[m]
      BY <1>4, <1>5, <3>1, <3>5
    <3>7. p[j].tx <= p[k].tx /\ p[j].ack < p[k].tx
      BY <1>18, <3>2, <3>3, <3>6
    <3>8. p[m].tx = p[j].tx /\ Ends(log, p[m])
      BY <3>2, <3>4, <3>6
    <3> QED BY <3>5, <3>7, <3>8
  <2>3. CASE j \notin 1..Len(q)
    <3>1. PICK i \in 1..size : j = Len(q) + i
      BY <1>6, <2>3
    <3>2. k \notin 1..Len(q)
      BY <1>2, <2>3
    <3>3. PICK l \in 1..size : k = Len(q) + l
      BY <1>6, <3>2
    <3>4. i < l /\ i # size
      BY <1>2, <1>4, <3>1, <3>3
    <3>5. p[j].tx = tx /\ p[k].tx = tx /\ p[j].ack = -1
      BY <1>5, <3>1, <3>3, <3>4
    <3> QED BY <1>0, <3>5
  <2> QED BY <2>1, <2>2, <2>3
<1>14. PositionInv(s, log, given)
  BY <1>1, <1>2, <1>3, <1>8 DEF PositionInv
<1>15. BudgetInv(s, log, n)
  <2> SUFFICES ASSUME s.foreign, ~s.dirty
               PROVE  \E t \in (s.committed + 1)..s.at : log[t].kind # "own"
    BY <1>1, <1>3 DEF BudgetInv
  <2>1. CASE r.foreign
    <3>1. PICK t \in (r.committed + 1)..r.at : log[t].kind # "own"
      BY <1>1, <1>3, <2>1 DEF BudgetInv
    <3>2. t \in (r.committed + 1)..tx
      BY <1>2
    <3> QED BY <1>3, <3>1, <3>2
  <2>2. CASE log[tx].kind # "own"
    <3>1. tx \in (r.committed + 1)..tx
      BY <1>2
    <3> QED BY <1>3, <2>2, <3>1
  <2> QED BY <1>3, <2>1, <2>2
<1>16. RowsInv(s, rows)
  <2>1. q # <<>> => p # <<>> /\ p[1] = q[1]
    BY <1>2, <1>4
  <2> QED BY <1>1, <1>3, <2>1 DEF RowsInv, q
<1>17. ReaderInv(s, log, given, rows, n)
  BY <1>3, <1>7, <1>12, <1>13, <1>14, <1>15, <1>16 DEF ReaderInv
<1> QED BY <1>0, <1>3, <1>17 DEF s

-----------------------------------------------------------------------------
(* take_queued *)

Taken(r, p, c, d, m) ==
  [r EXCEPT !.queue = p, !.committed = c, !.dirty = d, !.midTx = m, !.batches = @ + 1]

HasTaken(s, r, p, c, d, m) ==
  /\ s \in ReaderType /\ s.queue = p /\ s.committed = c /\ s.dirty = d /\ s.midTx = m
  /\ s.at = r.at /\ s.foreign = r.foreign /\ s.done = r.done /\ s.phase = r.phase
  /\ s.page = r.page /\ s.pinned = r.pinned /\ s.cycleStart = r.cycleStart

LEMMA TakenFields ==
  ASSUME NEW r \in ReaderType, NEW p \in Seq(Change), NEW c \in Int, NEW d \in BOOLEAN,
         NEW m \in BOOLEAN
  PROVE  HasTaken(Taken(r, p, c, d, m), r, p, c, d, m)
<1> DEFINE b == r.batches + 1
<1>1. b \in Nat
  BY ReaderFields
<1>2. Taken(r, p, c, d, m) =
        [r EXCEPT !.queue = p, !.committed = c, !.dirty = d, !.midTx = m, !.batches = b]
  BY DEF Taken
<1> HIDE DEF b
<1>3. [r EXCEPT !.queue = p, !.committed = c, !.dirty = d, !.midTx = m, !.batches = b] \in ReaderType
  BY <1>1, Zenon DEF ReaderType
<1>4. LET s == [r EXCEPT !.queue = p, !.committed = c, !.dirty = d, !.midTx = m, !.batches = b]
      IN  /\ s.queue = p /\ s.committed = c /\ s.dirty = d /\ s.midTx = m
          /\ s.at = r.at /\ s.foreign = r.foreign /\ s.done = r.done /\ s.phase = r.phase
          /\ s.page = r.page /\ s.pinned = r.pinned /\ s.cycleStart = r.cycleStart
  BY DEF ReaderType
<1> QED BY <1>2, <1>3, <1>4 DEF HasTaken

(* The position moves to the last acknowledgement among the first k. *)
MovesTo(q, k, from, wasDirty, c, d) ==
  \/ (\A j \in 1..k : q[j].ack = -1) /\ c = from /\ d = wasDirty
  \/ d = TRUE /\ c # -1 /\ (\E j \in 1..k : q[j].ack = c) /\ \A j \in 1..k : q[j].ack <= c

RowsUpTo(q, k) == {<<q[j].tx, q[j].row>> : j \in 1..k}

Handed(given, more) == [given EXCEPT !.rows = @ \cup more]

LEMMA HandedFields ==
  ASSUME NEW given \in Given, NEW more \in SUBSET (Nat \X Nat)
  PROVE  /\ Handed(given, more) \in Given /\ Handed(given, more).upTo = given.upTo
         /\ Handed(given, more).rows = given.rows \cup more
         /\ \A log, p : Settled(log, given, p) => Settled(log, Handed(given, more), p)
<1>1. /\ Handed(given, more) \in Given /\ Handed(given, more).upTo = given.upTo
      /\ Handed(given, more).rows = given.rows \cup more
  BY DEF Handed, Given
<1> QED BY <1>1 DEF Settled

LEMMA Takes ==
  ASSUME NEW log, LogOK(log), NEW r, NEW given \in Given, NEW rows \in SUBSET (Nat \X Nat),
         NEW n \in Nat, ReaderInv(r, log, given, rows, n), r.phase = "streaming", ~r.cycleStart,
         NEW count \in 1..Len(r.queue), NEW c \in Int, NEW d \in BOOLEAN,
         MovesTo(r.queue, count, r.committed, r.dirty, c, d),
         NEW p, p = SubSeq(r.queue, count + 1, Len(r.queue)),
         NEW m \in BOOLEAN, m <=> ~Ends(log, r.queue[count])
  PROVE  /\ ReaderInv(Taken(r, p, c, d, m), log, Handed(given, RowsUpTo(r.queue, count)),
                      rows \cup RowsUpTo(r.queue, count), n)
         /\ Taken(r, p, c, d, m).phase = "streaming"
         /\ RowsUpTo(r.queue, count) \in SUBSET (Nat \X Nat)
<1> DEFINE q == r.queue
           s == Taken(r, p, c, d, m)
           more == RowsUpTo(q, count)
           got == Handed(given, more)
<1>0. Len(log) \in Nat
  BY LogFields
<1>1. /\ r \in ReaderType /\ PhaseInv(r, log) /\ ChangeInv(r, log, given) /\ OrderedInv(r, log)
      /\ PositionInv(r, log, given) /\ BudgetInv(r, log, n) /\ RowsInv(r, rows)
  BY DEF ReaderInv
<1>2. /\ q \in Seq(Change) /\ Len(q) \in Nat /\ r.committed \in Int /\ r.at \in Int
      /\ \A j \in 1..Len(q) : q[j].tx \in Nat /\ q[j].row \in Nat /\ q[j].ack \in Int
      /\ r.committed \in -1..Len(log) /\ r.committed # -1 /\ count \in Nat
  BY <1>1, ReaderFields DEF PhaseInv
<1>31. Len(q) \in Nat /\ count \in 1..Len(q) /\ count \in Nat
  BY <1>2
<1>32. \A j \in 1..Len(q) : q[j].tx \in Int /\ q[j].ack \in Int
  BY <1>2
<1>3. /\ p \in Seq(Change) /\ Len(p) = Len(q) - count
      /\ \A j \in 1..Len(p) : p[j] = q[count + j] /\ count + j \in 1..Len(q)
  <2>1. /\ SubSeq(q, count + 1, Len(q)) \in Seq(Change)
        /\ Len(SubSeq(q, count + 1, Len(q))) = Len(q) - count
        /\ \A j \in 1..(Len(q) - count) :
             SubSeq(q, count + 1, Len(q))[j] = q[count + j] /\ count + j \in 1..Len(q)
    <3> HIDE DEF q
    <3>1. count \in 1..Len(q)
      BY DEF q
    <3> QED BY <1>2, <3>1, RestOf
  <2> QED BY <2>1
<1>4. HasTaken(s, r, p, c, d, m)
  BY <1>1, <1>3, TakenFields
<1>5. \A j \in 1..count : j \in 1..Len(q)
  BY <1>2
<1>6. more \in SUBSET (Nat \X Nat) /\ \A j \in 1..count : <<q[j].tx, q[j].row>> \in more
  <2>1. \A j \in 1..count : q[j].tx \in Nat /\ q[j].row \in Nat
    BY <1>2, <1>5
  <2> HIDE DEF q
  <2>2. \A j \in 1..count : <<q[j].tx, q[j].row>> \in Nat \X Nat
    BY <2>1
  <2> QED BY <2>2 DEF RowsUpTo
<1>7. got \in Given /\ got.upTo = given.upTo /\ got.rows = given.rows \cup more
  BY <1>6, HandedFields
<1>8. MovesTo(q, count, r.committed, r.dirty, c, d) /\ (m <=> ~Ends(log, q[count]))
  OBVIOUS
<1> HIDE DEF s, q, got
<1>9. /\ s \in ReaderType /\ s.queue = p /\ s.committed = c /\ s.dirty = d /\ s.midTx = m
      /\ s.at = r.at /\ s.foreign = r.foreign /\ s.done = r.done /\ s.phase = "streaming"
      /\ s.page = r.page /\ s.pinned = r.pinned /\ ~s.cycleStart
  BY <1>4 DEF HasTaken
(* The queued changes, by themselves and in pairs. *)
<1>10. ASSUME NEW j \in 1..Len(q)
       PROVE  /\ q[j].tx \in (r.committed + 1)..Len(log) /\ q[j].tx \in 1..Len(log)
              /\ q[j].row \in 1..log[q[j].tx].rows /\ q[j].ack \in -1..Len(log)
              /\ q[j].ack # -1 => q[j].tx <= q[j].ack /\ Reaches(log, given, q, j, q[j].ack)
              /\ Ends(log, q[j]) => q[j].ack # -1
              /\ \E e \in j..Len(q) : q[e].tx = q[j].tx /\ Ends(log, q[e])
              /\ r.at # -1 => q[j].tx <= r.at /\ q[j].ack <= r.at
  <2>1. QueuedInv(r, log, given, j)
    BY <1>1 DEF ChangeInv, q
  <2>2. q[j].tx \in (r.committed + 1)..Len(log)
    BY <2>1 DEF QueuedInv, q
  <2>3. q[j].tx \in 1..Len(log)
    BY <1>0, <1>2, <2>2
  <2> QED BY <2>1, <2>2, <2>3 DEF QueuedInv, q
<1>11. ASSUME NEW j \in 1..Len(q), NEW k \in 1..Len(q), j < k
       PROVE  /\ q[j].tx <= q[k].tx /\ q[j].ack < q[k].tx
              /\ q[j].tx < q[k].tx => \E e \in j..(k - 1) : q[e].tx = q[j].tx /\ Ends(log, q[e])
  BY <1>1, <1>11 DEF OrderedInv, q
(* The position moves forward, over everything acknowledged. *)
<1>12. /\ c \in -1..Len(log) /\ c # -1 /\ r.committed <= c
       /\ \A j \in 1..count : q[j].ack <= c
       /\ c = r.committed \/ \E j \in 1..count : q[j].ack = c /\ q[j].tx <= c /\ r.committed < q[j].tx
  <2>1. CASE (\A j \in 1..count : q[j].ack = -1) /\ c = r.committed
    <3>1. r.committed \in -1..Len(log) /\ r.committed # -1 /\ r.committed \in Int
      BY <1>2
    <3>2. -1 <= r.committed
      BY <1>0, <3>1
    <3> QED BY <2>1, <3>1, <3>2
  <2>2. CASE (\E j \in 1..count : q[j].ack = c) /\ c # -1 /\ \A j \in 1..count : q[j].ack <= c
    <3>1. PICK j \in 1..count : q[j].ack = c
      BY <2>2
    <3>2. /\ q[j].tx \in (r.committed + 1)..Len(log) /\ q[j].ack \in -1..Len(log)
          /\ q[j].tx <= q[j].ack
      BY <1>5, <1>10, <2>2, <3>1
    <3> QED BY <1>2, <2>2, <3>1, <3>2, SMTT(40)
  <2> QED BY <1>8, <2>1, <2>2 DEF MovesTo
<1>13. PhaseInv(s, log)
  <2>1. r.queue # <<>>
    BY <1>2 DEF q
  <2> QED BY <1>1, <1>9, <1>12, <2>1 DEF PhaseInv
(* What the first changes and the handed over rows reach. *)
<1>14. ASSUME NEW k \in count..Len(q), NEW t, Reaches(log, given, q, k, t)
       PROVE  Reaches(log, got, p, k - count, t)
  <2> SUFFICES ASSUME NEW u \in 1..t, ~(u <= got.upTo), NEW row \in 1..log[u].rows,
                      <<u, row>> \notin got.rows
               PROVE  \E j \in 1..(k - count) : p[j].tx = u /\ p[j].row = row
    BY DEF Reaches
  <2>1. ~(u <= given.upTo) /\ <<u, row>> \notin given.rows /\ <<u, row>> \notin more
    BY <1>7
  <2>2. PICK j \in 1..k : q[j].tx = u /\ q[j].row = row
    BY <1>14, <2>1 DEF Reaches
  <2>3. j \notin 1..count
    BY <1>6, <2>1, <2>2
  <2>4. j - count \in 1..(k - count) /\ j - count \in 1..Len(p) /\ count + (j - count) = j
    BY <1>2, <1>3, <2>3
  <2>5. p[j - count] = q[j]
    BY <1>3, <2>4
  <2> QED BY <2>2, <2>4, <2>5
<1>15. ASSUME NEW j \in 1..count, NEW t, Reaches(log, given, q, j, t)
       PROVE  Settled(log, got, t)
  <2> SUFFICES ASSUME NEW u \in 1..t, ~(u <= got.upTo), NEW row \in 1..log[u].rows
               PROVE  <<u, row>> \in got.rows
    BY DEF Settled
  <2>1. CASE <<u, row>> \in given.rows
    BY <1>7, <2>1
  <2>2. CASE \E i \in 1..j : q[i].tx = u /\ q[i].row = row
    <3>1. PICK i \in 1..j : q[i].tx = u /\ q[i].row = row
      BY <2>2
    <3>2. i \in 1..count
      BY <1>2
    <3> QED BY <1>6, <1>7, <3>1, <3>2
  <2> QED BY <1>7, <1>15, <2>1, <2>2 DEF Reaches
<1>16. ChangeInv(s, log, got)
  <2> SUFFICES ASSUME NEW j \in 1..Len(p) PROVE QueuedInv(s, log, got, j)
    BY <1>9 DEF ChangeInv
  <2> DEFINE k == count + j
  <2>1. k \in 1..Len(q) /\ p[j] = q[k] /\ k \in count..Len(q) /\ k - count = j /\ k \in Int
    <3>1. count + j \in 1..Len(q) /\ p[j] = q[count + j]
      BY <1>3
    <3>2. count + j \in count..Len(q) /\ (count + j) - count = j /\ count + j \in Int
      BY <1>31, <3>1
    <3> QED BY <3>1, <3>2
  <2> HIDE DEF k
  <2>2. q[k].tx \in (c + 1)..Len(log)
    <3>1. CASE c = r.committed
      BY <1>10, <2>1, <3>1
    <3>2. CASE \E i \in 1..count : q[i].ack = c
      <4>1. PICK i \in 1..count : q[i].ack = c
        BY <3>2
      <4>2. i < k /\ i \in 1..Len(q)
        BY <1>2, <2>1, SMTT(40) DEF k
      <4>3. c < q[k].tx /\ q[k].tx \in 1..Len(log)
        BY <1>10, <1>11, <2>1, <4>1, <4>2
      <4> QED BY <1>0, <4>3
    <3> QED BY <1>12, <3>1, <3>2
  <2>3. q[k].ack # -1 => Reaches(log, got, p, j, q[k].ack)
    BY <1>10, <1>14, <2>1
  <2>4. \E e \in j..Len(p) : p[e].tx = q[k].tx /\ Ends(log, p[e])
    <3>1. PICK e \in k..Len(q) : q[e].tx = q[k].tx /\ Ends(log, q[e])
      BY <1>10, <2>1
    <3>2. e - count \in j..Len(p) /\ e - count \in 1..Len(p) /\ count + (e - count) = e
      BY <1>2, <1>3, <2>1
    <3>3. p[e - count] = q[e]
      BY <1>3, <3>2
    <3> QED BY <3>1, <3>2, <3>3
  <2> QED BY <1>9, <1>10, <2>1, <2>2, <2>3, <2>4 DEF QueuedInv
<1>17. OrderedInv(s, log)
  <2> SUFFICES ASSUME NEW i \in 1..Len(p), NEW k \in 1..Len(p), i < k
               PROVE  /\ p[i].tx <= p[k].tx /\ p[i].ack < p[k].tx
                      /\ p[i].tx < p[k].tx =>
                           \E e \in i..(k - 1) : p[e].tx = p[i].tx /\ Ends(log, p[e])
    BY <1>9 DEF OrderedInv
  <2>1. /\ p[i] = q[count + i] /\ p[k] = q[count + k] /\ count + i < count + k
        /\ count + i \in 1..Len(q) /\ count + k \in 1..Len(q)
    <3>1. count + i < count + k
      BY <1>31
    <3> QED BY <1>3, <3>1
  <2>2. p[i].tx <= p[k].tx /\ p[i].ack < p[k].tx
    BY <1>11, <2>1
  <2>3. ASSUME p[i].tx < p[k].tx
        PROVE  \E e \in i..(k - 1) : p[e].tx = p[i].tx /\ Ends(log, p[e])
    <3>1. PICK e \in (count + i)..((count + k) - 1) : q[e].tx = p[i].tx /\ Ends(log, q[e])
      BY <1>11, <2>1, <2>3
    <3>2. e - count \in i..(k - 1) /\ e - count \in 1..Len(p) /\ count + (e - count) = e
      <4>1. count \in Int /\ Len(p) \in Int /\ e \in Int /\ i \in Int /\ k \in Int
            /\ 1 <= i /\ k <= Len(p)
        BY <1>3, <1>31
      <4>2. count + i <= e /\ e <= (count + k) - 1
        BY <1>31
      <4>3. i <= e - count /\ e - count <= k - 1 /\ count + (e - count) = e /\ e - count \in Int
        BY <4>1, <4>2
      <4>4. 1 <= e - count /\ e - count <= Len(p)
        BY <4>1, <4>3
      <4> QED BY <4>1, <4>3, <4>4
    <3>3. p[e - count] = q[e]
      BY <1>3, <3>2
    <3> QED BY <3>1, <3>2, <3>3
  <2> QED BY <2>2, <2>3
<1>18. PositionInv(s, log, got)
  <2>1. Settled(log, got, c)
    <3>1. CASE c = r.committed
      <4>1. Settled(log, given, r.committed)
        BY <1>1, <1>2 DEF PositionInv
      <4> QED BY <1>6, <3>1, <4>1, HandedFields DEF got
    <3>2. CASE \E j \in 1..count : q[j].ack = c
      <4>1. PICK j \in 1..count : q[j].ack = c
        BY <3>2
      <4>2. Reaches(log, given, q, j, c)
        BY <1>5, <1>10, <1>12, <4>1
      <4> QED BY <1>15, <4>2
    <3> QED BY <1>12, <3>1, <3>2
  <2>2. r.at # -1 => c <= r.at
    <3>1. CASE c = r.committed
      BY <1>1, <3>1 DEF PositionInv
    <3>2. CASE \E j \in 1..count : q[j].ack = c
      BY <1>5, <1>10, <3>2
    <3> QED BY <1>12, <3>1, <3>2
  <2>3. r.at # -1 => Reaches(log, got, p, Len(p), r.at)
    <3>1. Len(q) \in count..Len(q) /\ Len(q) - count = Len(p)
      BY <1>2, <1>3
    <3>2. r.at # -1 => Reaches(log, given, q, Len(q), r.at)
      BY <1>1 DEF PositionInv, q
    <3> QED BY <1>14, <3>1, <3>2
  <2> QED BY <1>9, <2>1, <2>2, <2>3 DEF PositionInv
<1>19. BudgetInv(s, log, n)
  <2>1. CASE c = r.committed /\ d = r.dirty
    BY <1>1, <1>9, <2>1 DEF BudgetInv
  <2>2. CASE d = TRUE /\ \E j \in 1..count : q[j].ack = c
    <3>1. PICK j \in 1..count : q[j].ack = c
      BY <2>2
    <3>2. /\ q[j].tx \in (r.committed + 1)..c /\ 1 <= q[j].tx
          /\ log[q[j].tx].kind # "own"
      <4>1. j \in 1..Len(q) /\ c # -1
        BY <1>5, <1>12
      <4>2. /\ q[j].tx \in (r.committed + 1)..Len(log) /\ q[j].tx \in 1..Len(log)
            /\ q[j].row \in 1..log[q[j].tx].rows /\ q[j].tx <= c
        BY <1>10, <3>1, <4>1
      <4>3. log[q[j].tx].rows > 0
        BY <1>0, <4>2, LogFields
      <4> QED BY <1>0, <1>2, <4>2, <4>3, LogFields, SMTT(40)
    <3>3. News(log, r.committed) \in Nat /\ News(log, c) \in Nat /\ News(log, r.committed) + 1 <= News(log, c)
      BY <1>2, <1>12, <3>2, NewsGrow
    <3>4. n <= 1 + News(log, r.committed)
      BY <1>1, <1>2 DEF BudgetInv
    <3>5. n <= News(log, c) /\ n <= 1 + News(log, c)
      BY <3>3, <3>4
    <3> QED BY <1>9, <2>2, <3>5 DEF BudgetInv
  <2> QED BY <1>8, <2>1, <2>2 DEF MovesTo
(* The transaction cut in two, if there is one, is the next to go on. *)
<1>20. RowsInv(s, rows \cup more)
  <2>1. ASSUME NEW j \in 1..count
        PROVE  q[j].tx <= c \/ (m /\ p # <<>> /\ q[j].tx = p[1].tx)
    <3>0. j \in 1..Len(q) /\ count \in 1..Len(q) /\ (j = count \/ j < count)
      BY <1>2, <1>5
    <3>1. CASE Ends(log, q[count])
      <4>1. q[count].tx <= q[count].ack /\ q[count].ack <= c
        BY <1>10, <1>12, <3>0, <3>1
      <4>2. q[j].tx <= q[count].tx
        BY <1>2, <1>11, <3>0
      <4>3. q[j].tx \in Int /\ q[count].tx \in Int /\ q[count].ack \in Int
        BY <1>32, <3>0
      <4>4. q[j].tx <= c
        BY <4>1, <4>2, <4>3
      <4> QED BY <4>4
    <3>2. CASE ~Ends(log, q[count]) /\ q[j].tx # q[count].tx
      <4>1. j < count /\ q[j].tx < q[count].tx
        <5>1. j < count
          BY <3>0, <3>2
        <5>2. q[j].tx <= q[count].tx /\ q[j].tx \in Int /\ q[count].tx \in Int
          BY <1>11, <1>32, <3>0, <5>1
        <5>3. q[j].tx < q[count].tx
          BY <3>2, <5>2
        <5> QED BY <5>1, <5>3
      <4>2. PICK e \in j..(count - 1) : q[e].tx = q[j].tx /\ Ends(log, q[e])
        BY <1>11, <3>0, <4>1
      <4>3. e \in 1..count /\ e \in 1..Len(q)
        BY <1>31
      <4>4. q[e].tx <= q[e].ack /\ q[e].ack <= c
        BY <1>10, <1>12, <4>2, <4>3
      <4>5. q[e].tx \in Int /\ q[e].ack \in Int
        BY <1>32, <4>3
      <4>6. q[e].tx <= c
        BY <4>4, <4>5
      <4> QED BY <4>2, <4>6
    <3>3. CASE ~Ends(log, q[count]) /\ q[j].tx = q[count].tx
      <4>1. PICK e \in count..Len(q) : q[e].tx = q[count].tx /\ Ends(log, q[e])
        BY <1>10, <3>0
      <4>2. e # count /\ e \in 1..Len(q) /\ e \in Int
        BY <1>2, <3>0, <3>3, <4>1
      <4>3. 1 \in 1..Len(p) /\ count + 1 \in 1..Len(q) /\ count + 1 <= e
        BY <1>2, <1>3, <3>0, <4>2
      <4>4. p[1] = q[count + 1] /\ p # <<>>
        <5>1. p[1] = q[count + 1]
          BY <1>3, <4>3
        <5>2. p # <<>>
          <6> SUFFICES ASSUME p = <<>> PROVE FALSE
            OBVIOUS
          <6>1. Len(p) = 0 /\ 1 \in 1..Len(p)
            BY <4>3
          <6> QED BY <6>1
        <5> QED BY <5>1, <5>2
      <4>5. q[count].tx <= q[count + 1].tx /\ q[count + 1].tx <= q[e].tx
        <5>1. count < count + 1
          BY <1>2
        <5>2. q[count].tx <= q[count + 1].tx
          BY <1>11, <3>0, <4>3, <5>1
        <5>3. count + 1 = e \/ count + 1 < e
          BY <1>2, <4>2, <4>3
        <5>4. q[count + 1].tx <= q[e].tx
          BY <1>2, <1>11, <4>2, <4>3, <5>3
        <5> QED BY <5>2, <5>4
      <4>6. q[count].tx = q[count + 1].tx
        <5>1. q[count].tx \in Int /\ q[count + 1].tx \in Int
          BY <1>32, <3>0, <4>3
        <5>2. q[e].tx = q[count].tx
          BY <4>1
        <5> QED BY <4>5, <5>1, <5>2
      <4> QED BY <1>8, <3>3, <4>4, <4>6
    <3> QED BY <3>1, <3>2, <3>3
  <2>2. ASSUME NEW row \in rows
        PROVE  row[1] <= c \/ (m /\ p # <<>> /\ row[1] = p[1].tx)
    <3>1. CASE row[1] <= r.committed
      <4>1. row[1] \in Nat
        OBVIOUS
      <4> QED BY <1>2, <1>12, <3>1, <4>1
    <3>2. CASE row[1] = q[1].tx
      <4>1. 1 \in 1..count
        BY <1>2
      <4> QED BY <2>1, <3>2, <4>1
    <3> QED BY <1>1, <3>1, <3>2 DEF RowsInv, q
  <2>3. ASSUME NEW row \in more
        PROVE  row[1] <= c \/ (m /\ p # <<>> /\ row[1] = p[1].tx)
    <3>1. PICK j \in 1..count : row = <<q[j].tx, q[j].row>>
      BY DEF RowsUpTo
    <3>2. row[1] = q[j].tx
      BY <3>1
    <3> QED BY <2>1, <3>2
  <2> QED BY <1>9, <2>2, <2>3 DEF RowsInv
<1>21. ReaderInv(s, log, got, rows \cup more, n)
  BY <1>9, <1>13, <1>16, <1>17, <1>18, <1>19, <1>20 DEF ReaderInv
<1> QED BY <1>6, <1>9, <1>21 DEF s, got, q

-----------------------------------------------------------------------------
(* Readers with nothing open *)

(* What was handed over in a cycle is behind the position when nothing is  *)
(* queued.                                                                 *)
LEMMA RowsBehind ==
  ASSUME NEW r, NEW rows, RowsInv(r, rows), r.queue = <<>> \/ ~r.midTx
  PROVE  \A row \in rows : row[1] <= r.committed
BY DEF RowsInv

(* ... and before there is a position nothing was handed over. *)
LEMMA NothingHanded ==
  ASSUME NEW r, NEW rows \in SUBSET (Nat \X Nat), RowsInv(r, rows), r.queue = <<>>,
         r.committed = -1
  PROVE  rows = {}
<1>1. \A row \in rows : row[1] <= -1
  BY RowsBehind
<1>2. \A row \in Nat \X Nat : row[1] \in Nat
  OBVIOUS
<1> QED BY <1>1, <1>2

(* A reader that forgets what is queued and goes back to its position. *)
Rewound(s, r) ==
  /\ s \in ReaderType /\ s.queue = <<>> /\ s.at = -1 /\ s.committed = r.committed
  /\ s.dirty = r.dirty /\ s.phase = r.phase
  /\ s.page = 0 \/ (s.page = r.page /\ s.pinned = r.pinned)

LEMMA Rewinds ==
  ASSUME NEW log, LogOK(log), NEW r, NEW given, NEW rows, NEW n \in Nat,
         ReaderInv(r, log, given, rows, n), NEW s, Rewound(s, r),
         NEW now, \A row \in now : row[1] <= r.committed
  PROVE  ReaderInv(s, log, given, now, n)
<1>1. /\ r \in ReaderType /\ PhaseInv(r, log) /\ PositionInv(r, log, given) /\ BudgetInv(r, log, n)
  BY DEF ReaderInv
<1>2. /\ s \in ReaderType /\ s.queue = <<>> /\ s.at = -1 /\ s.committed = r.committed
      /\ s.dirty = r.dirty /\ s.phase = r.phase
      /\ s.page = 0 \/ (s.page = r.page /\ s.pinned = r.pinned)
  BY DEF Rewound
<1>3. Len(log) \in Nat
  BY LogFields
<1>4. PhaseInv(s, log)
  <2>1. -1 \in -1..Len(log) /\ ~(0 > 0)
    BY <1>3
  <2> QED BY <1>1, <1>2, <2>1 DEF PhaseInv
<1>5. /\ s.committed # -1 => Settled(log, given, s.committed) /\ n <= 1 + News(log, s.committed)
      /\ s.committed # -1 /\ s.dirty => n <= News(log, s.committed)
  BY <1>1, <1>2 DEF PositionInv, BudgetInv
<1>6. \A row \in now : row[1] <= s.committed
  BY <1>2
<1> QED BY <1>2, <1>4, <1>5, <1>6, EmptyReader

LEMMA AbandonedFields ==
  ASSUME NEW r \in ReaderType
  PROVE  /\ Rewound(Abandoned(r), r)
         /\ Rewound([Abandoned(r) EXCEPT !.page = 0, !.pinned = NoPosition], r)
         /\ Rewound([Abandoned(r) EXCEPT !.cycleStart = TRUE], r)
<1>1. <<>> \in Seq(Change) /\ NotOpen \in Int /\ 0 \in Nat /\ FALSE \in BOOLEAN /\ TRUE \in BOOLEAN
      /\ NoPosition \in Int
  BY DEF NotOpen, NoPosition
<1>2. Abandoned(r) \in ReaderType
  BY <1>1, Zenon DEF ReaderType, Abandoned
<1>3. LET s == Abandoned(r)
      IN  /\ s.queue = <<>> /\ s.at = -1 /\ s.committed = r.committed
          /\ s.dirty = r.dirty /\ s.phase = r.phase /\ s.page = r.page /\ s.pinned = r.pinned
  BY DEF ReaderType, Abandoned, NotOpen
<1> DEFINE a == Abandoned(r)
<1> HIDE DEF a
<1>4. a \in ReaderType
  BY <1>2 DEF a
<1>5. [a EXCEPT !.page = 0, !.pinned = NoPosition] \in ReaderType
      /\ [a EXCEPT !.cycleStart = TRUE] \in ReaderType
  BY <1>1, <1>4, Zenon DEF ReaderType
<1>6. LET s == [a EXCEPT !.page = 0, !.pinned = NoPosition]
      IN  /\ s.queue = a.queue /\ s.at = a.at /\ s.committed = a.committed
          /\ s.dirty = a.dirty /\ s.phase = a.phase /\ s.page = 0
  BY <1>4 DEF ReaderType
<1>7. LET s == [a EXCEPT !.cycleStart = TRUE]
      IN  /\ s.queue = a.queue /\ s.at = a.at /\ s.committed = a.committed
          /\ s.dirty = a.dirty /\ s.phase = a.phase /\ s.page = a.page /\ s.pinned = a.pinned
  BY <1>4 DEF ReaderType
<1>8. /\ a.queue = <<>> /\ a.at = -1 /\ a.committed = r.committed
      /\ a.dirty = r.dirty /\ a.phase = r.phase /\ a.page = r.page /\ a.pinned = r.pinned
  BY <1>3 DEF a
<1>9. /\ Rewound(a, r) /\ Rewound([a EXCEPT !.page = 0, !.pinned = NoPosition], r)
      /\ Rewound([a EXCEPT !.cycleStart = TRUE], r)
  BY <1>4, <1>5, <1>6, <1>7, <1>8 DEF Rewound
<1> QED BY <1>9 DEF a

(* A hint changes nothing else. *)
LEMMA Hinted ==
  ASSUME NEW log, NEW r, NEW given, NEW rows, NEW n, ReaderInv(r, log, given, rows, n),
         NEW b \in Nat \ {0}
  PROVE  /\ ReaderInv([r EXCEPT !.batchRows = b], log, given, rows, n)
         /\ [r EXCEPT !.batchRows = b].phase = r.phase
<1> DEFINE s == [r EXCEPT !.batchRows = b]
<1>1. r \in ReaderType
  BY DEF ReaderInv
<1>2. s \in ReaderType
  BY <1>1, Zenon DEF ReaderType
<1>3. /\ s.queue = r.queue /\ s.at = r.at /\ s.committed = r.committed /\ s.dirty = r.dirty
      /\ s.phase = r.phase /\ s.page = r.page /\ s.pinned = r.pinned /\ s.foreign = r.foreign
      /\ s.done = r.done /\ s.cycleStart = r.cycleStart /\ s.midTx = r.midTx
  BY <1>1 DEF ReaderType
<1> HIDE DEF s
<1>4. PhaseInv(s, log) /\ OrderedInv(s, log) /\ PositionInv(s, log, given) /\ BudgetInv(s, log, n)
  BY <1>3 DEF ReaderInv, PhaseInv, OrderedInv, PositionInv, BudgetInv
<1>5. ChangeInv(s, log, given)
  <2> SUFFICES ASSUME NEW j \in 1..Len(r.queue) PROVE QueuedInv(s, log, given, j)
    BY <1>3 DEF ChangeInv
  <2>1. QueuedInv(r, log, given, j)
    BY DEF ReaderInv, ChangeInv
  <2> QED BY <1>3, <2>1 DEF QueuedInv
<1>6. RowsInv(s, rows)
  BY <1>3 DEF ReaderInv, RowsInv
<1>7. ReaderInv(s, log, given, rows, n) /\ s.phase = r.phase
  BY <1>2, <1>3, <1>4, <1>5, <1>6 DEF ReaderInv
<1> QED BY <1>7 DEF s

-----------------------------------------------------------------------------
(* The steps *)

(* One transaction more at the end of the binlog. *)
LEMMA Logged ==
  ASSUME LogOK(binlog), NEW x, x \in {Transaction("own", 0), Transaction("other", 0)}
           \/ \E k \in TxRows : x = Transaction("table", k),
         NEW more, more = Append(binlog, x)
  PROVE  /\ LogOK(more) /\ Len(binlog) \in Nat /\ Len(more) = Len(binlog) + 1
         /\ \A t \in 1..Len(binlog) : more[t] = binlog[t]
<1> DEFINE T == [kind : {"table", "other", "own"}, rows : Nat]
<1>1. x \in T /\ (x.rows > 0 => x.kind # "own")
  BY BinlogAssumption DEF Transaction
<1>2. binlog \in Seq(T) /\ \A t \in 1..Len(binlog) : binlog[t].rows > 0 => binlog[t].kind # "own"
  BY DEF LogOK
<1> HIDE DEF T
<1>3. /\ more \in Seq(T) /\ Len(binlog) \in Nat /\ Len(more) = Len(binlog) + 1
      /\ \A t \in 1..Len(binlog) : more[t] = binlog[t]
      /\ more[Len(binlog) + 1] = x
  BY <1>1, <1>2
<1>4. ASSUME NEW t \in 1..Len(more), more[t].rows > 0 PROVE more[t].kind # "own"
  <2>1. CASE t = Len(binlog) + 1
    BY <1>1, <1>3, <1>4, <2>1
  <2>2. CASE t \in 1..Len(binlog)
    BY <1>2, <1>3, <1>4, <2>2
  <2> QED BY <1>3, <2>1, <2>2
<1>5. LogOK(more)
  BY <1>3, <1>4 DEF LogOK, T
<1> QED BY <1>3, <1>5

(* What all steps start from. *)
LEMMA InvParts ==
  ASSUME BinlogInv
  PROVE  /\ LogOK(binlog) /\ Len(binlog) \in Nat /\ stored \in -1..Len(binlog) /\ stored \in Int
         /\ handedOver \in Given /\ binlogWritten \in Given
         /\ cycleRows \in SUBSET (Nat \X Nat) /\ stores \in Nat
         /\ ReaderInv(reader, binlog, handedOver, cycleRows, stores)
         /\ reader \in ReaderType /\ PhaseInv(reader, binlog) /\ RowsInv(reader, cycleRows)
<1>1. Len(binlog) \in Nat
  BY LogFields DEF BinlogInv
<1>2. stored \in Int
  BY <1>1 DEF BinlogInv
<1> QED BY <1>1, <1>2 DEF BinlogInv, ReaderInv

(* The binlog grows by what the reader does not look at. *)
LEMMA CommitKeeps == ASSUME BinlogInv, CommitTransaction PROVE BinlogInv'
<1>1. /\ LogOK(binlog') /\ Len(binlog) \in Nat /\ Len(binlog') = Len(binlog) + 1
      /\ \A t \in 1..Len(binlog) : binlog'[t] = binlog[t]
  <2>1. PICK x : /\ x \in {Transaction("own", 0), Transaction("other", 0)}
                    \/ \E k \in TxRows : x = Transaction("table", k)
                 /\ binlog' = Append(binlog, x)
    BY DEF CommitTransaction
  <2> QED BY <2>1, Logged, InvParts
<1>2. UNCHANGED <<stored, takeSnapshot, reader, handedOver, binlogWritten, cycleRows, stores>>
  BY DEF CommitTransaction
<1>3. Len(binlog) <= Len(binlog')
  BY <1>1
<1>4. /\ \A p \in -1..Len(binlog) : News(binlog', p) = News(binlog, p)
      /\ \A given : \A p \in -1..Len(binlog) : Settled(binlog, given, p) => Settled(binlog', given, p)
      /\ ReaderInv(reader, binlog', handedOver, cycleRows, stores)
  BY <1>1, <1>3, LogGrows, InvParts
<1>5. stored \in -1..Len(binlog')
  BY <1>1, InvParts
<1>6. StoredInv'
  BY <1>2, <1>4, InvParts DEF BinlogInv, StoredInv
<1> QED BY <1>1, <1>2, <1>4, <1>5, <1>6 DEF BinlogInv

(* Where a start finds itself. *)
LEMMA Unresolved ==
  ASSUME BinlogInv, reader.phase # "streaming"
  PROVE  /\ reader.queue = <<>> /\ reader.at = -1 /\ reader.committed = -1 /\ ~reader.dirty
         /\ cycleRows = {} /\ handedOver \in Given
BY InvParts, NothingHanded DEF PhaseInv

LEMMA LoadedFields ==
  ASSUME NEW r \in ReaderType, NEW p \in Int
  PROVE  LET s == [r EXCEPT !.phase = "streaming", !.committed = p]
         IN  /\ s \in ReaderType /\ s.queue = r.queue /\ s.at = r.at /\ s.committed = p
             /\ s.dirty = r.dirty /\ s.phase = "streaming" /\ s.page = r.page
             /\ s.pinned = r.pinned /\ s.done = r.done /\ s.cycleStart = r.cycleStart
<1>1. [r EXCEPT !.phase = "streaming", !.committed = p] \in ReaderType
  <2>1. "streaming" \in {"unresolved", "snapshot", "streaming"}
    OBVIOUS
  <2> QED BY <2>1, Zenon DEF ReaderType
<1> QED BY <1>1 DEF ReaderType

LEMMA SnapshotFields ==
  ASSUME NEW r \in ReaderType
  PROVE  LET s == [r EXCEPT !.phase = "snapshot"]
         IN  /\ s \in ReaderType /\ s.queue = r.queue /\ s.at = r.at /\ s.committed = r.committed
             /\ s.dirty = r.dirty /\ s.phase = "snapshot" /\ s.page = r.page
             /\ s.pinned = r.pinned /\ s.done = r.done /\ s.cycleStart = r.cycleStart
<1>1. [r EXCEPT !.phase = "snapshot"] \in ReaderType
  <2>1. "snapshot" \in {"unresolved", "snapshot", "streaming"}
    OBVIOUS
  <2> QED BY <2>1, Zenon DEF ReaderType
<1> QED BY <1>1 DEF ReaderType

LEMMA LoadStoredKeeps == ASSUME BinlogInv, LoadStored PROVE BinlogInv'
<1>1. /\ reader.phase = "unresolved" /\ stored # -1
      /\ reader' = [reader EXCEPT !.phase = "streaming", !.committed = stored]
      /\ UNCHANGED <<binlog, stored, takeSnapshot, handedOver, binlogWritten, cycleRows, stores>>
  BY DEF LoadStored, NoPosition
<1>2. /\ reader.queue = <<>> /\ reader.at = -1 /\ ~reader.dirty /\ cycleRows = {}
  BY <1>1, Unresolved
<1>3. /\ reader' \in ReaderType /\ reader'.queue = <<>> /\ reader'.at = -1
      /\ reader'.committed = stored /\ reader'.dirty = reader.dirty
      /\ reader'.phase = "streaming" /\ reader'.page = reader.page
      /\ reader'.pinned = reader.pinned /\ reader'.done = reader.done
      /\ reader'.cycleStart = reader.cycleStart
  <2>1. reader \in ReaderType /\ stored \in Int
    BY InvParts
  <2> QED BY <1>1, <1>2, <2>1, LoadedFields
<1>4. Settled(binlog, handedOver, stored) /\ stores <= 1 + News(binlog, stored)
  BY <1>1 DEF BinlogInv, StoredInv
<1>5. PhaseInv(reader', binlog)
  BY <1>1, <1>2, <1>3, InvParts DEF PhaseInv
<1>6. ReaderInv(reader', binlog, handedOver, cycleRows, stores)
  BY <1>2, <1>3, <1>4, <1>5, InvParts, EmptyReader
<1>7. StoredInv'
  BY <1>1, <1>3 DEF BinlogInv, StoredInv
<1> QED BY <1>1, <1>6, <1>7 DEF BinlogInv

LEMMA LoadSnapshotKeeps == ASSUME BinlogInv, LoadSnapshot PROVE BinlogInv'
<1>1. /\ reader.phase = "unresolved" /\ stored = -1
      /\ reader' = [reader EXCEPT !.phase = "snapshot"]
      /\ UNCHANGED <<binlog, stored, takeSnapshot, handedOver, binlogWritten, cycleRows, stores>>
  BY DEF LoadSnapshot, NoPosition
<1>2. /\ reader.queue = <<>> /\ reader.at = -1 /\ ~reader.dirty /\ cycleRows = {}
      /\ reader.committed = -1
  BY <1>1, Unresolved
<1>3. /\ reader' \in ReaderType /\ reader'.queue = <<>> /\ reader'.at = -1
      /\ reader'.committed = -1 /\ reader'.dirty = reader.dirty
      /\ reader'.phase = "snapshot" /\ reader'.page = reader.page
      /\ reader'.pinned = reader.pinned /\ reader'.done = reader.done
      /\ reader'.cycleStart = reader.cycleStart
  <2>1. reader \in ReaderType
    BY InvParts
  <2> QED BY <1>1, <1>2, <2>1, SnapshotFields
<1>4. PhaseInv(reader', binlog)
  BY <1>1, <1>2, <1>3, InvParts DEF PhaseInv
<1>5. ReaderInv(reader', binlog, handedOver, cycleRows, stores)
  BY <1>2, <1>3, <1>4, InvParts, EmptyReader
<1>6. StoredInv'
  BY <1>1, <1>3 DEF BinlogInv, StoredInv
<1> QED BY <1>1, <1>5, <1>6 DEF BinlogInv

(* A position that the host is told to start from counts as given. *)
LEMMA StartsFrom ==
  ASSUME NEW given \in Given, NEW p \in Nat
  PROVE  /\ [given EXCEPT !.upTo = p] \in Given
         /\ \A log : Settled(log, [given EXCEPT !.upTo = p], p)
<1>1. [given EXCEPT !.upTo = p] \in Given /\ [given EXCEPT !.upTo = p].upTo = p
  BY DEF Given
<1>2. \A t \in 1..p : t <= p
  OBVIOUS
<1> QED BY <1>1, <1>2 DEF Settled

LEMMA LoadInitialKeeps ==
  ASSUME BinlogInv, NEW p \in {0, Len(binlog)}, LoadInitial(p)
  PROVE  BinlogInv'
<1>1. /\ reader.phase = "unresolved" /\ stored = -1
      /\ reader' = [reader EXCEPT !.phase = "streaming", !.committed = p]
      /\ stored' = p /\ binlog' = Append(binlog, Transaction("own", 0))
      /\ stores' = stores + 1
      /\ handedOver' = [handedOver EXCEPT !.upTo = p]
      /\ binlogWritten' = [binlogWritten EXCEPT !.upTo = p]
      /\ UNCHANGED cycleRows
  BY DEF LoadInitial, StoreBinlog, NoPosition
<1>2. /\ reader.queue = <<>> /\ reader.at = -1 /\ ~reader.dirty /\ cycleRows = {}
  BY <1>1, Unresolved
<1>3. /\ LogOK(binlog') /\ Len(binlog) \in Nat /\ Len(binlog') = Len(binlog) + 1
  BY <1>1, InvParts, Logged
<1>4. p \in Nat /\ p \in Int /\ p \in -1..Len(binlog') /\ p # -1
  BY <1>3
<1>5. stores = 0 /\ stores' = 1 /\ stores' \in Nat
  BY <1>1 DEF BinlogInv, StoredInv
<1>6. /\ reader' \in ReaderType /\ reader'.queue = <<>> /\ reader'.at = -1
      /\ reader'.committed = p /\ reader'.dirty = reader.dirty
      /\ reader'.phase = "streaming" /\ reader'.page = reader.page
      /\ reader'.pinned = reader.pinned /\ reader'.done = reader.done
      /\ reader'.cycleStart = reader.cycleStart
  <2>1. reader \in ReaderType
    BY InvParts
  <2> QED BY <1>1, <1>2, <1>4, <2>1, LoadedFields
<1>7. /\ handedOver' \in Given /\ binlogWritten' \in Given
      /\ Settled(binlog', handedOver', p) /\ Settled(binlog', binlogWritten', p)
  BY <1>1, <1>4, InvParts, StartsFrom
<1>8. News(binlog', p) \in Nat
  BY <1>4, NewsGrow
<1>9. stores' <= 1 + News(binlog', p)
  BY <1>5, <1>8
<1>10. PhaseInv(reader', binlog')
  <2>1. reader.page > 0 => reader.pinned \in 0..Len(binlog')
    <3>1. reader.page > 0 => reader.pinned \in 0..Len(binlog)
      BY InvParts DEF PhaseInv
    <3>2. \A x \in 0..Len(binlog) : x \in 0..Len(binlog')
      BY <1>3
    <3> QED BY <3>1, <3>2
  <2>2. -1 \in -1..Len(binlog')
    BY <1>3
  <2> QED BY <1>2, <1>4, <1>6, <2>1, <2>2, InvParts DEF PhaseInv
<1>11. ReaderInv(reader', binlog', handedOver', cycleRows', stores')
  BY <1>1, <1>2, <1>3, <1>5, <1>6, <1>7, <1>9, <1>10, EmptyReader
<1>12. StoredInv'
  BY <1>1, <1>4, <1>6, <1>7, <1>9 DEF StoredInv
<1> QED BY <1>1, <1>3, <1>4, <1>5, <1>7, <1>11, <1>12, InvParts DEF BinlogInv

LEMMA StartedFields ==
  ASSUME NEW r \in ReaderType
  PROVE  LET s == [r EXCEPT !.cycleStart = FALSE, !.batches = 0, !.done = FALSE, !.dirty = FALSE]
         IN  /\ s \in ReaderType /\ s.queue = r.queue /\ s.at = r.at /\ s.committed = r.committed
             /\ ~s.dirty /\ s.phase = r.phase /\ s.page = r.page /\ s.pinned = r.pinned
<1>1. FALSE \in BOOLEAN /\ 0 \in Nat
  OBVIOUS
<1>2. [r EXCEPT !.cycleStart = FALSE, !.batches = 0, !.done = FALSE, !.dirty = FALSE] \in ReaderType
  BY <1>1, Zenon DEF ReaderType
<1> QED BY <1>2 DEF ReaderType

(* The position that a new cycle stores is one the host has all of. *)
LEMMA StartKeeps == ASSUME BinlogInv, StartBinlogCycle PROVE BinlogInv'
<1>1. /\ reader.phase # "unresolved" /\ reader.cycleStart
      /\ reader' = [reader EXCEPT !.cycleStart = FALSE, !.batches = 0, !.done = FALSE, !.dirty = FALSE]
      /\ binlogWritten' = handedOver /\ cycleRows' = {} /\ handedOver' = handedOver
  BY DEF StartBinlogCycle
<1>2. /\ reader.queue = <<>> /\ reader.at = -1
  BY <1>1, InvParts DEF PhaseInv
<1>3. /\ reader' \in ReaderType /\ reader'.queue = <<>> /\ reader'.at = -1
      /\ reader'.committed = reader.committed /\ ~reader'.dirty
      /\ reader'.phase = reader.phase /\ reader'.page = reader.page
      /\ reader'.pinned = reader.pinned
  BY <1>1, <1>2, InvParts, StartedFields
<1>4. /\ reader.committed # -1 => Settled(binlog, handedOver, reader.committed)
                                  /\ stores <= 1 + News(binlog, reader.committed)
      /\ reader.committed # -1 /\ reader.dirty => stores <= News(binlog, reader.committed)
      /\ reader.committed \in -1..Len(binlog) /\ reader.committed \in Int
      /\ reader.committed # -1 => reader.phase = "streaming"
  BY InvParts, ReaderFields DEF ReaderInv, PositionInv, BudgetInv, PhaseInv
<1>5. CASE reader.dirty /\ reader.committed # -1
  <2>1. /\ stored' = reader.committed /\ binlog' = Append(binlog, Transaction("own", 0))
        /\ stores' = stores + 1
    BY <1>5 DEF StartBinlogCycle, StoreBinlog, NoPosition
  <2>2. /\ LogOK(binlog') /\ Len(binlog) \in Nat /\ Len(binlog') = Len(binlog) + 1
        /\ \A t \in 1..Len(binlog) : binlog'[t] = binlog[t]
    BY <2>1, InvParts, Logged
  <2>3. Len(binlog) <= Len(binlog')
    BY <2>2
  <2>4. /\ Settled(binlog', handedOver, reader.committed)
        /\ News(binlog', reader.committed) = News(binlog, reader.committed)
    BY <1>4, <1>5, <2>2, <2>3, InvParts, LogGrows
  <2>5. News(binlog, reader.committed) \in Nat
    BY <1>4, NewsGrow
  <2>6. stores' \in Nat /\ stores' <= 1 + News(binlog', reader.committed)
    BY <1>4, <1>5, <2>1, <2>4, <2>5, InvParts
  <2>7. PhaseInv(reader', binlog')
    <3>1. \A x \in -1..Len(binlog) : x \in -1..Len(binlog')
      BY <2>2
    <3>2. \A x \in 0..Len(binlog) : x \in 0..Len(binlog')
      BY <2>2
    <3> QED BY <1>2, <1>3, <1>4, <3>1, <3>2, InvParts DEF PhaseInv
  <2>8. ReaderInv(reader', binlog', handedOver', cycleRows', stores')
    BY <1>1, <1>3, <2>2, <2>4, <2>6, <2>7, EmptyReader
  <2>9. StoredInv'
    BY <1>1, <1>3, <1>4, <1>5, <2>1, <2>4, <2>6 DEF StoredInv
  <2>10. stored' \in -1..Len(binlog')
    BY <1>4, <2>1, <2>2
  <2> QED BY <1>1, <2>2, <2>6, <2>8, <2>9, <2>10, InvParts DEF BinlogInv
<1>6. CASE ~(reader.dirty /\ reader.committed # -1)
  <2>1. UNCHANGED <<binlog, stored, stores>>
    BY <1>6 DEF StartBinlogCycle, NoPosition
  <2>2. PhaseInv(reader', binlog)
    BY <1>2, <1>3, InvParts DEF PhaseInv
  <2>3. ReaderInv(reader', binlog, handedOver, {}, stores)
    BY <1>3, <1>4, <2>2, InvParts, EmptyReader
  <2>4. StoredInv'
    BY <1>1, <1>3, <2>1 DEF BinlogInv, StoredInv
  <2> QED BY <1>1, <2>1, <2>3, <2>4, InvParts DEF BinlogInv
<1> QED BY <1>5, <1>6

(* A store that was not answered may be there: it is no less right. *)
LEMMA UnansweredKeeps == ASSUME BinlogInv, StoreUnanswered PROVE BinlogInv'
<1>1. /\ reader.phase # "unresolved" /\ reader.committed # -1 /\ reader.dirty
      /\ reader' = Abandoned(reader)
      /\ stored' = reader.committed /\ binlog' = Append(binlog, Transaction("own", 0))
      /\ binlogWritten' = handedOver /\ cycleRows' = {} /\ handedOver' = handedOver
      /\ stores' = stores
  BY DEF StoreUnanswered, StoreBinlog, NoPosition
<1>2. /\ LogOK(binlog') /\ Len(binlog) \in Nat /\ Len(binlog') = Len(binlog) + 1
      /\ \A t \in 1..Len(binlog) : binlog'[t] = binlog[t]
  BY <1>1, InvParts, Logged
<1>3. Len(binlog) <= Len(binlog')
  BY <1>2
<1>4. /\ Settled(binlog, handedOver, reader.committed)
      /\ stores <= 1 + News(binlog, reader.committed)
      /\ reader.committed \in -1..Len(binlog) /\ reader.phase = "streaming"
  BY <1>1, InvParts DEF ReaderInv, PositionInv, BudgetInv, PhaseInv
<1>5. /\ Settled(binlog', handedOver, reader.committed)
      /\ News(binlog', reader.committed) = News(binlog, reader.committed)
      /\ ReaderInv(reader, binlog', handedOver, cycleRows, stores)
  BY <1>2, <1>3, <1>4, InvParts, LogGrows
<1>6. Rewound(reader', reader)
  BY <1>1, InvParts, AbandonedFields
<1>7. ReaderInv(reader', binlog', handedOver, {}, stores)
  BY <1>2, <1>5, <1>6, InvParts, Rewinds
<1>8. StoredInv'
  BY <1>1, <1>4, <1>5, <1>6 DEF StoredInv, Rewound
<1>9. stored' \in -1..Len(binlog')
  BY <1>1, <1>2, <1>4
<1> QED BY <1>1, <1>2, <1>7, <1>8, <1>9, InvParts DEF BinlogInv

(* Steps of the reader alone. *)
LEMMA ReaderAlone ==
  ASSUME BinlogInv, UNCHANGED <<binlog, stored, handedOver, binlogWritten, stores>>,
         reader'.phase = reader.phase, cycleRows' \in SUBSET (Nat \X Nat),
         ReaderInv(reader', binlog, handedOver, cycleRows', stores)
  PROVE  BinlogInv'
<1>1. StoredInv'
  BY DEF BinlogInv, StoredInv
<1> QED BY <1>1 DEF BinlogInv

LEMMA HintKeeps ==
  ASSUME BinlogInv, NEW b \in BinlogBatchRows, RequestBatchRows(b)
  PROVE  BinlogInv'
<1>1. /\ reader' = [reader EXCEPT !.batchRows = b] /\ b \in Nat \ {0}
      /\ UNCHANGED <<binlog, stored, takeSnapshot, handedOver, binlogWritten, cycleRows, stores>>
  BY BinlogAssumption DEF RequestBatchRows
<1>2. /\ ReaderInv(reader', binlog, handedOver, cycleRows, stores)
      /\ reader'.phase = reader.phase
  BY <1>1, InvParts, Hinted
<1> QED BY <1>1, <1>2, InvParts, ReaderAlone

LEMMA PagedFields ==
  ASSUME NEW r \in ReaderType, NEW x \in Int
  PROVE  LET s == [r EXCEPT !.page = @ + 1, !.pinned = x, !.batches = @ + 1]
         IN  /\ s \in ReaderType /\ s.queue = r.queue /\ s.at = r.at /\ s.committed = r.committed
             /\ s.dirty = r.dirty /\ s.phase = r.phase /\ s.pinned = x
             /\ s.done = r.done /\ s.cycleStart = r.cycleStart
<1> DEFINE e == r.page + 1
           f == r.batches + 1
<1>1. e \in Nat /\ f \in Nat
  BY ReaderFields
<1>2. [r EXCEPT !.page = @ + 1, !.pinned = x, !.batches = @ + 1]
        = [r EXCEPT !.page = e, !.pinned = x, !.batches = f]
  OBVIOUS
<1> HIDE DEF e, f
<1>3. [r EXCEPT !.page = e, !.pinned = x, !.batches = f] \in ReaderType
  BY <1>1, Zenon DEF ReaderType
<1>4. LET s == [r EXCEPT !.page = e, !.pinned = x, !.batches = f]
      IN  /\ s.queue = r.queue /\ s.at = r.at /\ s.committed = r.committed
          /\ s.dirty = r.dirty /\ s.phase = r.phase /\ s.pinned = x
          /\ s.done = r.done /\ s.cycleStart = r.cycleStart
  BY DEF ReaderType
<1> QED BY <1>2, <1>3, <1>4

Paged(r, x, b) ==
  [r EXCEPT !.phase = "streaming", !.committed = x, !.dirty = TRUE,
            !.page = 0, !.pinned = NoPosition, !.batches = @ + b]

LEMMA LastPageFields ==
  ASSUME NEW r \in ReaderType, NEW x \in Int, NEW b \in {0, 1}
  PROVE  /\ Paged(r, x, b) \in ReaderType /\ Paged(r, x, b).queue = r.queue
         /\ Paged(r, x, b).at = r.at /\ Paged(r, x, b).committed = x
         /\ Paged(r, x, b).phase = "streaming"
         /\ Paged(r, x, b).page = 0 /\ Paged(r, x, b).done = r.done
         /\ Paged(r, x, b).cycleStart = r.cycleStart
<1> DEFINE g == r.batches + b
           s == [r EXCEPT !.phase = "streaming", !.committed = x, !.dirty = TRUE,
                          !.page = 0, !.pinned = NoPosition, !.batches = g]
<1>1. g \in Nat
  BY ReaderFields
<1>2. Paged(r, x, b) = s
  BY DEF Paged
<1> HIDE DEF g
<1>3. s \in ReaderType
  <2>1. /\ "streaming" \in {"unresolved", "snapshot", "streaming"} /\ TRUE \in BOOLEAN
        /\ 0 \in Nat /\ NoPosition \in Int
    BY DEF NoPosition
  <2> QED BY <1>1, <2>1, Zenon DEF ReaderType
<1>4. /\ s.queue = r.queue /\ s.at = r.at /\ s.committed = x
      /\ s.phase = "streaming" /\ s.page = 0
      /\ s.done = r.done /\ s.cycleStart = r.cycleStart
  BY DEF ReaderType
<1> HIDE DEF s
<1> QED BY <1>2, <1>3, <1>4

LEMMA PinnedIs == ASSUME BinlogInv PROVE Pinned \in 0..Len(binlog) /\ Pinned \in Nat
<1>1. Len(binlog) \in Nat /\ reader.page \in Nat /\ PhaseInv(reader, binlog)
  BY InvParts, ReaderFields
<1>2. reader.page = 0 \/ reader.page > 0
  BY <1>1
<1>3. Pinned \in 0..Len(binlog)
  BY <1>1, <1>2 DEF PhaseInv, Pinned
<1> QED BY <1>1, <1>3

LEMMA PageKeeps == ASSUME BinlogInv, SnapshotPage PROVE BinlogInv'
<1>1. /\ reader.phase = "snapshot"
      /\ reader' = [reader EXCEPT !.page = @ + 1, !.pinned = Pinned, !.batches = @ + 1]
      /\ UNCHANGED <<binlog, stored, takeSnapshot, handedOver, binlogWritten, cycleRows, stores>>
  BY DEF SnapshotPage
<1>2. Pinned \in Int /\ Pinned \in 0..Len(binlog)
  BY PinnedIs
<1>3. /\ reader' \in ReaderType /\ reader'.queue = reader.queue /\ reader'.at = reader.at
      /\ reader'.committed = reader.committed
      /\ reader'.dirty = reader.dirty /\ reader'.phase = reader.phase /\ reader'.pinned = Pinned
      /\ reader'.done = reader.done /\ reader'.cycleStart = reader.cycleStart
  <2> DEFINE x == Pinned
  <2>1. reader' = [reader EXCEPT !.page = @ + 1, !.pinned = x, !.batches = @ + 1] /\ x \in Int
    BY <1>1, <1>2
  <2>2. reader \in ReaderType
    BY InvParts
  <2>3. reader'.pinned = x /\ reader' \in ReaderType /\ reader'.queue = reader.queue /\ reader'.at = reader.at
      /\ reader'.committed = reader.committed
      /\ reader'.dirty = reader.dirty /\ reader'.phase = reader.phase
      /\ reader'.done = reader.done /\ reader'.cycleStart = reader.cycleStart
    <3> HIDE DEF x
    <3> QED BY <2>1, <2>2, PagedFields
  <2> QED BY <2>3
<1>4. /\ reader.queue = <<>> /\ reader.at = -1 /\ reader.committed = -1 /\ ~reader.dirty
      /\ cycleRows = {}
  BY <1>1, Unresolved
<1>5. PhaseInv(reader', binlog)
  BY <1>1, <1>2, <1>3, <1>4, InvParts DEF PhaseInv
<1>6. ReaderInv(reader', binlog, handedOver, cycleRows, stores)
  BY <1>3, <1>4, <1>5, InvParts, EmptyReader
<1> QED BY <1>1, <1>3, <1>6, InvParts, ReaderAlone

LEMMA LastPageKeeps == ASSUME BinlogInv, LastPage PROVE BinlogInv'
<1>1. PICK b \in {0, 1} :
        reader' = [reader EXCEPT !.phase = "streaming", !.committed = Pinned, !.dirty = TRUE,
                                 !.page = 0, !.pinned = NoPosition, !.batches = @ + b]
  BY DEF LastPage
<1>2. /\ reader.phase = "snapshot" /\ handedOver' = [handedOver EXCEPT !.upTo = Pinned]
      /\ UNCHANGED <<binlog, stored, takeSnapshot, binlogWritten, cycleRows, stores>>
  BY DEF LastPage
<1>3. Pinned \in Int /\ Pinned \in 0..Len(binlog) /\ Pinned \in Nat /\ Len(binlog) \in Nat
  BY PinnedIs, InvParts
<1>4. /\ reader.queue = <<>> /\ reader.at = -1 /\ cycleRows = {}
  BY <1>2, Unresolved
<1>5. stored = -1 /\ stores = 0
  BY <1>2 DEF BinlogInv, StoredInv
<1> DEFINE x == Pinned
<1>6. x \in Int /\ x \in -1..Len(binlog) /\ x # -1 /\ x \in Nat
  BY <1>3
<1>7. reader' = [reader EXCEPT !.phase = "streaming", !.committed = x, !.dirty = TRUE,
                               !.page = 0, !.pinned = NoPosition, !.batches = @ + b]
      /\ handedOver' = [handedOver EXCEPT !.upTo = x]
  BY <1>1, <1>2
<1> HIDE DEF x
<1>8. /\ reader' \in ReaderType /\ reader'.queue = <<>> /\ reader'.at = -1
      /\ reader'.committed = x /\ reader'.phase = "streaming"
      /\ reader'.page = 0 /\ reader'.done = reader.done /\ reader'.cycleStart = reader.cycleStart
  <2>1. reader \in ReaderType
    BY InvParts
  <2>2. x \in Int
    BY <1>6
  <2>3. reader' = Paged(reader, x, b)
    BY <1>7 DEF Paged
  <2> QED BY <1>4, <2>1, <2>2, <2>3, LastPageFields
<1>9. handedOver' \in Given /\ Settled(binlog, handedOver', x)
  BY <1>6, <1>7, InvParts, StartsFrom
<1>10. News(binlog, x) \in Nat
  BY <1>6, NewsGrow
<1>11. stores <= 1 + News(binlog, x) /\ stores <= News(binlog, x)
  BY <1>5, <1>10
<1>12. PhaseInv(reader', binlog)
  <2>1. ~(0 > 0) /\ -1 \in -1..Len(binlog)
    BY <1>3
  <2> QED BY <1>6, <1>8, <2>1 DEF PhaseInv
<1>13. ReaderInv(reader', binlog, handedOver', cycleRows, stores)
  BY <1>4, <1>8, <1>9, <1>11, <1>12, InvParts, EmptyReader
<1>14. StoredInv'
  BY <1>2, <1>5, <1>8 DEF StoredInv
<1> QED BY <1>2, <1>9, <1>13, <1>14, InvParts DEF BinlogInv

(* open_stream *)
LEMMA OpenKeeps ==
  ASSUME BinlogInv, MayRead
  PROVE  /\ ReaderInv(OpenedStream, binlog, handedOver, cycleRows, stores)
         /\ OpenedStream.phase = "streaming" /\ ~OpenedStream.done /\ ~OpenedStream.cycleStart
         /\ OpenedStream.at # -1 /\ OpenedStream.at \in 0..Len(binlog)
<1>1. reader.phase = "streaming" /\ ~reader.done /\ ~reader.cycleStart
  BY DEF MayRead, InCycle
<1>2. /\ ReaderInv(OpenedStream, binlog, handedOver, cycleRows, stores)
      /\ OpenedStream.phase = "streaming" /\ ~OpenedStream.done /\ ~OpenedStream.cycleStart
      /\ OpenedStream.at # -1
  <2>1. CASE reader.at = -1
    BY <1>1, <2>1, InvParts, Opens DEF OpenedStream, NotOpen
  <2>2. CASE reader.at # -1
    BY <1>1, <2>2, InvParts DEF OpenedStream, NotOpen
  <2> QED BY <2>1, <2>2
<1>3. OpenedStream.at \in -1..Len(binlog)
  BY <1>2 DEF ReaderInv, PhaseInv
<1>4. OpenedStream.at \in 0..Len(binlog)
  BY <1>2, <1>3, InvParts
<1> QED BY <1>2, <1>4

LEMMA EndKeeps == ASSUME BinlogInv, StreamEnds PROVE BinlogInv'
<1>1. /\ MayRead /\ reader' = FinishStream(OpenedStream)
      /\ UNCHANGED <<binlog, stored, takeSnapshot, handedOver, binlogWritten, cycleRows, stores>>
  BY DEF StreamEnds
<1>2. /\ ReaderInv(reader', binlog, handedOver, cycleRows, stores)
      /\ reader'.phase = "streaming"
  BY <1>1, OpenKeeps, Finishes, InvParts
<1>3. reader'.phase = reader.phase
  BY <1>1, <1>2 DEF MayRead
<1> QED BY <1>1, <1>2, <1>3, InvParts, ReaderAlone

LEMMA ReadKeeps == ASSUME BinlogInv, ReadTransaction PROVE BinlogInv'
<1> DEFINE o  == OpenedStream
           tx == o.at + 1
           read == [o EXCEPT !.at = tx,
                             !.queue = @ \o [row \in 1..binlog[tx].rows |-> ChangeOf(tx, row)],
                             !.rowsRead = @ + binlog[tx].rows,
                             !.foreign = @ \/ binlog[tx].kind # "own"]
<1>1. /\ MayRead /\ o.at < Len(binlog)
      /\ reader' = IF BinlogChanges > 0 /\ read.rowsRead >= BinlogChanges
                   THEN FinishStream(read) ELSE read
      /\ UNCHANGED <<binlog, stored, takeSnapshot, handedOver, binlogWritten, cycleRows, stores>>
  BY DEF ReadTransaction
<1>2. /\ ReaderInv(o, binlog, handedOver, cycleRows, stores)
      /\ o.phase = "streaming" /\ ~o.done /\ ~o.cycleStart
      /\ o.at # -1 /\ o.at \in 0..Len(binlog)
  BY <1>1, OpenKeeps
<1>3. tx \in 1..Len(binlog)
  BY <1>1, <1>2, InvParts
<1>4. read = ReadOn(o, binlog, tx)
  <2>1. [row \in 1..binlog[tx].rows |-> ChangeOf(tx, row)] = ChangesOf(binlog, tx)
    BY DEF ChangeOf, ChangesOf, NoPosition
  <2> QED BY <2>1 DEF ReadOn
<1>5. /\ ReaderInv(read, binlog, handedOver, cycleRows, stores)
      /\ read.phase = "streaming" /\ ~read.cycleStart /\ read.at # -1
  <2>1. tx = o.at + 1
    OBVIOUS
  <2> HIDE DEF o, tx, read
  <2> QED BY <1>2, <1>3, <1>4, <2>1, InvParts, Reads
<1> HIDE DEF read, o, tx
<1>6. /\ ReaderInv(FinishStream(read), binlog, handedOver, cycleRows, stores)
      /\ FinishStream(read).phase = "streaming"
  BY <1>5, InvParts, Finishes
<1>7. /\ ReaderInv(reader', binlog, handedOver, cycleRows, stores)
      /\ reader'.phase = reader.phase
  BY <1>1, <1>5, <1>6 DEF MayRead
<1> QED BY <1>1, <1>7, InvParts, ReaderAlone

(* take_count takes something. *)
LEMMA CountTaken ==
  ASSUME BinlogInv, reader.queue # <<>>, NEW toTxEnd \in BOOLEAN
  PROVE  TakeCount(reader.queue, toTxEnd) \in 1..Len(reader.queue)
<1> DEFINE most == Lesser(reader.batchRows, Len(reader.queue))
           ends == {k \in 1..most : TxEnd(reader.queue[k])}
<1>1. /\ reader.queue \in Seq(Change) /\ Len(reader.queue) \in Nat /\ reader.batchRows \in Nat \ {0}
  BY InvParts, ReaderFields
<1>2. Len(reader.queue) # 0
  BY <1>1
<1>3. most \in 1..Len(reader.queue)
  BY <1>1, <1>2 DEF Lesser
<1>4. ends \subseteq 1..most /\ most \in Int
  BY <1>3
<1>5. TakeCount(reader.queue, toTxEnd)
        = IF toTxEnd /\ ends # {} THEN CHOOSE k \in ends : \A other \in ends : k <= other ELSE most
  BY DEF TakeCount
<1> HIDE DEF most, ends
<1>6. IsFiniteSet(ends) /\ ends \in SUBSET Int
  <2>1. IsFiniteSet(1..most) /\ \A x \in 1..most : x \in Int
    BY <1>4, FS_Interval
  <2> QED BY <1>4, <2>1, FS_Subset
<1>7. ends # {} => \E k \in ends : \A other \in ends : k <= other
  BY <1>6, MinOfFinite
<1>8. ends # {} => (CHOOSE k \in ends : \A other \in ends : k <= other) \in ends
  BY <1>7
<1>9. TakeCount(reader.queue, toTxEnd) \in 1..most
  <2>1. most \in 1..most
    BY <1>3
  <2> QED BY <1>4, <1>5, <1>8, <2>1
<1> QED BY <1>1, <1>3, <1>9

LEMMA TakeKeeps ==
  ASSUME BinlogInv, NEW toTxEnd \in BOOLEAN, reader.queue # <<>>, ~reader.cycleStart,
         TakeQueued(toTxEnd)
  PROVE  BinlogInv'
<1> DEFINE q == reader.queue
           count == TakeCount(q, toTxEnd)
           taken == SubSeq(q, 1, count)
           acks  == {taken[k].ack : k \in 1..count} \ {NoPosition}
           rows  == {<<taken[k].tx, taken[k].row>> : k \in 1..count}
           p == SubSeq(q, count + 1, Len(q))
           c == IF acks = {} THEN reader.committed
                ELSE CHOOSE a \in acks : \A other \in acks : a >= other
           d == reader.dirty \/ acks # {}
           m == ~TxEnd(taken[count])
<1>1. /\ reader' = Taken(reader, p, c, d, m)
      /\ handedOver' = Handed(handedOver, rows) /\ cycleRows' = cycleRows \cup rows
      /\ UNCHANGED <<binlog, stored, takeSnapshot, binlogWritten, stores>>
  BY DEF TakeQueued, Taken, Handed
<1>2. /\ q \in Seq(Change) /\ Len(q) \in Nat /\ reader.committed \in Int /\ reader.dirty \in BOOLEAN
      /\ Len(binlog) \in Nat
  BY InvParts, ReaderFields
<1>3. count \in 1..Len(q)
  BY CountTaken
<1>4. reader.phase = "streaming"
  BY InvParts DEF PhaseInv
<1>5. \A k \in 1..Len(q) : q[k].ack \in -1..Len(binlog)
  BY InvParts DEF ReaderInv, ChangeInv, QueuedInv
<1> HIDE DEF count, q
<1>6. \A k \in 1..count : taken[k] = q[k] /\ k \in 1..Len(q)
  BY <1>2, <1>3
<1>7. count \in 1..count
  BY <1>2, <1>3
<1>8. rows = RowsUpTo(q, count) /\ m = (~Ends(binlog, q[count]))
      /\ acks = {q[k].ack : k \in 1..count} \ {-1}
  BY <1>6, <1>7 DEF RowsUpTo, TxEnd, Ends, NoPosition
<1> HIDE DEF rows, m, acks, taken
<1>9. acks \subseteq -1..Len(binlog) /\ IsFiniteSet(acks) /\ acks \in SUBSET Int
  <2>1. acks \subseteq -1..Len(binlog)
    BY <1>5, <1>6, <1>8
  <2>2. IsFiniteSet(-1..Len(binlog)) /\ \A x \in -1..Len(binlog) : x \in Int
    <3>1. -1 \in Int /\ Len(binlog) \in Int
      BY <1>2
    <3>2. IsFiniteSet(-1..Len(binlog))
      BY <3>1, FS_Interval
    <3> QED BY <3>1, <3>2
  <2> QED BY <2>1, <2>2, FS_Subset
<1>10. MovesTo(q, count, reader.committed, reader.dirty, c, d) /\ c \in Int /\ d \in BOOLEAN
  <2>1. CASE acks = {}
    <3>1. \A k \in 1..count : q[k].ack = -1
      BY <1>8, <2>1
    <3>2. c = reader.committed /\ d = reader.dirty
      BY <1>2, <2>1
    <3> QED BY <1>2, <3>1, <3>2 DEF MovesTo
  <2>2. CASE acks # {}
    <3>1. \E a \in acks : \A other \in acks : a >= other
      BY <1>9, <2>2, GreatestExists
    <3>2. c \in acks /\ \A other \in acks : c >= other
      BY <2>2, <3>1
    <3>3. d = TRUE
      BY <2>2
    <3> HIDE DEF c, d
    <3>4. c # -1 /\ (\E k \in 1..count : q[k].ack = c) /\ c \in Int /\ c \in -1..Len(binlog)
      BY <1>8, <1>9, <3>2
    <3>5. ASSUME NEW k \in 1..count PROVE q[k].ack <= c
      <4>1. q[k].ack \in -1..Len(binlog)
        BY <1>5, <1>6
      <4>2. CASE q[k].ack = -1
        BY <1>2, <3>4, <4>2
      <4>3. CASE q[k].ack # -1
        <5>1. q[k].ack \in acks
          BY <1>8, <4>3
        <5> QED BY <1>2, <3>2, <3>4, <4>1, <5>1
      <4> QED BY <4>2, <4>3
    <3> QED BY <3>3, <3>4, <3>5 DEF MovesTo
  <2> QED BY <2>1, <2>2
<1>11. m \in BOOLEAN /\ (m <=> ~Ends(binlog, q[count]))
  BY <1>8 DEF Ends
<1> HIDE DEF c, d
<1>12. /\ ReaderInv(Taken(reader, p, c, d, m), binlog, Handed(handedOver, RowsUpTo(q, count)),
                    cycleRows \cup RowsUpTo(q, count), stores)
       /\ Taken(reader, p, c, d, m).phase = "streaming"
       /\ RowsUpTo(q, count) \in SUBSET (Nat \X Nat)
  <2>1. LogOK(binlog) BY InvParts
  <2>2. handedOver \in Given BY InvParts
  <2>3. cycleRows \in SUBSET (Nat \X Nat) BY InvParts
  <2>4. stores \in Nat BY InvParts
  <2>5. ReaderInv(reader, binlog, handedOver, cycleRows, stores) BY InvParts
  <2>6. count \in 1..Len(reader.queue) BY <1>3 DEF q
  <2>7. MovesTo(reader.queue, count, reader.committed, reader.dirty, c, d) BY <1>10 DEF q
  <2>8. p = SubSeq(reader.queue, count + 1, Len(reader.queue)) BY DEF q
  <2>9. m <=> ~Ends(binlog, reader.queue[count]) BY <1>11 DEF q
  <2>10. c \in Int BY <1>10
  <2>11. d \in BOOLEAN BY <1>10
  <2>12. m \in BOOLEAN BY <1>11
  <2> HIDE DEF p
  <2>13. ReaderInv(Taken(reader, p, c, d, m), binlog,
                   Handed(handedOver, RowsUpTo(reader.queue, count)),
                   cycleRows \cup RowsUpTo(reader.queue, count), stores)
    BY <1>4, <2>1, <2>2, <2>3, <2>4, <2>5, <2>6, <2>7, <2>8, <2>9, <2>10, <2>11, <2>12,
       Takes, ZenonT(60)
  <2>14. Taken(reader, p, c, d, m).phase = "streaming"
    <3>1. p \in Seq(Change)
      <4>1. SubSeq(q, count + 1, Len(q)) \in Seq(Change)
        BY <1>2, <1>3, RestOf
      <4> QED BY <4>1 DEF p
    <3>2. reader \in ReaderType
      BY InvParts
    <3>3. HasTaken(Taken(reader, p, c, d, m), reader, p, c, d, m)
      BY <2>10, <2>11, <2>12, <3>1, <3>2, TakenFields, ZenonT(60)
    <3> QED BY <1>4, <3>3 DEF HasTaken
  <2>15. RowsUpTo(reader.queue, count) \in SUBSET (Nat \X Nat)
    <3>1. \A k \in 1..count : q[k].tx \in Nat /\ q[k].row \in Nat
      BY <1>6, InvParts, ReaderFields DEF q
    <3>2. \A k \in 1..count : <<q[k].tx, q[k].row>> \in Nat \X Nat
      BY <3>1
    <3>3. RowsUpTo(q, count) \in SUBSET (Nat \X Nat)
      BY <3>2 DEF RowsUpTo
    <3> QED BY <3>3 DEF q
  <2> QED BY <2>13, <2>14, <2>15 DEF q
<1>13. /\ ReaderInv(reader', binlog, handedOver', cycleRows', stores)
       /\ reader'.phase = "streaming" /\ rows \in SUBSET (Nat \X Nat)
  BY <1>1, <1>8, <1>12
<1>14. /\ handedOver' \in Given
       /\ \A log, t : Settled(log, handedOver, t) => Settled(log, handedOver', t)
  BY <1>1, <1>13, InvParts, HandedFields
<1>15. StoredInv'
  BY <1>1, <1>4, <1>13, <1>14 DEF BinlogInv, StoredInv
<1>16. cycleRows' \in SUBSET (Nat \X Nat)
  BY <1>1, <1>13, InvParts
<1> QED BY <1>1, <1>13, <1>14, <1>15, <1>16, InvParts DEF BinlogInv

LEMMA OverFields ==
  ASSUME NEW r \in ReaderType
  PROVE  LET s == [r EXCEPT !.cycleStart = TRUE]
         IN  /\ s \in ReaderType /\ s.queue = r.queue /\ s.at = r.at /\ s.committed = r.committed
             /\ s.dirty = r.dirty /\ s.phase = r.phase /\ s.page = r.page /\ s.pinned = r.pinned
<1>1. TRUE \in BOOLEAN
  OBVIOUS
<1>2. [r EXCEPT !.cycleStart = TRUE] \in ReaderType
  BY <1>1, Zenon DEF ReaderType
<1> QED BY <1>2 DEF ReaderType

LEMMA CycleEndKeeps == ASSUME BinlogInv, EndBinlogCycle PROVE BinlogInv'
<1>1. UNCHANGED <<binlog, stored, takeSnapshot, handedOver, binlogWritten, cycleRows, stores>>
  BY DEF EndBinlogCycle
<1>2. /\ Rewound(reader', reader)
      /\ reader.queue = <<>> \/ ~reader.midTx
  <2>1. CASE /\ ~reader.midTx \/ reader.queue = <<>>
             /\ reader' = [Abandoned(reader) EXCEPT !.cycleStart = TRUE]
    BY <2>1, InvParts, AbandonedFields
  <2>2. CASE /\ reader.queue = <<>> /\ reader.done
             /\ reader' = [reader EXCEPT !.cycleStart = TRUE]
    <3>1. reader.at = -1
      BY <2>2, InvParts DEF PhaseInv
    <3> QED BY <2>2, <3>1, InvParts, OverFields DEF Rewound
  <2> QED BY <2>1, <2>2 DEF EndBinlogCycle
<1>3. \A row \in cycleRows : row[1] <= reader.committed
  BY <1>2, InvParts, RowsBehind
<1>4. ReaderInv(reader', binlog, handedOver, cycleRows, stores)
  BY <1>2, <1>3, InvParts, Rewinds
<1>5. reader'.phase = reader.phase
  BY <1>2 DEF Rewound
<1> QED BY <1>1, <1>4, <1>5, InvParts, ReaderAlone

LEMMA FailKeeps == ASSUME BinlogInv, BinlogCallFails PROVE BinlogInv'
<1>1. UNCHANGED <<binlog, stored, takeSnapshot, handedOver, binlogWritten, stores>> /\ cycleRows' = {}
  BY DEF BinlogCallFails
<1>2. Rewound(reader', reader)
  BY InvParts, AbandonedFields DEF BinlogCallFails
<1>3. ReaderInv(reader', binlog, handedOver, {}, stores)
  BY <1>2, InvParts, Rewinds
<1>4. reader'.phase = reader.phase
  BY <1>2 DEF Rewound
<1> QED BY <1>1, <1>3, <1>4, ReaderAlone

(* A new reader. *)
LEMMA FreshIs ==
  ASSUME NEW b \in BinlogBatchRows, NEW log, LogOK(log), NEW given, NEW n \in Nat
  PROVE  ReaderInv(FreshReader(b), log, given, {}, n) /\ FreshReader(b).phase = "unresolved"
<1> DEFINE s == FreshReader(b)
<1>1. b \in Nat \ {0} /\ <<>> \in Seq(Change)
  BY BinlogAssumption
<1>2. /\ s.queue = <<>> /\ s.at = -1 /\ s.committed = -1 /\ s.dirty = FALSE /\ s.phase = "unresolved"
      /\ s.page = 0 /\ s.done = FALSE /\ s.cycleStart = FALSE
  BY DEF FreshReader, NoPosition, NotOpen
<1>3. s \in ReaderType
  BY <1>1 DEF FreshReader, ReaderType, NoPosition, NotOpen
<1> HIDE DEF s
<1>4. Len(log) \in Nat
  BY LogFields
<1>5. PhaseInv(s, log)
  <2>1. -1 \in -1..Len(log) /\ ~(0 > 0)
    BY <1>4
  <2> QED BY <1>2, <2>1 DEF PhaseInv
<1>6. ReaderInv(s, log, given, {}, n)
  BY <1>2, <1>3, <1>5, EmptyReader
<1> QED BY <1>2, <1>6 DEF s

LEMMA RestartKeeps == ASSUME BinlogInv, BinlogRestart PROVE BinlogInv'
<1>1. PICK b \in BinlogBatchRows : reader' = FreshReader(b)
  BY DEF BinlogRestart
<1>2. /\ handedOver' = binlogWritten /\ cycleRows' = {}
      /\ UNCHANGED <<binlog, stored, takeSnapshot, binlogWritten, stores>>
  BY DEF BinlogRestart
<1>3. ReaderInv(reader', binlog, handedOver', {}, stores) /\ reader'.phase = "unresolved"
  BY <1>1, InvParts, FreshIs
<1>4. StoredInv'
  BY <1>2, <1>3 DEF BinlogInv, StoredInv
<1> QED BY <1>2, <1>3, <1>4, InvParts DEF BinlogInv

LEMMA BinlogKept == BinlogInv /\ [BinlogNext]_binlogVars => BinlogInv'
<1> SUFFICES ASSUME BinlogInv, [BinlogNext]_binlogVars PROVE BinlogInv'
  OBVIOUS
<1>1. CASE CommitTransaction \/ LoadStored \/ LoadSnapshot
           \/ \E p \in {0, Len(binlog)} : LoadInitial(p)
  BY <1>1, CommitKeeps, LoadStoredKeeps, LoadSnapshotKeeps, LoadInitialKeeps
<1>2. CASE StartBinlogCycle \/ StoreUnanswered \/ \E b \in BinlogBatchRows : RequestBatchRows(b)
  BY <1>2, StartKeeps, UnansweredKeeps, HintKeeps
<1>3. CASE SnapshotPage \/ LastPage \/ ReadTransaction \/ StreamEnds
  BY <1>3, PageKeeps, LastPageKeeps, ReadKeeps, EndKeeps
<1>4. CASE HandOverBatch
  <2>1. ~reader.cycleStart /\ TakeQueued(FALSE)
    BY <1>4 DEF HandOverBatch, InCycle
  <2>2. reader.queue # <<>>
    <3>1. reader.batchRows \in Nat \ {0} /\ reader.queue \in Seq(Change)
      BY InvParts, ReaderFields
    <3>2. Len(reader.queue) >= reader.batchRows \/ reader.queue # <<>>
      BY <1>4 DEF HandOverBatch
    <3>3. reader.queue = <<>> => Len(reader.queue) = 0
      OBVIOUS
    <3> QED BY <3>1, <3>2, <3>3
  <2> QED BY <2>1, <2>2, TakeKeeps
<1>5. CASE HandOverRest
  BY <1>5, TakeKeeps DEF HandOverRest, InCycle
<1>6. CASE EndBinlogCycle \/ BinlogCallFails \/ BinlogRestart
  BY <1>6, CycleEndKeeps, FailKeeps, RestartKeeps
<1>7. CASE UNCHANGED binlogVars
  <2>1. StoredInv'
    BY <1>7 DEF binlogVars, BinlogInv, StoredInv
  <2> QED BY <1>7, <2>1 DEF binlogVars, BinlogInv
<1> QED BY <1>1, <1>2, <1>3, <1>4, <1>5, <1>6, <1>7 DEF BinlogNext

LEMMA BinlogStarts == BinlogInit => BinlogInv
<1> SUFFICES ASSUME BinlogInit PROVE BinlogInv
  OBVIOUS
<1>1. /\ binlog = <<>> /\ stored = -1 /\ handedOver = NothingYet /\ binlogWritten = NothingYet
      /\ cycleRows = {} /\ stores = 0
  BY DEF BinlogInit, NoPosition
<1>2. PICK b \in BinlogBatchRows : reader = FreshReader(b)
  BY DEF BinlogInit
<1>3. LogOK(binlog) /\ Len(binlog) = 0
  BY <1>1 DEF LogOK
<1>4. ReaderInv(reader, binlog, handedOver, {}, 0) /\ reader.phase = "unresolved"
  BY <1>2, <1>3, FreshIs
<1>5. NothingYet \in Given
  BY DEF NothingYet, Given
<1>6. StoredInv
  BY <1>1, <1>4 DEF StoredInv
<1>7. stored \in -1..Len(binlog)
  BY <1>1, <1>3
<1> QED BY <1>1, <1>3, <1>4, <1>5, <1>6, <1>7 DEF BinlogInv

(* Whatever fails, is dropped, dies or is retried, and however the host    *)
(* hints and the caps cut: the position the offset table holds covers only *)
(* rows the host has written, so a restart from it loses none.             *)
THEOREM StoredPositionIsSafe == BinlogSpec => []StoredIsWritten
<1>1. BinlogInv => StoredIsWritten
  BY DEF BinlogInv, StoredInv, Settled, StoredIsWritten, NoPosition
<1> QED BY <1>1, BinlogStarts, BinlogKept, PTL DEF BinlogSpec

(* A cycle that nothing interrupted ends with all it handed over behind    *)
(* its position, however small max_batches_per_cycle is and however large  *)
(* a transaction.                                                          *)
THEOREM EveryCycleMovesOn == BinlogSpec => []CyclesMoveOn
<1>1. BinlogInv => CyclesMoveOn
  <2> SUFFICES ASSUME BinlogInv, reader.cycleStart
               PROVE  \A change \in cycleRows : change[1] <= reader.committed
    BY DEF CyclesMoveOn
  <2>1. reader.queue = <<>>
    BY InvParts DEF PhaseInv
  <2> QED BY <2>1, InvParts, RowsBehind
<1> QED BY <1>1, BinlogStarts, BinlogKept, PTL DEF BinlogSpec

(* The reader's own offset writes never make it store again: an idle       *)
(* server stays idle.                                                      *)
THEOREM OwnWritesAreNoNews == BinlogSpec => []IdleIsQuiet
<1>1. BinlogInv => IdleIsQuiet
  <2> SUFFICES ASSUME BinlogInv PROVE IdleIsQuiet
    OBVIOUS
  <2>1. DOMAIN binlog = 1..Len(binlog) /\ Len(binlog) \in Nat
    BY InvParts DEF LogOK
  <2>2. Cardinality({k \in DOMAIN binlog : binlog[k].kind # "own"}) = News(binlog, Len(binlog))
    BY <2>1 DEF News
  <2>3. stored \in Int /\ stored <= Len(binlog) /\ stores \in Nat
    BY <2>1, InvParts
  <2>4. /\ News(binlog, stored) \in Nat /\ News(binlog, Len(binlog)) \in Nat
        /\ News(binlog, stored) <= News(binlog, Len(binlog))
    BY <2>1, <2>3, NewsGrow
  <2>5. stores <= 1 + News(binlog, stored) \/ stores = 0
    BY DEF BinlogInv, StoredInv
  <2>6. stores <= 1 + News(binlog, Len(binlog))
    BY <2>3, <2>4, <2>5
  <2> QED BY <2>2, <2>6 DEF IdleIsQuiet
<1> QED BY <1>1, BinlogStarts, BinlogKept, PTL DEF BinlogSpec

----------------------------------------------------------------------------
(***************************************************************************)
(* The PostgreSQL slot.  The slot moves to pending, so pending must cover  *)
(* only rows that were handed over; pending comes from the queue, so each  *)
(* batch that waits must acknowledge only what was handed over before or   *)
(* is in it and the batches in front of it.                                *)
(***************************************************************************)
WalTypeOK ==
  /\ wal \in Seq(Nat)
  /\ \A i, j \in 1..Len(wal) : i <= j => wal[i] <= wal[j]
  /\ confirmed \in 0..Len(wal)

Queues == Seq([rows : Seq(Nat), ack : Int])

LogicalTypeOK ==
  logical \in [queue : Queues, pending : Int,
               peeked : BOOLEAN, cycleStart : BOOLEAN, batches : Nat]

(* What is handed over up to lsn is in rows. *)
AckCovered(lsn, rows) ==
  lsn # NoLsn => lsn \in 0..Len(wal) /\ 1..CommittedRows(lsn) \subseteq rows

(* The rows of the first k batches of a queue. *)
RowsOfFirst(waiting, k) == UNION {ToSet(waiting[i].rows) : i \in 1..k}

QueueIsCovered(waiting, rows) ==
  \A k \in 1..Len(waiting) : AckCovered(waiting[k].ack, rows \cup RowsOfFirst(waiting, k))

SlotInv ==
  /\ WalTypeOK
  /\ LogicalTypeOK
  /\ SlotIsWritten
  /\ slotWritten \subseteq slotRows
  /\ AckCovered(logical.pending, slotRows)
  /\ QueueIsCovered(logical.queue, slotRows)

(* The rows committed up to a transaction are counted, and grow with it.   *)
LEMMA UpToRises ==
  ASSUME WalTypeOK
  PROVE  /\ \A tx \in 0..Len(wal) : CommittedRows(tx) \in Nat
         /\ \A i, j \in 0..Len(wal) : i <= j => CommittedRows(i) <= CommittedRows(j)
<1>1. \A tx \in 1..Len(wal) : wal[tx] \in Nat
  BY DEF WalTypeOK
<1>2. \A tx \in 0..Len(wal) : tx # 0 => tx \in 1..Len(wal)
  BY DEF WalTypeOK
<1> QED BY <1>1, <1>2 DEF WalTypeOK, CommittedRows

(* The acknowledgement of a batch names a transaction of the pass, and no  *)
(* rows beyond the batch's end.                                            *)
LEMMA AckIs ==
  ASSUME WalTypeOK, NEW from \in 0..Len(wal), NEW to \in 0..Len(wal), NEW end \in Nat
  PROVE  /\ AckOf(from, to, end) \in Int
         /\ AckOf(from, to, end) # NoLsn =>
              /\ AckOf(from, to, end) \in (from + 1)..to
              /\ CommittedRows(AckOf(from, to, end)) - CommittedRows(from) <= end
<1> DEFINE points == {tx \in (from + 1)..to : Len(RowsOf(from, tx)) <= end}
<1>0. from \in Int /\ to \in Int /\ Len(wal) \in Nat
  BY DEF WalTypeOK
<1>1. points \in SUBSET Int /\ IsFiniteSet(points)
  <2>1. IsFiniteSet((from + 1)..to)
    BY <1>0, FS_Interval
  <2> QED BY <1>0, <2>1, FS_Subset
<1>2. AckOf(from, to, end) = IF points = {} THEN NoLsn ELSE Max(points)
  BY DEF AckOf
<1>3. ASSUME NEW tx \in points
      PROVE  CommittedRows(tx) - CommittedRows(from) <= end
  <2>1. tx \in 0..Len(wal) /\ from <= tx
    BY <1>0
  <2>2. CommittedRows(tx) \in Nat /\ CommittedRows(from) \in Nat /\ CommittedRows(from) <= CommittedRows(tx)
    BY <2>1, UpToRises
  <2>3. Len(RowsOf(from, tx)) = CommittedRows(tx) - CommittedRows(from)
    BY <2>2 DEF RowsOf
  <2> QED BY <2>3
<1> HIDE DEF points
<1>4. CASE points = {}
  BY <1>2, <1>4 DEF NoLsn
<1>5. CASE points # {}
  <2>1. Max(points) \in points
    BY <1>1, <1>5, MaxOfFinite
  <2>2. Max(points) \in (from + 1)..to
    BY <2>1 DEF points
  <2> QED BY <1>0, <1>2, <1>3, <1>5, <2>1, <2>2
<1> QED BY <1>4, <1>5

(* A row among the first end of a queue decoded in batches of a size is in *)
(* one of the batches up to there.                                         *)
LEMMA ChunkOf ==
  ASSUME NEW size \in Nat \ {0}, NEW m \in Nat \ {0}, NEW k \in Nat, m <= k * size
  PROVE  \E j \in 1..k : (j - 1) * size + 1 <= m /\ m <= j * size
<1> DEFINE q == (m - 1) \div size
<1>1. m - 1 \in Nat
  OBVIOUS
<1>2. q \in Nat /\ size * q <= m - 1 /\ m - 1 < size * (q + 1)
  <2>1. q \in Nat
    BY <1>1, Quotient
  <2>2. q + 1 \in Nat /\ ~(q + 1 <= q)
    BY <2>1
  <2> QED BY <1>1, <2>1, <2>2, Quotient, size * (q + 1) \in Nat
<1>3. q < k
  BY <1>1, Quotient, m - 1 < size * k
<1> HIDE DEF q
<1>4. q + 1 \in 1..k
  BY <1>2, <1>3
<1>5. q * size + 1 <= m /\ m <= (q + 1) * size
  BY <1>2
<1> DEFINE j == q + 1
<1>6. j \in 1..k /\ j - 1 = q
  BY <1>2, <1>4
<1>7. m <= j * size
  BY <1>5
<1> HIDE DEF j
<1>8. (j - 1) * size + 1 <= m
  BY <1>5, <1>6
<1> QED BY <1>6, <1>7, <1>8

(* The batches a pass decodes from the slot are acknowledged no further    *)
(* than the rows before them and their own.                                *)
LEMMA DecodedCovers ==
  ASSUME WalTypeOK, NEW rows, 1..CommittedRows(confirmed) \subseteq rows,
         NEW to \in (confirmed + 1)..Len(wal)
  PROVE  /\ Decoded(confirmed, to) \in Queues
         /\ QueueIsCovered(Decoded(confirmed, to), rows)
<1> DEFINE all    == RowsOf(confirmed, to)
           size   == LogicalBatchRows
           total  == CommittedRows(to) - CommittedRows(confirmed)
           chunks == (Len(all) + size - 1) \div size
           end(k) == IF k = chunks THEN Len(all) ELSE k * size
           waiting  == Decoded(confirmed, to)
<1>1. confirmed \in 0..Len(wal) /\ to \in 0..Len(wal) /\ confirmed <= to
      /\ Len(wal) \in Nat /\ confirmed \in Nat /\ to \in Nat
  BY DEF WalTypeOK
<1>2. CommittedRows(confirmed) \in Nat /\ CommittedRows(to) \in Nat /\ total \in Nat
  BY <1>1, UpToRises
<1>3. Len(all) = total /\ all \in Seq(Nat) /\ DOMAIN all = 1..total
      /\ \A m \in 1..total : all[m] = CommittedRows(confirmed) + m
  BY <1>2 DEF RowsOf
<1>4. size \in Nat \ {0}
  BY LogicalAssumption
<1> HIDE DEF all, size, total
<1>5. chunks \in Nat /\ total <= chunks * size
      /\ \A k \in Nat : k < chunks => k * size <= total
  <2>1. total + size - 1 \in Nat
    BY <1>2, <1>4
  <2>2. chunks \in Nat
    BY <1>3, <1>4, <2>1, Quotient
  <2>3. total + size - 1 < size * (chunks + 1)
    <3>1. chunks + 1 \in Nat /\ ~(chunks + 1 <= chunks) /\ size * (chunks + 1) \in Nat
      BY <2>2, <1>4
    <3> QED BY <1>3, <1>4, <2>1, <3>1, Quotient, SMTT(40)
  <2>4. total <= chunks * size
    BY <1>2, <1>4, <2>2, <2>3
  <2>5. ASSUME NEW k \in Nat, k < chunks
        PROVE  k * size <= total
    <3>1. k + 1 \in Nat /\ k + 1 <= chunks
      BY <2>2, <2>5
    <3>2. size * (k + 1) <= total + size - 1
      BY <1>3, <1>4, <2>1, <3>1, Quotient
    <3> QED BY <1>2, <1>4, <3>2
  <2> QED BY <2>2, <2>4, <2>5
<1> HIDE DEF chunks
<1>6. \A k \in 1..chunks : end(k) \in 0..total /\ end(k) <= k * size
                           /\ (k < chunks => end(k) = k * size)
  BY <1>2, <1>3, <1>4, <1>5
<1>7. waiting = [k \in 1..chunks |->
                 [rows |-> SubSeq(all, (k - 1) * size + 1, end(k)),
                  ack  |-> AckOf(confirmed, to, end(k))]]
  BY DEF Decoded, all, size, chunks
<1>8. ASSUME NEW k \in 1..chunks
      PROVE  /\ (k - 1) * size + 1 \in Nat \ {0} /\ k * size \in Nat
             /\ SubSeq(all, (k - 1) * size + 1, end(k)) \in Seq(Nat)
             /\ \A m \in ((k - 1) * size + 1)..end(k) :
                  CommittedRows(confirmed) + m \in ToSet(SubSeq(all, (k - 1) * size + 1, end(k)))
             /\ AckOf(confirmed, to, end(k)) \in Int
  <2>0. k - 1 \in Nat /\ k \in Nat
    BY <1>5
  <2>1. (k - 1) * size \in Nat /\ k * size \in Nat
    BY <1>4, <2>0
  <2> DEFINE s == (k - 1) * size
             e == end(k)
             part == SubSeq(all, s + 1, e)
  <2>2. s \in Nat /\ e \in 0..total /\ e \in Int
    BY <1>2, <1>6, <2>1
  <2> HIDE DEF s, e
  <2>3. part \in Seq(Nat) /\ \A i \in 1..Len(part) : part[i] = all[s + i]
        /\ Len(part) = (IF s + 1 <= e THEN e - s ELSE 0)
    BY <1>2, <1>3, <2>2
  <2>4. ASSUME NEW m \in (s + 1)..e
        PROVE  CommittedRows(confirmed) + m \in ToSet(part)
    <3>1. m - s \in 1..Len(part) /\ s + (m - s) = m /\ m \in 1..total
      BY <1>2, <2>2, <2>3
    <3>2. part[m - s] = CommittedRows(confirmed) + m
      BY <1>3, <2>3, <3>1
    <3>3. DOMAIN part = 1..Len(part)
      BY <2>3
    <3> HIDE DEF part
    <3> QED BY <3>1, <3>2, <3>3 DEF ToSet
  <2>5. AckOf(confirmed, to, e) \in Int
    BY <1>1, <1>2, <2>2, AckIs
  <2> QED BY <2>1, <2>2, <2>3, <2>4, <2>5 DEF s, e
<1>9. waiting \in Seq([rows : Seq(Nat), ack : Int]) /\ Len(waiting) = chunks
  BY <1>5, <1>7, <1>8, SMTT(40)
<1>10. ASSUME NEW k \in 1..Len(waiting), waiting[k].ack # NoLsn
       PROVE  /\ waiting[k].ack \in 0..Len(wal)
              /\ 1..CommittedRows(waiting[k].ack) \subseteq rows \cup RowsOfFirst(waiting, k)
  <2> DEFINE ack == waiting[k].ack
  <2>1. k \in 1..chunks /\ k \in Nat
    BY <1>5, <1>9
  <2>2. ack = AckOf(confirmed, to, end(k))
    BY <1>7, <2>1
  <2>3. end(k) \in Nat
    BY <1>2, <1>6, <2>1
  <2>4. ack \in (confirmed + 1)..to /\ CommittedRows(ack) - CommittedRows(confirmed) <= end(k)
    <3> DEFINE e == end(k)
    <3>1. e \in Nat /\ ack = AckOf(confirmed, to, e) /\ ack # NoLsn
      BY <1>10, <2>2, <2>3
    <3> HIDE DEF e, ack
    <3>2. ack \in (confirmed + 1)..to /\ CommittedRows(ack) - CommittedRows(confirmed) <= e
      BY <1>1, <3>1, AckIs
    <3> QED BY <3>2 DEF e
  <2> HIDE DEF ack
  <2>5. ack \in 0..Len(wal)
    BY <1>1, <2>4
  <2>6. CommittedRows(ack) \in Nat
    BY <2>5, UpToRises
  <2>7. ASSUME NEW row \in 1..CommittedRows(ack)
        PROVE  row \in rows \cup RowsOfFirst(waiting, k)
    <3>1. CASE row <= CommittedRows(confirmed)
      BY <1>2, <2>6, <3>1
    <3>2. CASE row > CommittedRows(confirmed)
      <4> DEFINE m == row - CommittedRows(confirmed)
      <4>1. m \in Nat \ {0} /\ m <= end(k) /\ row = CommittedRows(confirmed) + m
        BY <1>2, <2>3, <2>4, <2>6, <3>2
      <4> HIDE DEF m
      <4>2. m <= k * size
        BY <1>4, <1>6, <1>8, <2>1, <2>3, <4>1
      <4>3. PICK j \in 1..k : (j - 1) * size + 1 <= m /\ m <= j * size
        BY <1>4, <2>1, <4>1, <4>2, ChunkOf
      <4>4. j \in 1..chunks
        BY <1>5, <2>1
      <4>5. m <= end(j)
        <5>1. CASE j = k
          BY <4>1, <5>1
        <5>2. CASE j # k
          BY <1>5, <1>6, <2>1, <4>3, <4>4, <5>2
        <5> QED BY <5>1, <5>2
      <4>6. m \in ((j - 1) * size + 1)..end(j)
        BY <1>2, <1>6, <1>8, <4>1, <4>3, <4>4, <4>5
      <4>7. waiting[j].rows = SubSeq(all, (j - 1) * size + 1, end(j))
        BY <1>7, <4>4
      <4>8. row \in ToSet(waiting[j].rows)
        BY <1>8, <4>1, <4>4, <4>6, <4>7
      <4> QED BY <4>8 DEF RowsOfFirst
    <3> QED BY <1>2, <2>6, <3>1, <3>2
  <2> QED BY <2>5, <2>7 DEF ack
<1> QED BY <1>9, <1>10 DEF QueueIsCovered, AckCovered, Queues

(* A set with more rows covers no less. *)
LEMMA CoveredGrows ==
  ASSUME NEW lsn, NEW rows, NEW more, rows \subseteq more, AckCovered(lsn, rows)
  PROVE  AckCovered(lsn, more)
BY DEF AckCovered

(* A commit leaves the rows of the transactions before it alone.           *)
LEMMA CommitKeepsRows ==
  ASSUME WalTypeOK, NEW n \in SlotTxRows, WalCommit(n)
  PROVE  /\ WalTypeOK'
         /\ Len(wal') = Len(wal) + 1
         /\ \A tx \in 0..Len(wal) : CommittedRows(tx)' = CommittedRows(tx)
<1> DEFINE top == CommittedRows(Len(wal)) + n
<1>1. wal \in Seq(Nat) /\ Len(wal) \in Nat /\ n \in Nat
  BY LogicalAssumption DEF WalTypeOK
<1>2. top \in Nat /\ \A i \in 1..Len(wal) : wal[i] <= top
  <2>1. CommittedRows(Len(wal)) \in Nat
    BY <1>1, UpToRises
  <2>2. ASSUME NEW i \in 1..Len(wal) PROVE wal[i] \in Nat /\ wal[i] <= CommittedRows(Len(wal))
    BY <1>1, <2>2 DEF WalTypeOK, CommittedRows
  <2> QED BY <1>1, <2>1, <2>2
<1>3. wal' = Append(wal, top) /\ confirmed' = confirmed
  BY DEF WalCommit
<1> HIDE DEF top
<1>4. wal' \in Seq(Nat) /\ Len(wal') = Len(wal) + 1 /\ wal'[Len(wal) + 1] = top
      /\ \A i \in 1..Len(wal) : wal'[i] = wal[i]
  BY <1>1, <1>2, <1>3
<1>5. ASSUME NEW i \in 1..Len(wal'), NEW j \in 1..Len(wal'), i <= j
      PROVE  wal'[i] <= wal'[j]
  <2>1. CASE j = Len(wal) + 1
    <3>1. i = Len(wal) + 1 \/ i \in 1..Len(wal)
      BY <1>1, <1>4
    <3> QED BY <1>2, <1>4, <2>1, <3>1
  <2>2. CASE j # Len(wal) + 1
    <3>1. i \in 1..Len(wal) /\ j \in 1..Len(wal)
      BY <1>1, <1>4, <1>5, <2>2
    <3> QED BY <1>4, <1>5, <3>1 DEF WalTypeOK
  <2> QED BY <2>1, <2>2
<1>6. confirmed' \in 0..Len(wal')
  BY <1>1, <1>3, <1>4 DEF WalTypeOK
<1>7. \A tx \in 0..Len(wal) : tx = 0 \/ tx \in 1..Len(wal)
  BY <1>1
<1> QED BY <1>4, <1>5, <1>6, <1>7 DEF WalTypeOK, CommittedRows

(* Handing over the head of the queue makes what it acknowledges safe.     *)
LEMMA TakeCovers ==
  ASSUME NEW rows, NEW waiting \in Queues, waiting # <<>>,
         QueueIsCovered(waiting, rows)
  PROVE  LET more == rows \cup ToSet(Head(waiting).rows)
         IN  /\ AckCovered(Head(waiting).ack, more)
             /\ QueueIsCovered(Tail(waiting), more)
<1> DEFINE more == rows \cup ToSet(Head(waiting).rows)
           rest == Tail(waiting)
<1>1. Len(waiting) \in Nat \ {0} /\ Head(waiting) = waiting[1] /\ Len(rest) = Len(waiting) - 1
      /\ \A k \in 1..Len(rest) : rest[k] = waiting[k + 1]
  BY DEF Queues
<1>2. AckCovered(Head(waiting).ack, more)
  <2>1. 1 \in 1..Len(waiting) /\ 1..1 = {1}
    BY <1>1
  <2>2. RowsOfFirst(waiting, 1) = ToSet(Head(waiting).rows)
    BY <1>1, <2>1 DEF RowsOfFirst
  <2> QED BY <1>1, <2>1, <2>2 DEF QueueIsCovered
<1>3. ASSUME NEW k \in 1..Len(rest)
      PROVE  AckCovered(rest[k].ack, more \cup RowsOfFirst(rest, k))
  <2>1. k + 1 \in 1..Len(waiting) /\ rest[k] = waiting[k + 1] /\ k \in Nat
    BY <1>1
  <2>2. RowsOfFirst(waiting, k + 1) \subseteq more \cup RowsOfFirst(rest, k)
    <3> SUFFICES ASSUME NEW i \in 1..(k + 1)
                 PROVE  ToSet(waiting[i].rows) \subseteq more \cup RowsOfFirst(rest, k)
      BY DEF RowsOfFirst
    <3>1. CASE i = 1
      BY <1>1, <3>1
    <3>2. CASE i # 1
      <4>1. i - 1 \in 1..k /\ i - 1 \in 1..Len(rest) /\ (i - 1) + 1 = i
        BY <1>1, <2>1, <3>2
      <4>2. rest[i - 1] = waiting[i]
        BY <1>1, <4>1
      <4> HIDE DEF rest
      <4> QED BY <4>1, <4>2 DEF RowsOfFirst
    <3> QED BY <3>1, <3>2
  <2>3. rows \cup RowsOfFirst(waiting, k + 1) \subseteq more \cup RowsOfFirst(rest, k)
    BY <2>2
  <2>4. AckCovered(waiting[k + 1].ack, rows \cup RowsOfFirst(waiting, k + 1))
    BY <2>1 DEF QueueIsCovered
  <2> HIDE DEF more, rest
  <2> QED BY <2>1, <2>3, <2>4, CoveredGrows
<1> QED BY <1>2, <1>3 DEF QueueIsCovered

(* The maximum of two numbers.                                             *)
LEMMA LargerOfPair ==
  ASSUME NEW a \in Int, NEW b \in Int
  PROVE  Max({a, b}) = IF a < b THEN b ELSE a
<1> DEFINE m == IF a < b THEN b ELSE a
<1>1. m \in {a, b} /\ \A y \in {a, b} : m >= y
  OBVIOUS
<1>2. \A x \in {a, b} : (\A y \in {a, b} : x >= y) => x = m
  OBVIOUS
<1> QED BY <1>1, <1>2 DEF Max

(* Every step of the slot's reader keeps the invariant.                    *)
LEMMA SlotInvKept == SlotInv /\ [LogicalNext]_logicalVars => SlotInv'
<1> SUFFICES ASSUME SlotInv, [LogicalNext]_logicalVars PROVE SlotInv'
  OBVIOUS
<1>0. /\ WalTypeOK /\ LogicalTypeOK /\ SlotIsWritten /\ slotWritten \subseteq slotRows
      /\ AckCovered(logical.pending, slotRows) /\ QueueIsCovered(logical.queue, slotRows)
  BY DEF SlotInv
<1>a. ASSUME UNCHANGED wal
      PROVE  /\ \A tx : CommittedRows(tx)' = CommittedRows(tx)
             /\ \A lsn, rows : AckCovered(lsn, rows)' <=> AckCovered(lsn, rows)
  BY <1>a DEF CommittedRows, AckCovered
<1>b. ASSUME NEW rows PROVE QueueIsCovered(<<>>, rows)
  BY DEF QueueIsCovered
<1>c. <<>> \in Queues /\ NoLsn \in Int
  BY DEF Queues, NoLsn
<1>1. ASSUME NEW n \in SlotTxRows, WalCommit(n) PROVE SlotInv'
  <2>1. WalTypeOK' /\ Len(wal') = Len(wal) + 1 /\ Len(wal) \in Nat
        /\ \A tx \in 0..Len(wal) : CommittedRows(tx)' = CommittedRows(tx)
    BY <1>0, <1>1, CommitKeepsRows DEF WalTypeOK
  <2>2. UNCHANGED <<confirmed, logical, slotRows, slotWritten>>
    BY <1>1 DEF WalCommit
  <2>3. ASSUME NEW lsn, NEW rows, AckCovered(lsn, rows) PROVE AckCovered(lsn, rows)'
    BY <2>1, <2>3 DEF AckCovered
  <2>4. CommittedRows(confirmed)' = CommittedRows(confirmed)
    BY <1>0, <2>1, <2>2 DEF WalTypeOK
  <2>5. SlotIsWritten'
    BY <1>0, <2>2, <2>4 DEF SlotIsWritten
  <2>6. QueueIsCovered(logical.queue, slotRows)' /\ AckCovered(logical.pending, slotRows)'
    BY <1>0, <2>2, <2>3 DEF QueueIsCovered, RowsOfFirst
  <2> QED BY <1>0, <2>1, <2>2, <2>5, <2>6 DEF SlotInv, LogicalTypeOK
<1>2. CASE StartLogicalCycle
  <2>1. UNCHANGED <<wal, slotRows>> /\ slotWritten' = slotRows
        /\ confirmed' = IF logical.pending = NoLsn THEN confirmed ELSE logical.pending
    BY <1>2 DEF StartLogicalCycle
  <2>2. LogicalTypeOK' /\ logical'.pending = NoLsn /\ logical'.queue = logical.queue
    BY <1>0, <1>2, <1>c DEF StartLogicalCycle, LogicalTypeOK
  <2>3. WalTypeOK' /\ SlotIsWritten'
    BY <1>0, <1>a, <2>1 DEF WalTypeOK, SlotIsWritten, AckCovered
  <2>4. AckCovered(logical.pending, slotRows)' /\ QueueIsCovered(logical.queue, slotRows)'
    <3>1. AckCovered(logical.pending, slotRows)'
      BY <2>2 DEF AckCovered
    <3>2. QueueIsCovered(logical.queue, slotRows)'
      <4> DEFINE waiting == logical.queue
      <4>1. logical'.queue = waiting /\ QueueIsCovered(waiting, slotRows)
        BY <1>0, <2>2
      <4> HIDE DEF waiting
      <4> QED BY <2>1, <4>1 DEF QueueIsCovered, AckCovered, RowsOfFirst, CommittedRows
    <3> QED BY <3>1, <3>2
  <2> QED BY <2>1, <2>2, <2>3, <2>4 DEF SlotInv
<1>3. CASE AdvanceUnanswered
  <2>1. UNCHANGED <<wal, slotRows>> /\ slotWritten' = slotRows
        /\ confirmed' = logical.pending /\ logical.pending # NoLsn
    BY <1>3 DEF AdvanceUnanswered
  <2>2. LogicalTypeOK' /\ logical'.pending = logical.pending /\ logical'.queue = <<>>
    BY <1>0, <1>3, <1>c DEF AdvanceUnanswered, LogicalTypeOK
  <2>3. WalTypeOK' /\ SlotIsWritten'
    BY <1>0, <1>a, <2>1 DEF WalTypeOK, SlotIsWritten, AckCovered
  <2>4. AckCovered(logical.pending, slotRows)' /\ QueueIsCovered(logical.queue, slotRows)'
    BY <1>0, <1>a, <2>1, <2>2 DEF AckCovered, QueueIsCovered
  <2> QED BY <2>1, <2>2, <2>3, <2>4 DEF SlotInv
<1>4. CASE TakeBatch
  <2> DEFINE first == Head(logical.queue)
  <2>0. logical.queue \in Queues /\ logical.queue # <<>> /\ logical.pending \in Int
    BY <1>0, <1>4 DEF TakeBatch, LogicalTypeOK
  <2>1. UNCHANGED <<wal, confirmed, slotWritten>> /\ slotRows' = slotRows \cup ToSet(first.rows)
    BY <1>4 DEF TakeBatch
  <2>2. first \in [rows : Seq(Nat), ack : Int]
        /\ Tail(logical.queue) \in Queues
    <3> DEFINE Batch == [rows : Seq(Nat), ack : Int]
               waiting == logical.queue
    <3>1. waiting \in Seq(Batch) /\ waiting # <<>>
      BY <2>0 DEF Queues
    <3> HIDE DEF Batch, waiting
    <3>2. Head(waiting) \in Batch /\ Tail(waiting) \in Seq(Batch)
      BY <3>1
    <3> QED BY <3>2 DEF Queues, Batch, waiting
  <2>3. first.ack \in Int
    BY <2>2
  <2>4. Max({logical.pending, first.ack})
          = IF logical.pending < first.ack THEN first.ack ELSE logical.pending
    BY <2>0, <2>3, LargerOfPair
  <2>5. /\ logical' = [logical EXCEPT !.queue = Tail(@), !.batches = @ + 1,
                                      !.pending = Max({@, first.ack})]
    BY <1>4 DEF TakeBatch
  <2> HIDE DEF first
  <2>6. /\ LogicalTypeOK' /\ logical'.queue = Tail(logical.queue)
        /\ logical'.pending = Max({logical.pending, first.ack})
    <3> DEFINE most  == Max({logical.pending, first.ack})
               rest  == Tail(logical.queue)
               count == logical.batches + 1
    <3>1. most \in Int /\ rest \in Queues /\ count \in Nat
      BY <1>0, <2>0, <2>2, <2>3, <2>4 DEF LogicalTypeOK
    <3>2. logical' = [logical EXCEPT !.queue = rest, !.batches = count, !.pending = most]
      BY <1>0, <2>5 DEF LogicalTypeOK
    <3> HIDE DEF most, rest, count
    <3>3. LogicalTypeOK' /\ logical'.queue = rest /\ logical'.pending = most
      BY <1>0, <3>1, <3>2 DEF LogicalTypeOK
    <3> QED BY <3>3 DEF most, rest
  <2>7. AckCovered(first.ack, slotRows') /\ QueueIsCovered(Tail(logical.queue), slotRows')
    BY <1>0, <2>0, <2>1, TakeCovers DEF first
  <2>8. AckCovered(logical.pending, slotRows')
    BY <1>0, <2>1, CoveredGrows
  <2>9. AckCovered(logical'.pending, slotRows')
    BY <2>4, <2>6, <2>7, <2>8
  <2>10. AckCovered(logical.pending, slotRows)' /\ QueueIsCovered(logical.queue, slotRows)'
    <3> DEFINE rest == Tail(logical.queue)
    <3>1. logical'.queue = rest /\ QueueIsCovered(rest, slotRows')
      BY <2>6, <2>7
    <3> HIDE DEF rest
    <3> QED BY <2>1, <2>9, <3>1 DEF QueueIsCovered, AckCovered, RowsOfFirst, CommittedRows
  <2>11. WalTypeOK' /\ SlotIsWritten' /\ (slotWritten \subseteq slotRows)'
    BY <1>0, <1>a, <2>1 DEF WalTypeOK, SlotIsWritten
  <2> QED BY <2>6, <2>10, <2>11 DEF SlotInv
<1>5. CASE Peek
  <2>1. UNCHANGED <<wal, confirmed, slotRows, slotWritten>>
    BY <1>5 DEF Peek
  <2>2. LogicalTypeOK' /\ logical'.pending = logical.pending
        /\ QueueIsCovered(logical'.queue, slotRows)
    <3>1. CASE logical' = [logical EXCEPT !.peeked = TRUE, !.cycleStart = TRUE]
      <4>1. LogicalTypeOK' /\ logical'.pending = logical.pending /\ logical'.queue = logical.queue
        BY <1>0, <3>1 DEF LogicalTypeOK
      <4> QED BY <1>0, <4>1
    <3>2. ASSUME NEW to \in (confirmed + 1)..Len(wal),
                 logical' = [logical EXCEPT !.peeked = TRUE, !.queue = Decoded(confirmed, to),
                                            !.cycleStart = (Decoded(confirmed, to) = <<>>)]
          PROVE  LogicalTypeOK' /\ logical'.pending = logical.pending
                 /\ QueueIsCovered(logical'.queue, slotRows)
      <4>1. 1..CommittedRows(confirmed) \subseteq slotRows
        BY <1>0 DEF SlotIsWritten
      <4>2. /\ Decoded(confirmed, to) \in Queues
            /\ QueueIsCovered(Decoded(confirmed, to), slotRows)
        BY <1>0, <4>1, DecodedCovers
      <4>3. LogicalTypeOK' /\ logical'.pending = logical.pending
            /\ logical'.queue = Decoded(confirmed, to)
        BY <1>0, <3>2, <4>2 DEF LogicalTypeOK
      <4> QED BY <4>2, <4>3
    <3>3. CASE logical' = [logical EXCEPT !.peeked = TRUE]
      <4>1. LogicalTypeOK' /\ logical'.pending = logical.pending /\ logical'.queue = logical.queue
        BY <1>0, <3>3 DEF LogicalTypeOK
      <4> QED BY <1>0, <4>1
    <3> QED BY <1>5, <3>1, <3>2, <3>3 DEF Peek
  <2>3. AckCovered(logical.pending, slotRows)' /\ QueueIsCovered(logical.queue, slotRows)'
    BY <1>0, <1>a, <2>1, <2>2 DEF QueueIsCovered, AckCovered, RowsOfFirst, CommittedRows
  <2>4. WalTypeOK' /\ SlotIsWritten' /\ (slotWritten \subseteq slotRows)'
    BY <1>0, <1>a, <2>1 DEF WalTypeOK, SlotIsWritten
  <2> QED BY <2>2, <2>3, <2>4 DEF SlotInv
<1>6. ASSUME UNCHANGED <<wal, confirmed, slotRows, slotWritten>>,
             LogicalTypeOK', logical'.pending = logical.pending, logical'.queue = <<>>
      PROVE  SlotInv'
  <2>1. AckCovered(logical.pending, slotRows)' /\ QueueIsCovered(logical.queue, slotRows)'
    BY <1>0, <1>a, <1>6 DEF QueueIsCovered, AckCovered
  <2>2. WalTypeOK' /\ SlotIsWritten' /\ (slotWritten \subseteq slotRows)'
    BY <1>0, <1>a, <1>6 DEF WalTypeOK, SlotIsWritten
  <2> QED BY <1>6, <2>1, <2>2 DEF SlotInv
<1>7. CASE EndLogicalCycle \/ Reconnect
  <2>1. LogicalTypeOK' /\ logical'.pending = logical.pending /\ logical'.queue = <<>>
    BY <1>0, <1>7, <1>c DEF EndLogicalCycle, Reconnect, LogicalTypeOK
  <2> QED BY <1>6, <1>7, <2>1 DEF EndLogicalCycle, Reconnect
<1>8. CASE LogicalRestart
  <2>1. UNCHANGED <<wal, confirmed, slotWritten>> /\ slotRows' = slotWritten
        /\ logical' = FreshLogical
    BY <1>8 DEF LogicalRestart
  <2>2. LogicalTypeOK' /\ logical'.pending = NoLsn /\ logical'.queue = <<>>
    BY <1>c, <2>1 DEF FreshLogical, LogicalTypeOK, NoLsn
  <2>3. AckCovered(logical.pending, slotRows)' /\ QueueIsCovered(logical.queue, slotRows)'
    BY <2>2 DEF QueueIsCovered, AckCovered
  <2>4. WalTypeOK' /\ SlotIsWritten' /\ (slotWritten \subseteq slotRows)'
    BY <1>0, <1>a, <2>1 DEF WalTypeOK, SlotIsWritten
  <2> QED BY <2>2, <2>3, <2>4 DEF SlotInv
<1>9. CASE UNCHANGED logicalVars
  <2>1. UNCHANGED <<wal, confirmed, logical, slotRows, slotWritten>>
    BY <1>9 DEF logicalVars
  <2> QED BY <2>1 DEF SlotInv, WalTypeOK, LogicalTypeOK, SlotIsWritten, AckCovered, QueueIsCovered,
                      RowsOfFirst, CommittedRows
<1> QED BY <1>1, <1>2, <1>3, <1>4, <1>5, <1>7, <1>8, <1>9 DEF LogicalNext

(* The server forgets what the slot has confirmed: advance moves it only   *)
(* past transactions handed over whole in a cycle the host came back from, *)
(* for every batch size, cap and log, whatever queue is dropped and        *)
(* whichever answer is lost.                                               *)
THEOREM ConfirmedIsWritten == LogicalSpec => []SlotIsWritten
<1>1. ASSUME LogicalInit PROVE SlotInv
  <2>1. <<>> \in Queues /\ NoLsn \in Int
    BY DEF Queues, NoLsn
  <2>2. LogicalTypeOK
    BY <1>1, <2>1 DEF LogicalInit, LogicalTypeOK, FreshLogical
  <2>3. WalTypeOK
    BY <1>1 DEF LogicalInit, WalTypeOK
  <2> QED BY <1>1, <2>2, <2>3 DEF LogicalInit, SlotInv, SlotIsWritten, AckCovered, QueueIsCovered,
                                  CommittedRows, FreshLogical
<1>2. SlotInv => SlotIsWritten
  BY DEF SlotInv
<1> QED BY <1>1, <1>2, SlotInvKept, PTL DEF LogicalSpec

----------------------------------------------------------------------------
(* No source skips a row in silence, each running as its own module says,  *)
(* in any interleaving: what a stored binlog position or a slot position   *)
(* covers was handed over in a cycle the host came back from, and so       *)
(* written; what a committed offset or an acknowledgement covers was       *)
(* handed over by an earlier call or given up with an error.               *)
THEOREM NoSourceSkipsSilently ==
  BinlogSpec /\ LogicalSpec /\ BrokerSpec => []NoSilentSkips
BY StoredPositionIsSafe, ConfirmedIsWritten, BrokersSkipNothingSilently, PTL
   DEF NoSilentSkips
=============================================================================
