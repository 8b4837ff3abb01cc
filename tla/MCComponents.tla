---------------------------- MODULE MCComponents ----------------------------
(***************************************************************************)
(* Components that share no state, side by side in one instance: the       *)
(* ledger with checkpoints and a clock that stands still, the scan, the    *)
(* transport, the archive, the node-local parts and the connectors.  A     *)
(* behaviour is about one of them, its subject; the others stay at one     *)
(* initial state, so that the state spaces add up instead of multiplying.  *)
(***************************************************************************)
EXTENDS ClaimLedger, BatchScan, ConnectorHealing, ParquetCheckpoint, RaftTransport,
        PipelineExecution, PipelineScheduler, EventTimeWindows, FlowController,
        ChangeSources, FileSink

VARIABLE subject

Subjects == {"ledger", "scan", "healing", "archive", "transport", "pipeline",
             "scheduler", "windows", "flow", "binlog", "logical", "kafka", "nats",
             "fileSink"}

----------------------------------------------------------------------------
(* The constants that are not plain values. *)

(* What a system may declare: nothing or one field read, one field written. *)
MCMetas == [reads : {{}, {"f"}, {"g"}}, writes : {{"f"}, {"g"}}, parallel : BOOLEAN]

MCPriority == <<1, 0, 1>>
MCStamps   == {-2, 1, 3}
MCHashes   == {-1, 1, 2}
MCGrowth   == <<7, 5>>
MCBackoff  == <<2, 1>>

----------------------------------------------------------------------------
(* Where an initial state leaves a choice, only the subject makes it. *)
Settled ==
  /\ subject = "scan" \/ (subject # "scan" /\ totalRows = 0)
  /\ \/ subject = "pipeline"
     \/ /\ subject # "pipeline"
        /\ metas = [i \in Systems |-> CHOOSE m \in Metas : TRUE]
        /\ wide = FALSE
  /\ \/ subject = "scheduler"
     \/ /\ subject # "scheduler"
        /\ depends = [i \in Pipelines |-> [j \in Pipelines |-> "none"]]
  /\ \/ subject = "windows" /\ geometry \in {"sliding", "session"} /\ budget = Lateness
     \/ subject = "windows" /\ geometry = "tumbling" /\ budget \in HostBudgets
     \/ subject # "windows" /\ geometry = "tumbling" /\ budget = Lateness
  /\ \/ subject = "binlog"
     \/ subject # "binlog" /\ takeSnapshot = FALSE
                           /\ reader = FreshReader(CHOOSE n \in BinlogBatchRows : TRUE)
  /\ subject \in {"kafka", "nats"} \/ (subject \notin {"kafka", "nats"} /\ bad = {})
  /\ subject = "fileSink" \/ (subject # "fileSink" /\ format = "plain")

ComponentsInit ==
  /\ subject \in Subjects
  /\ Settled
  /\ Init
  /\ ScanInit /\ HealInit /\ ArchiveInit /\ TransportInit
  /\ PipelineInit /\ SchedulerInit /\ WindowInit /\ FlowInit
  /\ BinlogInit /\ LogicalInit /\ BrokerInit /\ FileInit

ComponentsNext ==
  /\ UNCHANGED subject
  /\ \/ subject = "ledger" /\ Next
     \/ subject # "ledger" /\ UNCHANGED vars
  /\ \/ subject = "scan" /\ ScanNext
     \/ subject # "scan" /\ UNCHANGED scanVars
  /\ \/ subject = "healing" /\ HealNext
     \/ subject # "healing" /\ UNCHANGED healVars
  /\ \/ subject = "archive" /\ ArchiveNext
     \/ subject # "archive" /\ UNCHANGED archiveVars
  /\ \/ subject = "transport" /\ TransportNext
     \/ subject # "transport" /\ UNCHANGED transportVars
  /\ \/ subject = "pipeline" /\ PipelineNext
     \/ subject # "pipeline" /\ UNCHANGED pipelineVars
  /\ \/ subject = "scheduler" /\ SchedulerNext
     \/ subject # "scheduler" /\ UNCHANGED schedulerVars
  /\ \/ subject = "windows" /\ WindowNext
     \/ subject # "windows" /\ UNCHANGED windowVars
  /\ \/ subject = "flow" /\ FlowNext
     \/ subject # "flow" /\ UNCHANGED flowVars
  /\ \/ subject = "binlog" /\ BinlogNext
     \/ subject # "binlog" /\ UNCHANGED binlogVars
  /\ \/ subject = "logical" /\ LogicalNext
     \/ subject # "logical" /\ UNCHANGED logicalVars
  /\ \/ subject = "kafka" /\ KafkaNext
     \/ subject = "nats" /\ NatsNext
     \/ subject \notin {"kafka", "nats"} /\ UNCHANGED brokerVars
  /\ \/ subject = "fileSink" /\ FileNext
     \/ subject # "fileSink" /\ UNCHANGED fileVars

componentsVars ==
  <<subject, vars, scanVars, healVars, archiveVars, transportVars, pipelineVars,
    schedulerVars, windowVars, flowVars, binlogVars, logicalVars, brokerVars, fileVars>>

ComponentsSpec == ComponentsInit /\ [][ComponentsNext]_componentsVars
=============================================================================
