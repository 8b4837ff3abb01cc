# saci: a verification project in TLA+

saci is a Rust workspace for columnar data pipelines. A pipeline runs inside
one process (standalone, stream) or on a cluster whose nodes share work through
a Raft-replicated ledger of row claims. This project models who owns which rows
on a cluster, how a node runs its workflow, pauses it, heals its connectors and
keeps what failed, and how the connectors acknowledge and write: what a crash, a
lost call, a stale replica, a cancellation or an unlucky order can do to rows.

Paths are relative to `src/crates/saci-service/src/` unless they start with
`crates/` or `docs/`.

## 1. Inventory

### Cluster

| Component | State it keeps | Operations | What makes it correct |
|---|---|---|---|
| Consensus state machine `distributed/consensus/state_machine/` | redb tables: master batches, claims, an index of claims by batch, pending batches, checkpoints, instances | nine commands, the pending scan, dump and restore | at most one live claim per row; acked rows stay acked; index and table agree; counters count what happened; every replica computes the same |
| Partition contract `distributed/partition.rs` | none (a trait) | claim, renew, ack, release, reclaim | rows are owned exclusively and finished once |
| Shared store `distributed/consensus/store.rs` | handle of a driver or of a single-node database | proposes commands, scans and loads from the local replica, retries conflicts | a lost race is retried, a lost answer is not taken for success |
| Distributed runner `distributed/runner.rs`, `processor_state_store.rs`, `accumulator_store.rs` | claim in hand, sweep deadline, two chained claim ids | sweep, claim, load, renew, run, save, ack, release | nothing acked that was not saved; state handed from batch to batch; rows counted once; all work gets done |
| Cluster loop `service/cluster.rs` | runner, cancellation | re-enters `run()` after an idle pause, drops it on cancellation | a dead runner's rows come back |
| Replica storage `distributed/consensus/storage/`, `snapshot.rs` | Raft log, purge point, tables, `last_applied` in memory and on disk, snapshots | append, purge, apply, build, send and install a snapshot, start | a node can always restart; equal position means equal tables; a lagging node catches up |
| Raft driver `distributed/consensus/driver.rs` | proposal queue | start-up check, write or forward a proposal | a failed call may still have committed |
| Raft transport `distributed/consensus/transport/` | stream pool, circuit breaker, chunks per connection | call, send a snapshot in chunks, assemble, evict | answers reach their own call; a snapshot is installed whole |
| Parquet checkpoint store `distributed/parquet_checkpoint.rs` | data file, sidecar, temporaries | save, delete, load | no torn file loads, and no sidecar newer than its data, whatever crashed |

### One node

| Component | State it keeps | Operations | What makes it correct |
|---|---|---|---|
| Workflow lifecycle `service/lifecycle.rs` | status, pending reply, two watch channels, command queue | command, supervise, park, build, shutdown | every waiter is held and answered; over means released; nobody parks for ever |
| Standalone runner `service/standalone.rs` | carry, dataset, staged rows, pacing | pull, run, write, replay, finish, cancel | rows stay in order and are accounted for; sinks finish before sources |
| Dead letter queue `service/dlq.rs` | redb store, counters, request slot | record, drain, retry, write back, request | a letter is kept, delivered, discarded or counted, and stored once |
| Connector healing `service/heal.rs` | state and counter of a node | answer, fail, rebuild, recover | back-off goes on where it was, within its budget |
| Flow control `service/flow.rs` | size, candidate, arms, ceiling, rest | sample, decide, back off, rest | the search stops only where no step is left |
| Windowing `service/windowing.rs`, `crates/saci-core/src/windows/` | watermarks, emitted windows, tracker | assign, drop, fire, report | every row in exactly its windows; what is dropped is reported; late means seen before |
| Pipeline execution `crates/saci-core/src/pipeline/` | stages, dataset | layer, run in parallel or inline, retry, merge | same result as one system after the other |
| Scheduler `crates/saci-core/src/scheduler.rs` | dependency graph, stages, outcome | plan, tick, skip | dependencies first; no run on data that is not there |

### Connectors

| Component | State it keeps | Operations | What makes it correct |
|---|---|---|---|
| MariaDB binlog source `crates/saci-connector-mariadb/src/source/binlog.rs` | position, queue, snapshot page, stored offset | snapshot, drain cycle, store, restart | the stored position covers only rows handed over; cycles move on; idle means quiet |
| PostgreSQL logical source `crates/saci-connector-postgresql/src/source/logical.rs` | slot position, queue, acknowledgement | peek, hand over, advance | the slot never passes rows not handed over |
| Kafka and JetStream sources `crates/saci-connector-kafka/src/source.rs`, `crates/saci-connector-nats/src/source.rs` | window, position or tokens, decode attempts | receive, decode, commit or ack, retire | nothing is skipped silently |
| File sink `crates/saci-connector-file/src/sink.rs` | file, writer, pending batch, refusal | write, sync, recover, cut, finish | a batch lands whole and once, or not at all |

### Interactions

A runner on a cluster calls the store; the store proposes to the driver, which
writes to openraft or forwards to the leader over the transport; openraft calls
`apply` on every node's state machine store; reads (scan, checkpoint load)
bypass openraft and go to the local tables. Runners talk to each other only
through the ledger. On one node the supervisor of a workflow owns its runner;
they park on each other through two watch channels. The runner pulls sources
through their healing wrappers with the credit of the flow controller, runs the
pipeline, writes the sinks, and records and replays dead letters inline.
A source acknowledges upstream when it is polled again or finished.

`PROJECT.json` lists each hazard at its line with the properties that watch it.

## 2. Modules

| Module | Models | Uses |
|---|---|---|
| `PendingScan` | the cursor walk of `find_first_pending_claim` over occupied ranges, as a fold | |
| `BatchScan` | the scan on every set of ranges that grants and releases lead to | `PendingScan` |
| `ArrowStateMachine` | the tables as one record `db`, every `apply_*` handler as an operator `db -> [db, response]`, dump and restore | `PendingScan` |
| `ClaimLedger` | one replica under every sequence of commands and snapshot installs | `ArrowStateMachine` |
| `RowOwnership` | the promise of `PartitionSource`: grant, finish, give back | |
| `DistributedRunner` | `run_with_shutdown` of several runners inside the cluster loop, over the leader's tables and followers' replicas | `ArrowStateMachine` |
| `ReplicatedApply` | log, apply, watermark, purge, snapshot, crash and restart of every replica | `ArrowStateMachine` |
| `RaftTransport` | pool, breaker, calls and chunked snapshots between one node and one peer | |
| `ParquetCheckpoint` | writes, syncs and renames of a checkpoint under crashes | |
| `WorkflowLifecycle` | callers, supervisor and runner of one workflow | |
| `DeadLetterQueue` | state and effects of the queue | |
| `StandaloneRunner` | the pass loop that drives the queue | `DeadLetterQueue` |
| `ConnectorHealing` | the healing gate of one connector | |
| `FlowController` | the adaptive controller of one source | |
| `EventTimeWindows` | host tracker and engine of one windowed node, in several instances | |
| `PipelineExecution`, `PipelineScheduler` | systems into stages, pipelines into stages, and their runs | |
| `BinlogReader`, `LogicalReader`, `BrokerSources`, `FileSink` | the connectors above, with the outside service as they use it | |
| `ChangeSources` | the promise of an acknowledgement, for the sources together | `BinlogReader`, `LogicalReader`, `BrokerSources` |
| `MC*` | model values and choices for TLC; `MCComponents` puts components that share no state into one instance | |

Proof modules (section 5):

| Module | Proves about |
|---|---|
| `PendingScanProofs` | the scan as an algorithm, and induction over the naturals |
| `ArrowStateMachineProofs` | what each handler does to well-typed tables; used by the next three |
| `ClaimLedgerProofs` | the ledger, and that it implements `RowOwnership` |
| `DistributedRunnerProofs` | the runners |
| `ReplicatedApplyProofs` | restarts and agreement of the replicas |
| `WorkflowLifecycleProofs` | the waiters and the end of a workflow |
| `StandaloneRunnerProofs` | the pass loop, the dead letters and the file sink |
| `ComponentProofs` | the components that share no state: scan, healing, checkpoints, brokers, flow, transport, windows, scheduler, pipeline, binlog, replication slot |

### How state and actions correspond to the code

**ArrowStateMachine.** `db.batches`, `db.claims`, `db.index`, `db.pending`,
`db.checkpoints`, `db.instances` are the redb tables of `records.rs`. A handler
runs in one write transaction, so it is one operator; its early returns answer
`Error` (or `Overlap`, the one error the store retries) and leave `db` alone.
Names, schema ids and payload bytes are dropped; a payload's size is `below`,
`at_cap` or `above` the log entry limit. `release_attempts` saturates at
`U32Max`. `RestoreState` rebuilds the index and lists every batch as pending,
whatever its status, as the code does.

**ClaimLedger.** `minted` remembers, per claim id, the `ClaimRowRange` command
it was first proposed with: ids are fresh UUIDs, so a second command with the
same id can only be the same log entry applied again. Every action takes a
clock value of its own; clocks go back and forth.

**DistributedRunner.** `pc[i]` is the await at which runner `i` stands (`idle`
is the pause of the cluster loop). One store call is one step that ends answered
or not; in the latter case the command is gone or joins `late` and may commit
any time. `chain` is the pair of chained claim ids, `prior` what the runtime is
handed, `kept` (history) what it last left. `timer[i]` is the time to
`next_sweep` inside `run()` and the idle pause outside. Every command carries the
clock of the node that proposes it: `now` is the clock furthest behind, and a
stamp lies up to `MaxSkew` ahead of it, so a sweep or a renewal may come from a
node whose clock runs ahead of the claimant's. `LeaseProtectsWork` is stated by
the clock furthest ahead: a sweep takes a claim from a runner at work only when
some clock says that its lease is over.

**ReplicatedApply.** `stored`, `purged`, `applied`, `watermark`, `snapshot` are
indexes into the committed log. `ApplyEntry` is one pass of the loop of `apply`,
`PersistWatermark` the transaction after it; a crash may fall between any two.
openraft is external: the model takes a committed log as given, and that
openraft serialises the calls on a state machine and answers a client after the
leader has applied.

**RaftTransport.** A stream is what travels on it in both directions, the pool
the set of idle streams. A call takes one, sends, waits and gives it back only
after its own answer; dropping a call, a timeout and a lost connection are
actions. The peer keeps the chunks of a transfer per connection and may evict
them. The breaker is the counter of failures and its open or half-open state.

**ParquetCheckpoint.** `step` is the place in `write_checkpoint_internal` or
`delete_checkpoint`. A file is the number of the save that wrote it. `data` and
`sidecar` are what the directory shows, `syncedData` and `syncedSidecar` what it
would show after a power loss; `Kill` keeps the former, `PowerLoss` any
mixture of both. A failed directory sync is ignored by the code (`unsynced`).

**WorkflowLifecycle.** A call is judged against the published status and queued
in two steps. The supervisor and its runner share a task, so an arm of the
select loop is one step. A watch channel is its latest value and whether the
receiver has seen it. `Publisher::pending` is the one waiting caller.

**DeadLetterQueue and StandaloneRunner.** A letter is the batch it carries. The
runner's place is the await at which it stands; `carry`, `dataset` and `staged`
hold the rows on their way from source to sink. Rows are numbered in source
order, so that order, loss and repetition can be told. `MaxFaults` bounds failed
writes, runs, fetches and store operations.

**ConnectorHealing.** `heal` is `HealState` with its counter; a delay is the
nondeterministic moment `rebuildDue`. `tries` is history.

**FlowController.** Sizes, clamps and integer steps are computed exactly; which
arm was faster, whether a pass missed its objective and when an epoch is over
are inputs. The factors are any fractions above 1, as the configuration accepts.

**EventTimeWindows.** `Arrive` runs the host's `advance_from` and one
`WindowedSystem` run per instance. The engine reads the rows of its source
component; the tracker reads every component that has the time field, of which
only the newest timestamp counts (`elsewhere`), and has a lateness budget of its
own (`budget`), as the two are configured in two places. A group is the set of rows it is computed
from; window assignment uses the code's floor arithmetic on integers, and a
session ends where two consecutive rows of the sort order differ in key or lie
further apart than the gap.

**PipelineExecution, PipelineScheduler.** A field's value is the history that
produced it, so equal values mean equal computations. A write set that does not
fit (`ApplyFails`) leaves some of its columns written (`partly`) and ends the
run; on the inline path it is one system's, after a concurrent stage the merged
one of the stage. Kahn's algorithm is run step by step with
the code's in-degrees and queue. Dependencies name registered pipelines other
than the dependent itself: an unknown name is refused before the plan
(`scheduler.rs:278`), and a pipeline that names itself is a ring of one.

**BinlogReader.** A position is a number of transactions. A cycle is dump,
changes, cap or end, `finish`; the position of a cycle is stored at the start of
the next, and that write is a transaction of the same binlog. A store whose
answer is lost may have landed.

**LogicalReader.** A cycle is a peek, hand-overs and, with the next poll, an
advance of the slot, which may land without an answer. The log is a sequence of
row counts, those committed up to each transaction (`CommittedRows`). `AckOf` is
the position a cut batch may acknowledge.

**BrokerSources.** Kafka: one position, the group's offset, the window a dropped
call left. JetStream: tokens per delivery, redelivery after `ack_wait`, decode
attempts and termination. One poll acknowledges what the previous one returned.

**FileSink.** A batch is two pieces, so that half of it can be in the file.
Dropping a writer flushes any prefix of its buffer; `MeasureFile` and `CutBack`
are two system calls, and another process may append between any two.

## 3. Runs

| Run | Instance | Asks | Result |
|---|---|---|---|
| `ledger` | 1 batch of 2 rows, 2 claims, 2 instances, clocks 0..2, lease 1 | types, index, exclusivity, finality, refinement of `RowOwnership` | holds |
| `ledger_poison` | 1 row | is a poisoned batch never scanned again? | violated |
| `runner_race` | a runner on the leader, one on a follower, clocks a tick apart, 1 batch, 1 fault | nothing acked unsaved, nothing counted twice, leases protect work | holds |
| `runner_done` | a race for 1 batch without faults, or 1 runner on the leader, 2 batches and 1 fault; one clock; fairness | is all work finished, and the state handed back? | holds |
| `runner_orphan` | 1 runner, 1 fault, fairness | is an orphaned lease recycled? | violated |
| `replicas` | 2 replicas, 3 entries of 6 commands, 2 crashes, fairness | restartable, equal tables at equal positions, everyone catches up | holds |
| `replicas_replay` | 2 replicas, 4 entries, 1 crash | do replicas agree on owners after a replay? | violated |
| `lifecycle` | 3 concurrent calls of any verbs, failing builds, a shutdown, fairness | waiters held and answered, over means released, nobody parked for ever | holds |
| `standalone` | 3 rows in 2 batches, 4 workflows, credit 1 or 2, 1 fault, 1 replay request, cancellation anywhere, fairness | order, accounting, finish order, dead letters, request served | holds |
| `standalone_source` | the same, without fairness | is a source finished only when its rows are delivered? | violated |
| `kafka_commits` | 3 messages, window 2, any of them undecodable | does a commit cover only what the caller has seen? | violated |
| `components` | one component at a time (`subject`), bounds below | the properties of the components that share no state | holds |

What `components` asks of each subject:

| Subject | Instance | Properties |
|---|---|---|
| scan | disjoint ranges of batches up to 6 rows | `ScanFindsFirstGap` against a reference definition |
| ledger | 1 batch of 2 rows, 2 claims, 2 payloads, heartbeats | `CheckpointSeqExact` |
| transport | 2 callers, 2 streams, pool of 1, 4 calls, 3 chunks | `AnswersAreOwn`, `SnapshotsAreWhole` |
| archive | 3 saves, any interruption | `LoadedIsWhole` |
| healing | threshold 2, budget 3 | `BackoffGoesOn` |
| pipeline | 3 systems of any declarations over 2 fields, one of them a resource, 2 attempts, failing systems and write sets | `SerialEquivalence` |
| scheduler | every dependency graph of 3 pipelines | `NeededFirst`, `DroughtSpreads` |
| windows | 3 geometries, 4 rows, timestamps before and after the epoch, 3 keys, 2 instances, a host budget smaller than or equal to the engine's, timestamps of another component | `EveryRowPlaced`, `HostSeesTheDrops`, `LateMeansSeen` |
| flow | sizes 1 to 6, growth 1.4, back-off 2, with a latency objective | `StallsOnlyByRounding` |
| binlog | 4 transactions of 1 or 3 rows, batches of 1 or 2, caps, a snapshot of 2 pages | `NoSilentSkips`, `CyclesMoveOn`, `IdleIsQuiet` |
| logical | 4 transactions of 0, 1 or 3 rows, batches of 2, cap 2 | `NoSilentSkips` |
| kafka, nats | 3 messages, window 2, 2 attempts, any of them undecodable | `NoSilentSkips` |
| fileSink | 3 batches, 3 failing calls, 1 append of another process | `LandsOnceOrNot` |

Bounds, and why they are enough. Two claims are enough for every pairwise
property; two rows give equal, nested, touching and disjoint ranges. Clocks 0..2
with a lease of 1 give unexpired, just expired and overdue leases and clocks
that run backwards. Two runners are enough for a race, and one fault for every
single point of failure; a saved state needs a second batch to be handed to.
Three log entries reach a snapshot in the middle of a tenure; the replay needs a
fourth. `MaxNow` saturates the runners' clock only after every lease granted
earlier has run out; with a skew of one tick a lease of one is over by one clock
while it still runs by another. `runner_done` restricts each step
(`ChainOrRace`) to one of two cases, told apart by how many batches are
registered: a race without faults, of which it asks that all work is finished,
and a single runner with faults, of which it asks the state. Three calls on a
workflow give a verb that waits, one that displaces it and one judged before
both. An arrival of two rows under a credit of one is cut and carried, and a
second arrival can overtake it. Three chunks have a first, a middle and a final
one; four calls on two streams reuse a stream after a dropped call. A
transaction of 3 rows is larger than cap times batch size 1 or 2, the case the
caps exist for. Three systems or pipelines make chains, forks and joins; four
rows make a window fire, fire late and drop. A growth of 1.4 moves every size
from 2 up and rounds back at 1, so that the search both goes on and stops. The
proofs of section 5 have none of these bounds. Three failing calls of the file
sink are a failed batch, a failed cut and a failed retry. Claim ids and replicas
are symmetric where they are model values, since the handlers only compare them
for equality; runs with liveness use no symmetry. `CHECK_DEADLOCK FALSE` appears
where the bounds end the run, or the program itself does (a finished workflow).

Fairness. `DistributedRunner`: weak fairness of every runner's next step (Tokio
polls every task, store calls have timeouts, executions end), of follower
replication and of time; none for a lost command to commit, for a crash, or for
the renewal branch. `ReplicatedApply`: weak fairness of append, apply, watermark
and install on every replica, and of sending a snapshot to one that needs it;
none for proposals, purges, snapshot builds or crashes. `WorkflowLifecycle`:
weak fairness of what the supervisor's task does when an arm of its select is
ready, of a build that starts to end, of a cancelled runner to return and of a
judged call to be queued; none for a runner to end by itself, for callers or for
the shutdown. `StandaloneRunner`: weak fairness of the runner's own steps; none
for requests, the cancellation or faults.

Each property of a passing run has at least one mutant, a definition next to the
one it replaces, marked "Faulty variant": a plausible slip in that code under
which TLC finds the property violated.

## 4. Where code and comments disagree

* `ledger_poison`: installing a snapshot lists a poisoned batch as pending again,
  and the scan does not look at the status.
* `runner_orphan`: the 30 s sweep deadline starts afresh with every `run()`, and
  `run()` returns as soon as nothing is claimable. On a cluster with nothing
  else to claim no sweep ever happens, and the rows of a dead runner stay held.
* `replicas_replay`: entries applied before a crash but not under the watermark
  are applied again to tables that already hold later effects. A first claim
  takes the row, a second one is refused because it overlaps, the first is
  released: replayed, the refused claim finds the row free and is granted, and
  the restarted replica ends with an owner that the others have refused.
  `ReplicasAgree` shows that this window is the only one.
* `standalone_source`: a cancellation in the middle of a pass finishes the
  sources while rows they handed over are in the carry or in a dataset; a
  source that consumes in `finish` then forgets them.
* `kafka_commits`: a Kafka window with one message that does not decode is
  dropped as a whole, and the commit after the next good window covers it, while
  `crates/saci-connector-kafka/src/source.rs:898` says that the position "covers
  nothing the caller has not seen". `NoSilentSkips` says what does hold: what is
  covered unseen was in a window whose failure the caller was told.

### Observations without a run

Met while modelling, each readable at its lines; the properties above are stated
so that they hold with them.

* An ack drops a batch from `pending_batches` when all recorded claims are
  Completed, not when they cover all rows (`state_machine/records.rs:29`). It
  takes a second registration with more rows while a claim is held.
* A runner on a follower loads the previous state from its own replica, which
  may lag behind the save (`store.rs:189`, `runner.rs:279`): it starts cold.
  `StateHandedBack` is therefore asked of the runners on the leader's node,
  whatever those on followers do.
* `register_master_batch` refuses a payload above the limit, the handler at it
  (`store.rs:326`).
* A pause, a resume and a pause served before the supervisor has read that the
  runner parked leave the status at Pausing although the runner is parked, and
  after the next resume although it runs (`lifecycle.rs:795`); a pause is
  documented to answer `pausing` only while a pass is in flight
  (`docs/content/service/operate/workflows.md:121`).
* Once a drain has read the store through, `known` stays set for the process
  (`dlq.rs:1359`), while a later drain that is cut short counts only what it
  read: with nothing retained, letters it never reached wait for a request, as
  automatic replays are skipped (`dlq.rs:880`).
* A letter that failed again is neither on disk nor delivered between the
  deletion and the write-back (`dlq.rs:963`); `CrashLosesNothing` excepts it.
* `WindowContext` gets `win_id * size` as its start, without the offset and, for
  sliding windows, with the size where the id counts slides
  (`crates/saci-core/src/windows/aggregate.rs:302` against `function.rs:41` and
  `docs/content/library/windowing.md:44`). Session ids restart at 0 in every run,
  so `emitted_windows` marks new sessions late. A slide that does not divide the
  size gives windows that are no intervals. `flush_accumulator` replaces a
  group's row by the current run's result; nothing reads earlier rows back "to
  continue accumulation" (`accumulator.rs:39`).
* `send_envelope` timeouts do not count for the circuit breaker
  (`transport/client.rs:255`). The sender of a snapshot is evicted after 30 s of
  silence while its own read limit is 60 s; `SnapshotsAreWhole` excepts evicted
  transfers.
* "Only `min_rows == max_rows` is stationary" (`flow.rs:96`, also 714 and 889),
  and a factor above 1.0 makes "a candidate ... differ from the size in effect"
  (`docs/content/service/operate/flow-control.md:312`). With a `growth_factor`
  below 1.5, which `validate` accepts, a step from a small size rounds back to it
  in both directions, and the search ends there although the range is wider.
  `StallsOnlyByRounding` names this case, the `flow` subject reaches it, and
  `SearchGoesOn` proves that from 1.5 on there is no such case.
* "The host number and a guest's own number cannot drift" (`windowing.rs:13`):
  `advance_from` takes the newest timestamp of every component that has the time
  field, `WindowedSystem` reads its source component only
  (`crates/saci-core/src/windows/system.rs:92`), and each has a lateness budget
  of its own. The host's watermark can run ahead, and it can report usable rows
  while the engine drops all of them, or the reverse. `HostSeesTheDrops` says
  what is left with several components or two budgets.
* "A window fires once the watermark passes its end plus the allowed lateness"
  (`windowing.rs:29`), and rows at or after the watermark are "processed
  normally" (`crates/saci-core/src/windows/builder.rs:69`). The engine fires a
  group with every arrival that has a row for it, and marks each firing but the
  first as late, also when all of its rows are on time
  (`crates/saci-core/src/windows/aggregate.rs:193`). `LateMeansSeen` leaves
  those repeated firings open.
* `apply_write_set` is said to apply "atomically" and, two paragraphs on, to
  leave the dataset partly modified on an error
  (`crates/saci-core/src/dataset/write.rs:62` and `:73`); the code does the
  latter. `SerialEquivalence` asks the reference of all that was written before.
* Two pipelines of one name share the scheduler's bookkeeping.
* The retry of a sequential system runs on the dataset its failed attempt has
  partly changed (`crates/saci-core/src/pipeline/execution.rs:26`).
* Kafka and JetStream acknowledge the previous batch when they are polled again,
  and the standalone runner polls several times in a pass
  (`standalone.rs:946`): a crash within a pass can lose acknowledged rows that
  no sink has. `SeenOrGivenUp` therefore says seen, not written.
* `CompactedState::apply` depends on tombstones coming after the values they
  delete.
* A JetStream source with a full carried window asks for one message more.
* PostgreSQL logical: a transaction larger than cap times batch size is peeked
  again in every cycle (the binlog reader has `mid_tx` against this), and a peek
  that finds only other tables' changes never moves the slot.
* File sink: an append by another process between the measurement and the cut is
  cut away. When the cut worked and the reopening failed, the next recovery
  finds the file too short and gives up as if another writer had appended, or,
  if somebody appended exactly as much meanwhile, cuts that away.

## 5. Proofs

TLAPS proves, for all values of the constants that satisfy the named
assumptions (each in the module that declares the constants):

| Theorem | States | Assumptions |
|---|---|---|
| `TypeCorrect` | `ClaimLedger`: `Spec => []TypeOK` | `StateMachineAssumption`, `LedgerAssumption` |
| `IndexIsFaithful` | `Spec => []IndexMirrorsClaims` | same |
| `AtMostOneClaim` | `Spec => []NoDoubleClaim` | same |
| `AckedIsFinal` | `Spec => CompletedIsFinal` | same |
| `SequenceCountsWrites` | `Spec => CheckpointSeqExact` | same |
| `LedgerImplementsOwnership` | `Spec => ImplementsRowOwnership` | same |
| `AckNeverOvertakesSave` | `DistributedRunner`: `Spec => []AckedIsSaved` | `StateMachineAssumption`, `RunnerAssumption` |
| `RowsCountedOnce` | `Spec => []CountedOnce` | same |
| `WorkIsLeased` | `Spec => LeaseProtectsWork` | same |
| `LeaderHandsBackState` | `Spec => []StateHandedBack` | same |
| `NodesRestart` | `ReplicatedApply`: `Spec => []AlwaysRestartable` | `ReplicationAssumption` |
| `ReplicasStayEqual` | `Spec => []ReplicasAgree` | same, `MintedOnce`, `StateMachineAssumption` |
| `NobodyIsForgotten` | `WorkflowLifecycle`: `Spec => []WaitersAreHeld` | `LifecycleAssumption` |
| `OverIsReleased` | `Spec => []OverMeansReleased` | same |
| `SinksFinishFirst` | `StandaloneRunner`: `Spec => []FinishOrder` | `RunAssumption`, `FaultAssumption` |
| `RowsStayInOrder` | `Spec => []InOrder` | same |
| `NoRowVanishes` | `Spec => []RowsAccounted` | same |
| `CrashKeepsLetters` | `Spec => []CrashLosesNothing` | same |
| `LettersStoredOnce` | `Spec => []StoredOnce` | same |
| `ScanIsReference` | the scan computes its reference on every finite set of non-empty ranges within the batch | none |
| `ScanFindsEveryGap` | `ScanSpec => []ScanFindsFirstGap` | `ScanRowsAssumption` |
| `AnswersReachTheirCall` | `TransportSpec => []AnswersAreOwn` | `TransportAssumption` |
| `SnapshotsArriveWhole` | `TransportSpec => []SnapshotsAreWhole` | same |
| `LoadIsNeverTorn` | `ArchiveSpec => []LoadedIsWhole` | `SaveAssumption` |
| `BackoffNeverRestarts` | `HealSpec => []BackoffGoesOn` | `HealAssumption` |
| `SearchStopsOnlyByRounding` | `FlowSpec => []StallsOnlyByRounding` | `FlowAssumption` |
| `SearchGoesOn` | the search never stops in a range of more than one size | `FlowAssumption`, a growth factor of at least 1.5 |
| `DropsAreReported` | `WindowSpec => []HostSeesTheDrops` | `GeometryAssumption` |
| `LateGroupsWereFired` | `WindowSpec => []LateMeansSeen` | same |
| `RowsFindTheirWindows` | `WindowSpec => []EveryRowPlaced` | same |
| `NeedsComeFirst` | `SchedulerSpec => []NeededFirst` | `SchedulerAssumption` |
| `DroughtReachesAll` | `SchedulerSpec => []DroughtSpreads` | same |
| `StagesRunLikeSeries` | `PipelineSpec => []SerialEquivalence` | `PipelineAssumption` |
| `BrokersSkipNothingSilently` | `BrokerSpec => []SeenOrGivenUp`, the broker part of `NoSilentSkips` | `BrokerAssumption` |
| `StoredPositionIsSafe` | `BinlogSpec => []StoredIsWritten`, its binlog part | `BinlogAssumption` |
| `EveryCycleMovesOn` | `BinlogSpec => []CyclesMoveOn` | same |
| `OwnWritesAreNoNews` | `BinlogSpec => []IdleIsQuiet` | same |
| `ConfirmedIsWritten` | `LogicalSpec => []SlotIsWritten`, its slot part | `LogicalAssumption` |
| `NoSourceSkipsSilently` | `BinlogSpec /\ LogicalSpec /\ BrokerSpec => []NoSilentSkips` | the last three |
| `BatchesLandOnceOrNot` | `FileSpec => []LandsOnceOrNot` | `FileSinkAssumption` |

What the assumptions say beyond the types of their constants:

* `StateMachineAssumption`: finitely many batch ids, which are naturals, and
  claim ids; the all-zero UUID is no instance; a positive lease and counter
  limit. `LedgerAssumption`: row counts and clock values are naturals.
* `RunnerAssumption`: "no claim" is no claim id; a runner saves at least the data
  stage, and no stage index twice (`IsInjective(SaveStages)`: the data and the
  chained stages have indexes of their own); the idle pause is no longer than the
  sweep interval, as in the code. The payload of a save is named by its claim.
  Clocks of two nodes differ by at most `MaxSkew`, any natural number: the
  theorems hold for every skew.
* `ReplicationAssumption`: finitely many replicas, bounds that are naturals, and
  commands of the nine kinds. `MintedOnce`: a claim id stands for one batch
  (`claim_next_batch` draws a fresh UUID).
* `GeometryAssumption`: timestamps and key hashes come from finite sets (the
  columns are 64-bit), the timestamps of other components are integers and the
  host's budgets naturals, with no relation to the engine's; size, slide and gap
  are positive, the slide at most the size.
* `FlowAssumption` asks of the two factors what the code asks, more than 1.0.
  `SearchGoesOn` alone has a hypothesis beyond it, growth of at least 1.5 (the
  default is 2.0): below it the search does stop at small sizes.
* `LifecycleAssumption`: finitely many calls, and "no call" is none of them.
* `RunAssumption`: the source delivers rows numbered in their order; credits are
  positive.

**The ledger.** None of its properties is inductive alone. The overlap check
reads the index, so exclusivity needs the index to mirror the claims; a
re-applied `ClaimRowRange` overwrites the record of its own id, so one must know
that the record has the range the id was minted for, and the instance unless it
was released; and the handlers' results only make sense on well-typed tables:

    Inv == TypeOK /\ IndexMirrorsClaims /\ ClaimsAsMinted /\ NoDoubleClaim

`ArrowStateMachineProofs` has one lemma per handler for its types
(`RegisterType` to `RestoreType`). For the other conjuncts every command but one
can only shrink what is occupied (`RenewShrinks` to `RestoreShrinks`, then
`ShrinkStep`); the one that can add is `ClaimRowRange` (`ClaimStep`).
`StepShape` says that these are all the steps. Finality follows by cases on the
handler: every one that writes a claim record requires it Claimed by the caller,
expired, or not there or released. For the refinement, `held` is the set of
Claimed tenures and `done` the set of Completed ones; each action is a Grant,
Finish, GiveBack or stutter, with `Inv` supplying the disjointness of a Grant.

**Runners.** `RunnerInv` has four parts. `LedgerInv`: the leader's tables are
well-typed, the index faithful and claims exclusive, a Completed claim has its
data checkpoint, and every lost command that may still commit is one its sender
could send: an ack only of saved data, a grant of an id no other command asks
for. `LocalInv`: a runner at an await has what that await needs; past the first
save, and at the ack, the data is saved. `HandInv`: a claim in hand is in one
hand, and no release of it is on its way, the reason why a claim cannot be
counted by two runners. `ProcessedInv`: what was counted is Completed.
`LeaderHandsBackState` needs `ChainInv` besides: what the runtime left is what the
chained ids lead to (`ChainLeads`), nothing of what a runner is still to save is
there yet (`UnsavedYet`), and a save that its caller gave up on is of no claim a
chain leads to (`LateSavesUnchained`), else a late commit would change the state
under a chain. `HandedInv` then carries it from the load to the run.

**Replicas.** `RestartInv` adds that a snapshot lies below the watermark on
disk, not merely below what is applied in memory (`SnapshotsCovered`), since a
purge goes up to the snapshot and a crash goes back to the watermark; and that a
transfer under way is one of committed entries (`TransferCommitted`). For
agreement, `AgreeInv` says that, as long as no entry was replayed, there is a
history `h` of one state machine that applied the log and nothing else, and every
replica has the tables of `h` at its position (`OnHistory`). Two replicas at one
position then agree because both agree with the history. The handlers read the
index too, which a restore rebuilds; `Sound` says that it mirrors the claims, so
that a handler answers the same on tables that differ only in what was rebuilt.

**Lifecycle.** `HeldInv` adds to `WaitersAreHeld` that queue and publisher hold
calls only (`CallType`); the hard cases are a change of state that answers the
waiter (`PublishHolds`) and an accepted command that displaces one
(`AcceptHolds`). `OverMeansReleased` is not inductive: `RunInv` says that a
runner lives exactly while its supervisor is in the select loop, and that
nothing in that loop publishes an end.

**Standalone runner.** `FinishInv` says at which places nothing is staged, and
that the sinks are finished once on the way to the end. Rows pass a line of
stations: staged batches, the processor's dataset, the carry. `OrderInv` says
that each station is increasing, that all of one precede all of the next, and
that they lie between what was offered to the sink and what was taken from the
source; that cutting and flattening keep this is proved by set induction over
lengths. `TakenInv` accounts for every row taken: held, dropped, written, lost or
recorded. `StoreInv` says that a replay is under way only at a replay point and
never hands over more than the store has; `LettersInv` where the letters of a
replay are in each phase: what it has consumed was delivered, discarded or is
kept, where what the last fetch handed over counts as consumed only with the
next one. `OnceInv` says that, until a deletion fails, no row is in two stored
letters, nor in a kept letter and one that is still stored when it is written
back.

**The scan.** `ScanIsReference` is about a fold over a sorted list of any length.
The loop invariant `LoopInv` (the rows below the cursor are occupied, the ranges
seen end at or before it, a gap once found is free and ends at an occupied row)
is carried along the fold by `NatSetInduction`: the induction theorems of the
library take an operator as parameter, which the installed provers cannot
instantiate, but the set of the numbers for which a statement holds contains 0
and is closed under successor, and that is a first-order statement about a set.
The same lemma serves wherever data has any length.

**Transport.** `TransportInv` says that the pool holds every stream once and only
quiet ones (`PoolIsQuiet`), that a call has its stream for itself and nothing but
its own request on it (`CallsOwnStreams`), and which chunks the peer holds before
and after it serves the one request of a connection (`HeldBefore`, `HeldAfter`):
exactly the first chunks of the transfer, unless it was evicted.

**Checkpoints.** `ArchiveInv` says that no name ever points at a torn file
(`NamesInv`), what each step of a save has already put where (`ProgressInv`),
and that every pair of files a power loss can expose is in order, not only the
visible one (`PairsInv`): the property speaks of the visible pair, and a crash
makes any of the others visible.

**Healing and flow.** `HealInv` adds that a node without a scheduled rebuild has
tried none, and that a scheduled attempt is within the budget. `FlowInv` keeps
sizes within the bounds, the ceiling above the floor, and the candidate different
from the incumbent unless the range has one size or both steps round back
(`BothRound`): `ClampedStep` shows that a step which moves is not undone by a
bound or a ceiling in both directions at once. `GrowthMoves` shows that a factor
of 1.5 moves every size by a whole row, by integer division and rounding as the
code computes it.

**Windows.** `WindowInv` says that the host's watermark is never behind the
engine's, and equal to it as long as no other component brought a timestamp; the
verdict on an arrival is then compared with the drops by the order of the two
marks and the two budgets (`MarksInOrder`). `EmittedInv`: an instance remembers
a window of a key exactly when it has kept a row of both. `EveryRowPlaced` is
arithmetic: a row lies in exactly the tumbling or sliding windows whose ids the
floor divisions give (for a slide that divides the size), before and after the
epoch, with any offset; and in exactly one session, the maximal run of rows
around it in the sort order without a break, which needs that the sort order is
total on the finite arrival.

**Scheduler.** `PlanInv` is Kahn's algorithm: the counters count the
dependencies not yet planned (`CountersInv`), the queue holds the pipelines
ready to be planned (`QueueInv`), and each stage's dependencies are in earlier
stages (`StagesInv`). That a plan which stops early has met a ring is shown with
a pipeline of minimal reach. `TickInv` carries the skipping of dry pipelines
along the stages.

**Pipeline.** `PipeInv` says that the dataset is what the systems applied so far
produce one after the other in their declared order (`InSeries`), which is not
the order the stages run them in: `LevelRises` shows that a system that
conflicts with an earlier one is in a later stage, and `JoinLate` that systems
which come late, without a conflicting system in between, may as well have come
in their own order. `CutShort` says what is left once `apply_write_set` has
failed: every field is as without or as with the systems it was applied for
(`ApplyKeeps`).

**Brokers.** `KafkaInv`: the commit takes the position, which runs ahead of what
was handed over by the window a dropped call left, so the invariant says that
whatever lies between is in that window, and that the window is empty while a
commit is due. `NatsInv`: acknowledgements due are for messages handed over, and
the server has counted every delivery a window holds, so that a terminated
message has had its attempts.

**Binlog.** The three properties rest on one invariant. `ReaderInv` is about the
reader's queue: each queued change has an acknowledgement that is reached by what
was handed over and the changes up to it (`QueuedInv`), a transaction ends in the
queue before the next begins (`OrderedInv`), everything up to the stream's
position was handed over or is queued (`PositionInv`), what the cycle handed over
is behind the position or of the transaction the queue goes on with (`RowsInv`),
and the stores made so far are paid for by the news behind the position, with one
to spare when the position is dirty (`BudgetInv`). `StoredInv` says the same of
the offset table. The parts of a call have a lemma each (`Opens`, `Reads`,
`Finishes`, `Takes`), with the reader as a parameter, so that a step that is
several of them is proved by citing them in order.

**Replication slot.** `SlotInv` says that what a reader would acknowledge, were
the next cycle to start now, covers only rows handed over (`AckCovered`), and
that each queued batch may acknowledge no more than the rows handed over and
those of the batches up to it (`QueueIsCovered`). `DecodedCovers` shows the latter
for what a peek decodes, whatever the batches cut across.

**File sink.** While a batch is pending, the file starts with what had landed when
it was opened, and has grown since by some of the sink's pieces and some of
others'; `Grown` bounds the former from above by what the writers counted and the
latter from below by what the length betrays, at the end of the file and where a
cut would leave it. The hard cases are a writer that flushes part
of its buffer when it is dropped (`Flushes`, by set induction over the part), and
foreign pieces that arrive between a cut and the settling of the batch: the
length betrays them only while the file is as long as the writes say.
`LandsOnceOrNot` follows at every point where nothing is pending.

Every safety invariant and every refinement the passing runs check is stated by a
theorem. Out of this prover's reach and left to TLC: liveness under fairness
(`AllRowsDone`, `EveryoneCatchesUp`, `RunVerbsAnswered`, `CancelReleasesRunner`,
`RequestServed`).

## 6. What the models leave out

* `max_batches` of the runner (the cluster never sets it), and checkpoint
  strategies that do not checkpoint stage 0: `AckedIsSaved` is about those that
  do.
* Back-off times, metrics, tracing, wording of errors.
* Uncommitted log entries, truncation, votes, membership and blank entries.
* Clocks of nodes further apart than `MaxSkew`, and clocks that go backwards, in
  `DistributedRunner`; `ClaimLedger` lets every command bring any stamp. Batches
  are registered before the runners start. A follower catches up to the leader
  in one step.
* `StandaloneRunner` has one source, at most one processor and one sink; joins,
  fan-out, the processor state on disk (`standalone.rs:1211`) and the stream
  runner are left out.
* Aggregate functions, column types and all data conversions.
* Connectors: schema history and definition changes, polling cursors, compacted
  Kafka snapshots, core NATS, the writing halves of the databases and brokers.

### Not modelled, and why

The workspace has about 176 000 lines; the models follow the part whose
behaviour depends on order, failure or concurrency. Most of the rest is tests in
the source files, configuration structs with their parsing and validation
(`service/config.rs`, `builder.rs`, `validation.rs`), value conversion tables
between Arrow and each database or format (`values.rs`, `schema.rs`, the
transformers), HTTP presentation (`http.rs`, `lifecycle_api.rs`, `dlq_api.rs`,
`topology.rs`), plugin loading and the wasm host (foreign code behind an ABI;
its run is one step of the runners), derive macros and examples. These are
functions from input to output: a state machine of them would have one step,
and its properties would repeat the code. Signal handling (`shutdown.rs`)
appears as the cancellation that `DistributedRunner`, `WorkflowLifecycle` and
`StandaloneRunner` react to.

## 7. Running

    tlc -workers 2 -config MCClaimLedger.cfg MCClaimLedger
    tlc -workers 2 -config MCComponents.cfg MCComponents
    tlapm ClaimLedgerProofs.tla

`components` takes about two and a half minutes. A proof module checks within a few
minutes; `ComponentProofs` takes about twelve.

## 8. Plan

1. Composition: `StandaloneRunner` over `BrokerSources`, to state at which crash
   points a pass loses what a broker has forgotten; `RaftTransport` under
   `ReplicatedApply`'s snapshot transfer.
2. More of the code: the stream runner with its state on disk, joins of several
   sources, cluster bootstrap and drain, the polling cursors of the SQL sources.
