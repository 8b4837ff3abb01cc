-------------------------- MODULE StandaloneRunner --------------------------
(***************************************************************************)
(* run_standalone (service/standalone.rs) over a workflow of one source,   *)
(* at most one processor and one sink, with the dead letter queue it       *)
(* drives inline.  Rows are numbered in source order; a processor forwards *)
(* its rows.  Continuous stands for the interval mode too.  The pause gate *)
(* at the head of a pass is WorkflowLifecycle's ParkHere.                  *)
(***************************************************************************)
EXTENDS DeadLetterQueue

CONSTANTS
  Configs,      \* the workflows to run
  Arrivals,     \* what the source hands over, batch by batch
  MaxCredit,    \* bound on the rows a flow controller admits in one pass
  MaxRequests   \* bound on the replay requests of a run

AllRows == FlattenSeq(Arrivals)

ASSUME RunAssumption ==
  /\ Configs \subseteq [mode : {"OneShot", "Continuous"}, processor : BOOLEAN,
                        dlq : {"none", "BeforeSources", "AfterSources"},
                        whole : BOOLEAN]
  /\ Arrivals \in Seq(Seq(Nat))
  /\ AllRows = [k \in 1 .. Len(AllRows) |-> k]
  /\ MaxCredit \in Nat \ {0}
  /\ MaxRequests \in Nat

VARIABLES
  config,          \* the workflow that runs
  pc,              \* where the runner is
  pulled,          \* arrivals taken from the source
  carry,           \* the tail of an arrival the credit cut
  dataset,         \* the processor's rows
  staged,          \* batches waiting for the sink
  remaining,       \* rows the pass may still admit
  backlogged,      \* the pass left work behind
  cancel,          \* the run was cancelled
  sinkDown,        \* the sink refused its last batch
  offered,         \* the last row write_staged offered to the sink
  written,         \* rows the sink accepted
  dropped,         \* rows counted as an error and nowhere else
  sinkFinishes,    \* times the sink was finished
  sourceFinished,  \* the source was told to forget what it handed over
  asked            \* replay requests made

passVars == <<pulled, carry, dataset, remaining, backlogged>>
sinkVars == <<staged, sinkDown, offered, written, dropped>>
endVars == <<sinkFinishes, sourceFinished>>
vars == <<config, pc, passVars, sinkVars, endVars, cancel, asked, dlqVars>>

Taken == 1 .. Len(FlattenSeq(SubSeq(Arrivals, 1, pulled)))

Init ==
  /\ config \in Configs
  /\ pc = "head"
  /\ pulled = 0
  /\ carry = <<>> /\ dataset = <<>> /\ staged = <<>>
  /\ remaining = 0
  /\ backlogged = FALSE
  /\ cancel = FALSE
  /\ sinkDown = FALSE
  /\ offered = 0
  /\ written = {} /\ dropped = {}
  /\ sinkFinishes = 0
  /\ sourceFinished = FALSE
  /\ asked = 0
  /\ DlqInit

----------------------------------------------------------------------------
(* The head of a pass, and the replay points.                              *)

(* A one-shot run engages no flow controller. *)
Credit == IF config.mode = "OneShot" THEN {Len(AllRows) + 1} ELSE 1 .. MaxCredit

HeadOfPass ==
  /\ pc = "head"
  /\ IF cancel
     THEN pc' = "flush" /\ UNCHANGED <<remaining, backlogged>>
     ELSE /\ pc' = IF config.dlq = "BeforeSources" THEN "atHead" ELSE "drain"
          /\ remaining' \in Credit
          /\ backlogged' = FALSE
  /\ UNCHANGED <<config, pulled, carry, dataset, sinkVars, endVars, cancel, asked, dlqVars>>

AtReplayPoint == pc \in {"atHead", "atTail"}
PastReplay == IF pc = "atHead" THEN "drain" ELSE "close"

ReplayStep ==
  /\ AtReplayPoint
  /\ UNCHANGED <<config, passVars, staged, offered, dropped, endVars, cancel, asked>>

SkipReplay ==
  /\ ReplayStep
  /\ NoReplayNow(cancel)
  /\ pc' = PastReplay
  /\ UNCHANGED <<sinkDown, written>>

BeginReplay ==
  /\ ReplayStep
  /\ StartReplay(cancel)
  /\ UNCHANGED <<pc, sinkDown, written>>

(* The drain checks for a shutdown before each fetch. *)
EndDrain ==
  /\ ReplayStep
  /\ IF cancel THEN DrainCancelled ELSE DrainFails \/ DrainEnds
  /\ Draining
  /\ UNCHANGED <<pc, sinkDown, written, healed>>

ReplayLetter ==
  /\ ReplayStep
  /\ ~cancel
  /\ \/ LetterPurged /\ UNCHANGED <<sinkDown, written, healed>>
     \/ (LetterKept \/ LetterUnreadable) /\ UNCHANGED <<sinkDown, written, healed>>
     \/ /\ LetterDelivered
        /\ written' = written \cup ToSet(NextLetter)
        /\ sinkDown' = FALSE
        /\ healed' \in {healed, healed \/ sinkDown}
     \/ /\ LetterRefused
        /\ sinkDown' = TRUE
        /\ UNCHANGED <<written, healed>>
  /\ Draining
  /\ UNCHANGED pc

FinishReplaySource ==
  /\ ReplayStep
  /\ FinishReading
  /\ UNCHANGED <<pc, sinkDown, written>>

EndReplay ==
  /\ ReplayStep
  /\ \E kept \in 0 .. Len(replay.retained) : Rewrite(kept)
  /\ pc' = PastReplay
  /\ UNCHANGED <<sinkDown, written>>

----------------------------------------------------------------------------
(* The source node: drain it into the processor or the sink.               *)

AfterDrain == IF config.processor THEN "run" ELSE "write"

DrainStep ==
  /\ pc = "drain"
  /\ UNCHANGED <<config, sinkDown, offered, written, endVars, cancel, asked, dlqVars>>

CreditSpent ==
  /\ DrainStep
  /\ remaining = 0
  /\ backlogged' = TRUE
  /\ pc' = AfterDrain
  /\ UNCHANGED <<pulled, carry, dataset, remaining, staged, dropped>>

(* Faulty variant: the admitted chunk is the end of the batch. *)
ChunkFromEnd(batch) == SubSeq(batch, Len(batch) - remaining + 1, Len(batch))

Chunk(batch) == SubSeq(batch, 1, remaining)

(* Admit what the credit allows and carry the tail; a source feeding a     *)
(* windowed node is never sliced.                                          *)
Admit(batch) ==
  LET cut == ~config.whole /\ Len(batch) > remaining
      chunk == IF cut THEN Chunk(batch) ELSE batch
  IN /\ carry' = IF cut THEN SubSeq(batch, remaining + 1, Len(batch)) ELSE <<>>
     /\ backlogged' = (backlogged \/ cut)
     /\ remaining' = IF Len(chunk) > remaining THEN 0 ELSE remaining - Len(chunk)
     /\ IF config.processor
        THEN /\ \/ dataset' = dataset \o chunk /\ UNCHANGED dropped
                \/ dropped' = dropped \cup ToSet(chunk) /\ UNCHANGED dataset
             /\ UNCHANGED staged
        ELSE /\ staged' = Append(staged, chunk)
             /\ UNCHANGED <<dataset, dropped>>
     /\ UNCHANGED pc

AdmitCarry ==
  /\ DrainStep
  /\ remaining > 0
  /\ carry # <<>>
  /\ Admit(carry)
  /\ UNCHANGED pulled

(* Faulty variant: the source is pulled although a tail is waiting. *)
PullReadyAnyway == pc = "drain" /\ remaining > 0

PullReady == pc = "drain" /\ remaining > 0 /\ carry = <<>>

Pull ==
  /\ DrainStep
  /\ PullReady
  /\ pulled < Len(Arrivals)
  /\ pulled' = pulled + 1
  /\ Admit(Arrivals[pulled + 1])

(* The end of the source, or of its poll window in a repeating run. *)
PullNothing ==
  /\ DrainStep
  /\ PullReady
  /\ config.mode = "OneShot" => pulled = Len(Arrivals)
  /\ pc' = AfterDrain
  /\ UNCHANGED <<passVars, staged, dropped>>

PullCancelled ==
  /\ DrainStep
  /\ PullReady
  /\ cancel
  /\ pc' = "flush"
  /\ UNCHANGED <<passVars, staged, dropped>>

PullFails ==
  /\ pc = "drain"
  /\ PullReady
  /\ Fault
  /\ pc' = AfterDrain
  /\ UNCHANGED <<config, passVars, sinkVars, endVars, cancel, asked, entries, waiting,
                 known, started, schedule, request, healed, phase, replay, lost, purged,
                 recorded, unfinished>>

----------------------------------------------------------------------------
(* The processor node.                                                     *)

RunStep ==
  /\ pc = "run"
  /\ UNCHANGED <<config, pulled, carry, remaining, backlogged, sinkDown, offered,
                 written, endVars, cancel, asked, dlqVars>>

RunOk ==
  /\ RunStep
  /\ staged' = IF dataset = <<>> THEN staged ELSE Append(staged, dataset)
  /\ dataset' = <<>>
  /\ pc' = "write"
  /\ UNCHANGED dropped

RunFails ==
  /\ RunStep
  /\ dropped' = dropped \cup ToSet(dataset)
  /\ dataset' = <<>>
  /\ pc' = "write"
  /\ UNCHANGED staged

RunCancelled ==
  /\ RunStep
  /\ cancel
  /\ pc' = "flush"
  /\ UNCHANGED <<dataset, staged, dropped>>

----------------------------------------------------------------------------
(* write_staged, in a pass and in the final flush.                         *)

Offer ==
  /\ pc \in {"write", "flush"}
  /\ staged # <<>>
  /\ staged' = Tail(staged)
  /\ offered' = Last(<<offered>> \o Head(staged))
  /\ UNCHANGED <<config, pc, passVars, endVars, cancel, asked>>

WriteOk ==
  /\ Offer
  /\ written' = written \cup ToSet(Head(staged))
  /\ sinkDown' = FALSE
  /\ healed' \in {healed, healed \/ sinkDown}
  /\ UNCHANGED <<dropped, entries, waiting, known, started, schedule, request,
                 phase, replay, lost, purged, recorded, unfinished, faults>>

(* A refused batch goes to the dead letter queue, when there is one. *)
WriteRefused ==
  /\ Offer
  /\ sinkDown' = TRUE
  /\ UNCHANGED <<written, healed>>
  /\ IF config.dlq = "none"
     THEN /\ dropped' = dropped \cup ToSet(Head(staged))
          /\ UNCHANGED <<entries, waiting, known, started, schedule, request,
                         phase, replay, lost, purged, recorded, unfinished, faults>>
     ELSE Record(Head(staged)) /\ UNCHANGED dropped

WritesDone ==
  /\ pc = "write"
  /\ staged = <<>>
  /\ pc' = IF config.dlq = "AfterSources" THEN "atTail" ELSE "close"
  /\ UNCHANGED <<config, passVars, sinkVars, endVars, cancel, asked, dlqVars>>

----------------------------------------------------------------------------
(* The end of a pass and of the run.                                       *)

EndStep == UNCHANGED <<config, passVars, sinkVars, cancel, asked>>

(* A one-shot run, or a cancelled one, finishes its sinks here. *)
ClosePass ==
  /\ pc = "close"
  /\ EndStep
  /\ IF config.mode = "OneShot" \/ cancel
     THEN pc' = "finishSources" /\ sinkFinishes' = sinkFinishes + 1
     ELSE pc' = "pace" /\ UNCHANGED sinkFinishes
  /\ UNCHANGED <<sourceFinished, dlqVars>>

(* Faulty variant: a cancel between two passes goes straight to the sources. *)
PaceCancelledUnflushed ==
  /\ pc = "pace"
  /\ ~backlogged
  /\ cancel
  /\ pc' = "finishSources"
  /\ EndStep
  /\ UNCHANGED <<endVars, dlqVars>>

PaceCancelled ==
  /\ pc = "pace"
  /\ ~backlogged
  /\ cancel
  /\ pc' = "flush"
  /\ EndStep
  /\ UNCHANGED <<endVars, dlqVars>>

(* The wait is skipped when the pass left work behind. *)
Pace ==
  /\ pc = "pace"
  /\ pc' = "head"
  /\ EndStep
  /\ UNCHANGED <<endVars, dlqVars>>

FinishSinks ==
  /\ pc = "flush"
  /\ staged = <<>>
  /\ sinkFinishes' = sinkFinishes + 1
  /\ pc' = "finishSources"
  /\ EndStep
  /\ UNCHANGED <<sourceFinished, dlqVars>>

FinishAllSources ==
  /\ pc = "finishSources"
  /\ sourceFinished' = TRUE
  /\ pc' = "finishDlq"
  /\ EndStep
  /\ UNCHANGED <<sinkFinishes, dlqVars>>

FinishDlq ==
  /\ pc = "finishDlq"
  /\ pc' = "done"
  /\ EndStep
  /\ UNCHANGED <<endVars, dlqVars>>

----------------------------------------------------------------------------
(* Outside the runner.                                                     *)

Running == pc # "done"

Cancel ==
  /\ Running
  /\ cancel' = TRUE
  /\ UNCHANGED <<config, pc, passVars, sinkVars, endVars, asked, dlqVars>>

RequestReplay ==
  /\ Running
  /\ config.dlq # "none"
  /\ asked < MaxRequests
  /\ asked' = asked + 1
  /\ \E trigger \in Requests : Ask(trigger)
  /\ UNCHANGED <<config, pc, passVars, sinkVars, endVars, cancel>>

TimePasses ==
  /\ Running
  /\ ScheduleDue
  /\ UNCHANGED <<config, pc, passVars, sinkVars, endVars, cancel, asked>>

Runner ==
  \/ HeadOfPass
  \/ SkipReplay \/ BeginReplay \/ EndDrain \/ ReplayLetter \/ FinishReplaySource \/ EndReplay
  \/ CreditSpent \/ AdmitCarry \/ Pull \/ PullNothing \/ PullCancelled \/ PullFails
  \/ RunOk \/ RunFails \/ RunCancelled
  \/ WriteOk \/ WriteRefused \/ WritesDone
  \/ ClosePass \/ PaceCancelled \/ Pace
  \/ FinishSinks \/ FinishAllSources \/ FinishDlq

Next == Runner \/ Cancel \/ RequestReplay \/ TimePasses

Spec == Init /\ [][Next]_vars

(* The runner is one task and every call it makes returns: a source ends   *)
(* its poll window, a sink and a store answer or fail.                     *)
FairSpec == Spec /\ WF_vars(Runner)

----------------------------------------------------------------------------
(* Properties.                                                             *)

Held == ToSet(carry) \cup ToSet(dataset) \cup Rows(staged)
Settled == written \cup dropped \cup lost \cup purged \cup Rows(entries)

(* Slicing an arrival by the credit and carrying its tail keeps source     *)
(* order: what the sink was offered comes before what is staged, that      *)
(* before the processor's rows, then the carry, then the rest of the       *)
(* source.                                                                 *)
InOrder ==
  LET line == <<offered>> \o FlattenSeq(staged) \o dataset \o carry
              \o SubSeq(AllRows, Cardinality(Taken) + 1, Len(AllRows))
  IN \A j, k \in DOMAIN line : j < k => line[j] < line[k]

(* No row the source handed over vanishes: it is in the runner's hands, in *)
(* a replay's, accepted by the sink, in the dead letter store, or counted. *)
RowsAccounted == Taken \subseteq Held \cup Settled \cup Rows(replay.retained)

(* Every way out of the loop finishes the sinks exactly once, with nothing *)
(* staged, before the sources forget what they handed over.                *)
FinishOrder ==
  /\ sinkFinishes <= 1
  /\ pc \in {"finishSources", "finishDlq", "done"} => sinkFinishes = 1 /\ staged = <<>>
  /\ pc = "done" => sourceFinished

(* A crash of the process loses no recorded letter, except between the     *)
(* deletion that ends a replay and the write-back of what it kept: at any  *)
(* other moment every recorded row is on disk, was accepted, discarded on  *)
(* request, or counted lost.                                               *)
CrashLosesNothing ==
  phase # "rewrite" => recorded \subseteq written \cup purged \cup lost \cup Rows(entries)

(* A replay that is cut short, by a shutdown or a failed fetch, never      *)
(* leaves a letter in the store twice, unless deleting the consumed ones   *)
(* failed.                                                                 *)
StoredOnce ==
  ~unfinished => \A j, k \in DOMAIN entries :
                   j # k => ToSet(entries[j]) \cap ToSet(entries[k]) = {}

(* A replay request is taken up unless the run ends: neither an empty      *)
(* store nor the state of the schedule keeps it waiting.                   *)
RequestServed == request # "none" ~> (request = "none" \/ cancel \/ pc = "done")

(* Of run_standalone's finish order: a source is told to forget what it    *)
(* handed over only once all of that reached the sink, the dead letter     *)
(* store, or an error count.                                               *)
FinishedIsDelivered == sourceFinished => Taken \subseteq Settled
=============================================================================
