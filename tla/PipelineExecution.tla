------------------------ MODULE PipelineExecution ------------------------
(***************************************************************************)
(* One run of a saci-core Pipeline over a dataset.  The registered systems *)
(* declare the fields they read and write; build_stages_inner turns the    *)
(* declarations into stages, and run_stages runs the stages one after the  *)
(* other: the systems of a stage either concurrently, each against the     *)
(* dataset as the stage found it and with their write sets merged at the   *)
(* end, or inline in registration order.  A failing system is retried; a   *)
(* write set that cannot be applied ends the run with some of its columns  *)
(* replaced.                                                               *)
(*                                                                         *)
(* A field's value is the history that produced it: which system wrote it  *)
(* and what that system saw.  Two runs that end with the same values did   *)
(* the same computation.                                                   *)
(***************************************************************************)
EXTENDS Naturals, FiniteSetsExt

CONSTANTS
  NumSystems,    \* systems are 1..NumSystems, in registration order
  Fields,        \* component fields and resources, which are scheduled alike
  Resources,     \* those of them that are resources, updated after all columns
  Metas,         \* the declarations a system may make
  Attempts       \* retry_mode.max_attempts()

ASSUME PipelineAssumption ==
  /\ NumSystems \in Nat
  /\ Resources \subseteq Fields
  /\ Attempts \in Nat \ {0}
  /\ Metas \subseteq [reads : SUBSET Fields, writes : SUBSET Fields, parallel : BOOLEAN]

Systems == 1..NumSystems

VARIABLES
  metas,      \* the declaration of every system
  levels,     \* the plan made of them: the stage of every system
  wide,       \* the dataset has STAGE_INLINE_THRESHOLD rows or more
  dataset,    \* the value of every field
  level,      \* the stage being run
  ran,        \* systems of the stage that have finished
  writeSets,  \* what the concurrent tasks of the stage have produced so far
  attempt,    \* failed attempts of each system of the stage
  applied,    \* systems whose writes have reached the dataset
  partly,     \* systems whose writes an error in apply_write_set cut short
  dirty,      \* a failed attempt of a sequential system left writes behind
  pipeline    \* "running", "done" or "failed"

pipelineVars ==
  <<metas, levels, wide, dataset, level, ran, writeSets, attempt, applied, partly, dirty, pipeline>>

-----------------------------------------------------------------------------
(* Faulty variant: the edges from a reader to a later writer are forgotten. *)
FollowsWrites(i, j) ==
  i < j /\ metas[i].writes \cap (metas[j].reads \cup metas[j].writes) # {}

(* The plan.  An edge goes from an earlier to a later system that touches  *)
(* a field the earlier one writes, or writes a field the earlier one reads. *)

Follows(i, j) ==
  /\ i < j
  /\ \/ metas[i].writes \cap (metas[j].reads \cup metas[j].writes) # {}
     \/ metas[i].reads \cap metas[j].writes # {}

(* levels[j] = max over the edges (i, j) of levels[i] + 1. *)
Level ==
  LET levelOf[j \in Systems] ==
        LET before == {i \in 1..(j - 1) : Follows(i, j)}
        IN  IF before = {} THEN 0 ELSE 1 + Max({levelOf[i] : i \in before})
  IN  levelOf

Stage(l) == {i \in Systems : levels[i] = l}

-----------------------------------------------------------------------------
(* What a system writes: each of its fields becomes a value that records   *)
(* the system and everything it read.                                      *)
Produced(i, values) ==
  [f \in metas[i].writes |-> [by |-> i, saw |-> [g \in metas[i].reads |-> values[g]]]]

(* apply_write_set replaces the written columns and leaves the others. *)
Applied(values, writeSet) ==
  [f \in Fields |-> IF f \in DOMAIN writeSet THEN writeSet[f] ELSE values[f]]

PipelineInit ==
  /\ metas \in [Systems -> Metas]
  /\ levels = Level
  /\ wide \in BOOLEAN
  /\ dataset = [f \in Fields |-> [by |-> 0]]
  /\ level = 0
  /\ ran = {}
  /\ writeSets = << >>
  /\ attempt = [i \in Systems |-> 0]
  /\ applied = {}
  /\ partly = {}
  /\ dirty = FALSE
  /\ pipeline = "running"

(* run_stage dispatches a whole stage at once only when every system of it *)
(* is parallel, there are several, and there are rows enough.              *)
Concurrent ==
  /\ \A i \in Stage(level) : metas[i].parallel
  /\ Cardinality(Stage(level)) > 1
  /\ wide

(* Attempts::failed: one more attempt, or the error leaves the retry loop. *)
Retried(i) == attempt[i] + 1 < Attempts

(* A task of the concurrent stage: it reads the shared dataset and returns *)
(* a write set, after as many failed attempts as the retry mode allows.    *)
TaskReturns(i) ==
  /\ writeSets' = [k \in DOMAIN writeSets \cup {i} |->
                     IF k = i THEN Produced(i, dataset) ELSE writeSets[k]]
  /\ ran' = ran \cup {i}
  /\ UNCHANGED <<metas, levels, wide, dataset, level, attempt, applied, partly, dirty, pipeline>>

TaskAttemptFails(i) ==
  /\ attempt' = [attempt EXCEPT ![i] = @ + 1]
  /\ ran' = IF Retried(i) THEN ran ELSE ran \cup {i}
  /\ UNCHANGED <<metas, levels, wide, dataset, level, writeSets, applied, partly, dirty, pipeline>>

RunTask(i) ==
  /\ pipeline = "running" /\ Concurrent
  /\ i \in Stage(level) \ ran
  /\ TaskReturns(i) \/ TaskAttemptFails(i)

(* The writes of some systems reach the dataset, all of them or, when an   *)
(* array has the wrong length or type or its component is not there, only  *)
(* some columns and no resource: the error ends the run.                   *)
ApplyWriteSet(which, writeSet) ==
  /\ dataset' = Applied(dataset, writeSet)
  /\ applied' = applied \cup which
  /\ UNCHANGED <<partly, pipeline>>

ApplyFails(which, writeSet) ==
  /\ \E landed \in SUBSET (DOMAIN writeSet \ Resources) :
       dataset' = Applied(dataset, [f \in landed |-> writeSet[f]])
  /\ partly' = which
  /\ pipeline' = "failed"
  /\ UNCHANGED applied

(* The write sets of the stage in one; of two writes the later stays. *)
Merged ==
  [f \in UNION {metas[i].writes : i \in ran} |->
     writeSets[Max({i \in ran : f \in metas[i].writes})][f]]

(* Every handle has been awaited: the first failed task fails the stage,   *)
(* otherwise the write sets are merged and applied together.               *)
JoinTasks ==
  /\ pipeline = "running" /\ Concurrent
  /\ ran = Stage(level)
  /\ IF \E i \in ran : i \notin DOMAIN writeSets
     THEN pipeline' = "failed" /\ UNCHANGED <<dataset, applied, partly>>
     ELSE ApplyWriteSet(ran, Merged) \/ ApplyFails(ran, Merged)
  /\ level' = level + 1
  /\ ran' = {}
  /\ writeSets' = << >>
  /\ UNCHANGED <<metas, levels, wide, attempt, dirty>>

(* The next system of a stage that runs inline, lowest index first.  A     *)
(* parallel system's write set is applied as soon as it returns; a         *)
(* sequential one has written into the dataset by then.                    *)
RunInline(i) ==
  /\ pipeline = "running" /\ ~Concurrent
  /\ i \in Stage(level) \ ran
  /\ \A k \in Stage(level) \ ran : i <= k
  /\ \/ ApplyWriteSet({i}, Produced(i, dataset))
     \/ metas[i].parallel /\ ApplyFails({i}, Produced(i, dataset))
  /\ ran' = ran \cup {i}
  /\ UNCHANGED <<metas, levels, wide, level, writeSets, attempt, dirty>>

(* A failed attempt.  A sequential system holds the dataset mutably, so    *)
(* what it wrote before failing stays; a parallel one returned nothing.    *)
InlineAttemptFails(i, left) ==
  /\ pipeline = "running" /\ ~Concurrent
  /\ i \in Stage(level) \ ran
  /\ \A k \in Stage(level) \ ran : i <= k
  /\ metas[i].parallel => left = {}
  /\ dataset' = [f \in Fields |-> IF f \in left THEN Produced(i, dataset)[f] ELSE dataset[f]]
  /\ dirty' = (dirty \/ left # {})
  /\ attempt' = [attempt EXCEPT ![i] = @ + 1]
  /\ pipeline' = IF Retried(i) THEN "running" ELSE "failed"
  /\ UNCHANGED <<metas, levels, wide, level, ran, writeSets, applied, partly>>

(* run_stages goes on to the next stage, or the run is over. *)
EndStage ==
  /\ pipeline = "running" /\ ~Concurrent
  /\ ran = Stage(level)
  /\ IF \E i \in Systems : levels[i] > level
     THEN level' = level + 1 /\ UNCHANGED pipeline
     ELSE pipeline' = "done" /\ UNCHANGED level
  /\ ran' = {}
  /\ UNCHANGED <<metas, levels, wide, dataset, writeSets, attempt, applied, partly, dirty>>

PipelineNext ==
  \/ \E i \in Systems :
       \/ RunTask(i)
       \/ RunInline(i)
       \/ \E left \in SUBSET metas[i].writes : InlineAttemptFails(i, left)
  \/ JoinTasks
  \/ EndStage

PipelineSpec == PipelineInit /\ [][PipelineNext]_pipelineVars

-----------------------------------------------------------------------------
(* The reference: the systems of `which` run one at a time, in the order   *)
(* they were registered, nothing else touching the dataset.                *)
Serial(which) ==
  LET after[k \in 0..NumSystems] ==
        IF k = 0 THEN [f \in Fields |-> [by |-> 0]]
        ELSE IF k \in which THEN Applied(after[k - 1], Produced(k, after[k - 1]))
        ELSE after[k - 1]
  IN  after[NumSystems]

(* Whatever stages the plan made, however the tasks of a stage were        *)
(* interleaved, inlined or retried, the dataset is what running the same   *)
(* systems one at a time in registration order gives: no system saw a      *)
(* value of a stage-mate or of a later system, no write of a stage whose   *)
(* task failed landed, and a finished run has applied every system.  When  *)
(* apply_write_set fails the run fails too, and every field is either as   *)
(* if the systems it was applied for had not run, or as if they had.       *)
(* (A sequential system that failed half way and was retried is the        *)
(* exception, since its first writes stay: run_arrow_system_with_retries.) *)
SerialEquivalence ==
  ~dirty => /\ \A f \in Fields :
                 dataset[f] \in {Serial(applied)[f], Serial(applied \cup partly)[f]}
            /\ partly # {} => pipeline = "failed"
            /\ pipeline = "done" => applied = Systems
=============================================================================
