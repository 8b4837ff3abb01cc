------------------------ MODULE PipelineScheduler ------------------------
(***************************************************************************)
(* The saci-core Scheduler: pipelines that depend on one another are       *)
(* layered into stages by Kahn's algorithm (build_stages), and a tick runs *)
(* the stages in order, the pipelines of a stage by priority and then in   *)
(* registration order.  A pipeline is passed over when a pipeline it takes *)
(* Data from produced nothing, or when it is under backpressure; the first *)
(* error ends the tick.  A plan that fails is cached like one that works.  *)
(***************************************************************************)
EXTENDS Integers, Sequences, FiniteSets

CONSTANTS
  NumPipelines,   \* pipelines are 1..NumPipelines, in registration order
  Priority        \* PipelineConfig::priority of each

ASSUME SchedulerAssumption ==
  /\ NumPipelines \in Nat
  /\ Priority \in [1..NumPipelines -> Int]

Pipelines == 1..NumPipelines

VARIABLES
  depends,    \* depends[i][j]: "none", "order" or "data", how i depends on j
  inDegree,   \* dependencies of each pipeline no earlier stage has met
  queue,      \* pipelines of the stage being drained
  stages,     \* the stages found so far
  tick,       \* "planning", "running", "done", "failed" or "refused"
  fate        \* what the tick did with each pipeline so far

schedulerVars == <<depends, inDegree, queue, stages, tick, fate>>

Dependencies(i) == {j \in Pipelines : depends[i][j] # "none"}

SchedulerInit ==
  /\ depends \in [Pipelines -> [Pipelines -> {"none", "order", "data"}]]
  /\ \A i \in Pipelines : depends[i][i] = "none"
  /\ inDegree = [i \in Pipelines |-> Cardinality(Dependencies(i))]
  /\ queue = {i \in Pipelines : Dependencies(i) = {}}
  /\ stages = << >>
  /\ tick = "planning"
  /\ fate = [i \in Pipelines |-> "waiting"]

(* Faulty variant: a pipeline is queued as soon as one of its dependencies is. *)
DrainQueueEagerly ==
  LET left == [i \in Pipelines |-> inDegree[i] - Cardinality(Dependencies(i) \cap queue)]
  IN  /\ tick = "planning" /\ queue # {}
      /\ stages' = Append(stages, queue)
      /\ inDegree' = left
      /\ queue' = {i \in Pipelines : Dependencies(i) \cap queue # {}}
      /\ UNCHANGED <<depends, tick, fate>>

(* One turn of the while loop: the queue becomes a stage and every         *)
(* pipeline whose last dependency it held is queued for the next one.      *)
DrainQueue ==
  LET left == [i \in Pipelines |-> inDegree[i] - Cardinality(Dependencies(i) \cap queue)]
  IN  /\ tick = "planning" /\ queue # {}
      /\ stages' = Append(stages, queue)
      /\ inDegree' = left
      /\ queue' = {i \in Pipelines : Dependencies(i) \cap queue # {} /\ left[i] = 0}
      /\ UNCHANGED <<depends, tick, fate>>

Planned == UNION {stages[k] : k \in DOMAIN stages}

(* visited = n: the plan is complete; otherwise a cycle holds the rest back. *)
FinishPlan ==
  /\ tick = "planning" /\ queue = {}
  /\ tick' = IF Planned = Pipelines THEN "running" ELSE "refused"
  /\ UNCHANGED <<depends, inDegree, queue, stages, fate>>

-----------------------------------------------------------------------------
(* The next pipeline of the tick: the first stage with one left, then the  *)
(* lowest priority value, then the earliest registered.                    *)
Waiting == {i \in Pipelines : fate[i] = "waiting"}

StageOf(i) == CHOOSE k \in DOMAIN stages : i \in stages[k]

Before(i, j) ==
  \/ StageOf(i) < StageOf(j)
  \/ StageOf(i) = StageOf(j) /\ Priority[i] < Priority[j]
  \/ StageOf(i) = StageOf(j) /\ Priority[i] = Priority[j] /\ i <= j

Turn(i) == tick = "running" /\ i \in Waiting /\ \A j \in Waiting : Before(i, j)

(* Faulty variant: only a pipeline that ran can be known to have produced nothing. *)
ProducedZeroRan(j) == fate[j] = "empty"

(* produced_zero: skipped, or run without producing a row. *)
ProducedZero(j) == fate[j] \in {"starved", "backpressured", "empty"}

(* should_skip_data_dep *)
Starved(i) == \E j \in Pipelines : depends[i][j] = "data" /\ ProducedZero(j)

Visit(i) ==
  /\ Turn(i)
  /\ \/ Starved(i) /\ fate' = [fate EXCEPT ![i] = "starved"] /\ UNCHANGED tick
     \/ /\ ~Starved(i)
        /\ \/ \E end \in {"backpressured", "empty", "produced"} :
                fate' = [fate EXCEPT ![i] = end] /\ UNCHANGED tick
           \/ fate' = [fate EXCEPT ![i] = "error"] /\ tick' = "failed"
  /\ UNCHANGED <<depends, inDegree, queue, stages>>

EndTick ==
  /\ tick = "running" /\ Waiting = {}
  /\ tick' = "done"
  /\ UNCHANGED <<depends, inDegree, queue, stages, fate>>

SchedulerNext ==
  \/ DrainQueue
  \/ FinishPlan
  \/ \E i \in Pipelines : Visit(i)
  \/ EndTick

SchedulerSpec == SchedulerInit /\ [][SchedulerNext]_schedulerVars

-----------------------------------------------------------------------------
(* i leads to j along `next`: j is in every set that holds what i leads to *)
(* in one step and, with each member, what that leads to.                  *)
LeadsTo(next, i, j) ==
  \A reached \in SUBSET Pipelines :
    (next[i] \subseteq reached /\ \A k \in reached : next[k] \subseteq reached) => j \in reached

(* i needs j, directly or through others. *)
Needs(i, j) == LeadsTo([k \in Pipelines |-> Dependencies(k)], i, j)

(* Data reaches i from j along data dependencies only. *)
DataFrom(i) == {j \in Pipelines : depends[i][j] = "data"}
DrawsOn(i, j) == LeadsTo([k \in Pipelines |-> DataFrom(k)], i, j)

(* build_stages and the tick together: a dependency graph is refused       *)
(* exactly when a pipeline needs itself, a plan holds every pipeline once  *)
(* with everything it needs, however indirectly, in an earlier stage, and  *)
(* no pipeline is visited before all of those.                             *)
NeededFirst ==
  /\ tick = "refused" => \E i \in Pipelines : Needs(i, i)
  /\ tick \in {"running", "done", "failed"} =>
       /\ \A i \in Pipelines : ~Needs(i, i)
       /\ \A k, l \in DOMAIN stages : k # l => stages[k] \cap stages[l] = {}
       /\ \A i, j \in Pipelines : Needs(i, j) => /\ StageOf(j) < StageOf(i)
                                                 /\ fate[i] # "waiting" => fate[j] # "waiting"

(* A pipeline that finds nothing to work on stops everything downstream of *)
(* it for the tick: no pipeline runs on the data of one that was skipped   *)
(* or produced nothing, however many skipped pipelines lie between them.   *)
DroughtSpreads ==
  \A j \in Pipelines :
    fate[j] \in {"starved", "backpressured", "empty"} =>
      \A i \in Pipelines : DrawsOn(i, j) => fate[i] \in {"waiting", "starved"}
=============================================================================
