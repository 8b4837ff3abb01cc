-------------------------- MODULE FlowController --------------------------
(***************************************************************************)
(* The adaptive admission controller of one source node.  Epochs compare   *)
(* two arms, the incumbent size and a candidate one step away, pass by     *)
(* pass; a guard (a failed pass, a growing sink backlog, a chunk too       *)
(* heavy) divides the size at once and leaves a congestion ceiling; a      *)
(* search that stops moving rests; a latency objective that even the floor *)
(* misses is abandoned.                                                    *)
(*                                                                         *)
(* Rates and durations are inputs: which arm moved more rows per second,   *)
(* whether a pass missed the objective, and when an epoch's time is up.    *)
(* Sizes are exact: rounding, clamping and the integer steps are the       *)
(* code's.                                                                 *)
(***************************************************************************)
EXTENDS Integers, FiniteSetsExt

CONSTANTS
  MinRows, MaxFlowRows, StartRows,
  Growth,          \* growth_factor as <<numerator, denominator>>
  Backoff,         \* backoff_factor likewise
  CeilingDivisor,  \* CEILING_INCREMENT_DIVISOR
  MinSamples,      \* min_samples_per_arm
  SettleAfter,     \* settle_after_epochs
  Cooldown,        \* backoff_cooldown
  TrendPasses,     \* PRESSURE_TREND_PASSES
  MaxDoublings,    \* MAX_REST_EPOCHS.ilog2()
  HasObjective     \* target_latency_ms > 0

ASSUME FlowAssumption ==
  /\ MinRows \in Nat \ {0} /\ MaxFlowRows \in Nat /\ MinRows <= MaxFlowRows
  /\ StartRows \in Nat
  /\ \A f \in {Growth, Backoff} : f \in (Nat \ {0}) \X (Nat \ {0}) /\ f[1] > f[2]
  /\ CeilingDivisor \in Nat \ {0} /\ MinSamples \in Nat /\ SettleAfter \in Nat
  /\ Cooldown \in Nat /\ TrendPasses \in Nat \ {0} /\ MaxDoublings \in Nat
  /\ HasObjective \in BOOLEAN

NoCeiling == 0

VARIABLES
  incumbent, candidate,   \* the size in effect and the size on trial
  arm,                    \* the one the next pass runs at
  direction,              \* where the next candidate lies
  resting,                \* rest epochs left, 0 while experimenting
  settled,                \* deciding epochs in a row that moved nothing
  stats,                  \* per arm: passes measured, and how they met the objective
  ceiling,                \* the size that failed, or NoCeiling
  backlog,                \* [known, rises] of the sink backlog
  abandoned,              \* latency_abandoned
  cooling                 \* passes of cooldown left

flowVars == <<incumbent, candidate, arm, direction, resting, settled, stats,
              ceiling, backlog, abandoned, cooling>>

-----------------------------------------------------------------------------
(* Sizes. *)

Clamp(rows) == Max({MinRows, Min({rows, MaxFlowRows})})

(* f64::round rounds halves away from zero. *)
RoundDiv(a, b) == (2 * a + b) \div (2 * b)

Flipped(d) == IF d = "up" THEN "down" ELSE "up"

(* step_from_incumbent *)
Step(inc, d, ceil) ==
  LET increment == Max({ceil \div CeilingDivisor, 1})
      stepped ==
        CASE d = "up"   /\ ceil # NoCeiling -> Min({inc + increment, ceil})
          [] d = "up"   /\ ceil = NoCeiling -> RoundDiv(inc * Growth[1], Growth[2])
          [] d = "down" /\ ceil # NoCeiling -> Max({inc - increment, 0})
          [] d = "down" /\ ceil = NoCeiling -> RoundDiv(inc * Growth[2], Growth[1])
  IN  Clamp(Max({stepped, 1}))

(* Faulty variant: a step into a bound is proposed as it is. *)
ProposedUnturned(inc, d, ceil) == [candidate |-> Step(inc, d, ceil), direction |-> d]

(* propose_candidate: a step that cannot move is turned around. *)
Proposed(inc, d, ceil) ==
  LET way == IF Step(inc, d, ceil) = inc THEN Flipped(d) ELSE d
  IN  [candidate |-> Step(inc, way, ceil), direction |-> way]

Propose(inc, d, ceil) ==
  /\ candidate' = Proposed(inc, d, ceil).candidate
  /\ direction' = Proposed(inc, d, ceil).direction
  /\ arm' = "incumbent"

TargetRows == IF cooling > 0 \/ arm = "incumbent" THEN incumbent ELSE candidate

NoStats == [a \in {"incumbent", "candidate"} |-> [samples |-> 0, slow |-> {}]]

FlowInit ==
  /\ incumbent = Clamp(StartRows)
  /\ candidate = Proposed(Clamp(StartRows), "up", NoCeiling).candidate
  /\ direction = Proposed(Clamp(StartRows), "up", NoCeiling).direction
  /\ arm = "incumbent"
  /\ resting = 0
  /\ settled = 0
  /\ stats = NoStats
  /\ ceiling = NoCeiling
  /\ backlog = [known |-> FALSE, rises |-> 0]
  /\ abandoned = FALSE
  /\ cooling = 0

-----------------------------------------------------------------------------
(* track_sink_pressure: "none", "up" or "flat" against the last pass. *)
Tracked(pending) ==
  IF pending = "none" THEN [known |-> FALSE, rises |-> 0]
  ELSE [known |-> TRUE,
        rises |-> IF backlog.known /\ pending = "up"
                  THEN Min({backlog.rises + 1, TrendPasses}) ELSE 0]

(* A pass during the cooldown: adverse evidence starts the cooldown again. *)
Cool(adverse, pending) ==
  /\ cooling > 0
  /\ backlog' = Tracked(pending)
  /\ cooling' = IF adverse \/ backlog'.rises >= TrendPasses THEN Cooldown ELSE cooling - 1
  /\ UNCHANGED <<incumbent, candidate, arm, direction, resting, settled, stats,
                 ceiling, abandoned>>

(* back_off.  What failed is the larger of the target and the incumbent;   *)
(* at the floor only the streak and the rest end.                          *)
BackOff(adverse, pending) ==
  LET failed == Max({TargetRows, incumbent})
      wall   == IF ceiling = NoCeiling THEN failed ELSE Min({ceiling, failed})
      less   == Clamp(Max({(failed * Backoff[2]) \div Backoff[1], 1}))
  IN  /\ cooling = 0
      /\ adverse \/ Tracked(pending).rises >= TrendPasses
      /\ settled' = 0
      /\ resting' = 0
      /\ UNCHANGED abandoned
      /\ \/ /\ failed <= MinRows
            /\ backlog' = Tracked(pending)
            /\ UNCHANGED <<incumbent, candidate, arm, direction, stats, ceiling, cooling>>
         \/ /\ failed > MinRows
            /\ ceiling' = wall
            /\ incumbent' = less
            /\ Propose(less, "down", wall)
            /\ stats' = NoStats
            /\ cooling' = Cooldown
            /\ backlog' = [known |-> FALSE, rises |-> 0]

(* track_latency_objective: only a pass at the floor judges reachability. *)
Latched(slow) == IF HasObjective /\ TargetRows <= MinRows THEN slow ELSE abandoned

(* An idle pass measures nothing. *)
Idle(pending) ==
  /\ cooling = 0
  /\ Tracked(pending).rises < TrendPasses
  /\ backlog' = Tracked(pending)
  /\ UNCHANGED <<incumbent, candidate, arm, direction, resting, settled, stats,
                 ceiling, abandoned, cooling>>

(* The statistics with one more pass of the arm under test.  Samples count *)
(* up to MinSamples; the mean of an arm that saw slow and quick passes may *)
(* fall on either side of the objective.                                   *)
Counted(slow) ==
  [stats EXCEPT ![arm] = [samples |-> Min({@.samples + 1, MinSamples}),
                          slow    |-> @.slow \cup {slow}]]

(* A measured pass inside an epoch.  The arms alternate unless resting. *)
Measure(slow, pending) ==
  /\ cooling = 0
  /\ Tracked(pending).rises < TrendPasses
  /\ backlog' = Tracked(pending)
  /\ abandoned' = Latched(slow)
  /\ stats' = Counted(slow)
  /\ arm' = IF resting = 0 /\ candidate # incumbent
            THEN (IF arm = "incumbent" THEN "candidate" ELSE "incumbent")
            ELSE arm
  /\ UNCHANGED <<incumbent, candidate, direction, resting, settled, ceiling, cooling>>

Breaches(meanSlow, isAbandoned) == HasObjective /\ ~isAbandoned /\ meanSlow

(* A measured pass that ends an experiment epoch: close_epoch.  incSlow    *)
(* and candSlow say which side of the objective the arms' means fall,      *)
(* faster that the candidate beat the incumbent by improve_threshold.      *)
CloseEpoch(slow, pending, incSlow, candSlow, faster) ==
  LET seen     == Counted(slow)
      enough   == \A a \in DOMAIN seen : seen[a].samples >= MinSamples
      breaches == Breaches(incSlow, abandoned')
      wins     == IF breaches THEN candidate < incumbent
                  ELSE ~Breaches(candSlow, abandoned') /\ faster
      lost     == IF breaches /\ candidate > incumbent THEN "down" ELSE Flipped(direction)
      streak   == IF breaches THEN 0 ELSE Min({settled + 1, SettleAfter + MaxDoublings})
      wall     == IF ceiling # NoCeiling /\ candidate >= ceiling THEN NoCeiling ELSE ceiling
  IN  /\ cooling = 0 /\ resting = 0
      /\ Tracked(pending).rises < TrendPasses
      /\ backlog' = Tracked(pending)
      /\ abandoned' = Latched(slow)
      /\ stats' = NoStats
      /\ incSlow \in seen["incumbent"].slow \cup {FALSE}
      /\ candSlow \in seen["candidate"].slow \cup {FALSE}
      /\ \/ /\ candidate = incumbent \/ ~enough
            /\ arm' = "incumbent"
            /\ UNCHANGED <<incumbent, candidate, direction, resting, settled, ceiling>>
         \/ /\ candidate # incumbent /\ enough /\ wins
            /\ incumbent' = candidate
            /\ settled' = 0
            /\ ceiling' = wall
            /\ Propose(candidate, direction, wall)
            /\ UNCHANGED resting
         \/ /\ candidate # incumbent /\ enough /\ ~wins
            /\ settled' = streak
            /\ Propose(incumbent, lost, ceiling)
            /\ resting' = IF SettleAfter = 0 \/ streak < SettleAfter THEN 0
                          ELSE 2 ^ Min({streak - SettleAfter, MaxDoublings})
            /\ UNCHANGED <<incumbent, ceiling>>
      /\ UNCHANGED cooling

(* A measured pass that ends a rest epoch: close_rest_epoch. *)
CloseRest(slow, pending, incSlow) ==
  LET seen     == Counted(slow)
      breached == seen["incumbent"].samples >= MinSamples /\ Breaches(incSlow, abandoned')
  IN  /\ cooling = 0 /\ resting > 0
      /\ Tracked(pending).rises < TrendPasses
      /\ backlog' = Tracked(pending)
      /\ abandoned' = Latched(slow)
      /\ stats' = NoStats
      /\ incSlow \in seen["incumbent"].slow
      /\ settled' = IF breached THEN 0 ELSE settled
      /\ \/ /\ breached \/ resting <= 1
            /\ resting' = 0
            /\ Propose(incumbent, IF breached THEN "down" ELSE direction, ceiling)
         \/ /\ ~breached /\ resting > 1
            /\ resting' = resting - 1
            /\ arm' = "incumbent"
            /\ UNCHANGED <<candidate, direction>>
      /\ UNCHANGED <<incumbent, ceiling, cooling>>

(* observe: one completed pass. *)
FlowNext ==
  \E pending \in {"none", "up", "flat"} :
    \/ \E adverse \in BOOLEAN : Cool(adverse, pending) \/ BackOff(adverse, pending)
    \/ Idle(pending)
    \/ \E slow \in BOOLEAN :
         \/ Measure(slow, pending)
         \/ \E incSlow, candSlow, faster \in BOOLEAN :
              CloseEpoch(slow, pending, incSlow, candSlow, faster)
         \/ \E incSlow \in BOOLEAN : CloseRest(slow, pending, incSlow)

FlowSpec == FlowInit /\ [][FlowNext]_flowVars

-----------------------------------------------------------------------------
(* The search stops, with nothing left to try (propose_candidate: "a       *)
(* candidate equal to the incumbent is an experiment that can never run,   *)
(* and nothing else would ever propose another one"), for two reasons      *)
(* only: there is a single admissible size; or, with no ceiling standing,  *)
(* a growth step up and one down both round to the size in effect.  A      *)
(* clamp, a ceiling, a cut, a rest or a latched objective never stops it.  *)
(*                                                                         *)
(* flow.rs:96, 714 and 889 name the first reason as the only one; a growth *)
(* factor below 1.5, which the configuration accepts, meets the second at  *)
(* small sizes.                                                            *)
StallsOnlyByRounding ==
  candidate = incumbent =>
    \/ MinRows = MaxFlowRows
    \/ /\ ceiling = NoCeiling
       /\ \A d \in {"up", "down"} : Step(incumbent, d, NoCeiling) = incumbent

=============================================================================
