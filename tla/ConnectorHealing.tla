-------------------------- MODULE ConnectorHealing --------------------------
(***************************************************************************)
(* One connector wrapped in HealingSource or HealingSink (service/heal.rs):*)
(* repeated failures schedule a rebuild from the factory, a rebuild that   *)
(* landed is on probation until its first operation, and a node that spent *)
(* its budget is left as it is.                                            *)
(***************************************************************************)
EXTENDS Naturals

CONSTANTS
  AfterFailures,  \* consecutive failures before a rebuild is scheduled
  MaxAttempts     \* rebuilds before giving up, 0 for no limit

ASSUME HealAssumption == AfterFailures \in Nat /\ MaxAttempts \in Nat

VARIABLES
  heal,       \* HealState and its counter: consecutive failures, or attempt
  rebuildDue, \* the time of a scheduled rebuild has come
  inner,      \* the node holds an instance
  recovered,  \* the flag the dead letter queue reads
  tries       \* rebuilds tried since the node was last healthy

healVars == <<heal, rebuildDue, inner, recovered, tries>>

At(state, n) == [at |-> state, n |-> n]

HealInit ==
  /\ heal = At("Healthy", 0)
  /\ rebuildDue = FALSE
  /\ inner = TRUE
  /\ recovered = FALSE
  /\ tries = 0

Scheduled(attempt) ==
  IF MaxAttempts # 0 /\ attempt > MaxAttempts
  THEN At("Exhausted", 0)
  ELSE At("Scheduled", attempt)

(* success and failure: what an operation on the instance does to the      *)
(* state it ran in.                                                        *)
AfterSuccess == At("Healthy", 0)

(* Faulty variant: a rebuild that did not take counts failures afresh. *)
AfterFailureRecounting(h) ==
  CASE h.at = "Healthy" -> IF AfterFailures <= 1 THEN Scheduled(1) ELSE At("Failing", 1)
    [] h.at = "Failing" -> IF h.n + 1 >= AfterFailures THEN Scheduled(1)
                           ELSE At("Failing", h.n + 1)
    [] h.at = "Probing" -> Scheduled(1)
    [] OTHER -> h

AfterFailure(h) ==
  CASE h.at = "Healthy" -> IF AfterFailures <= 1 THEN Scheduled(1) ELSE At("Failing", 1)
    [] h.at = "Failing" -> IF h.n + 1 >= AfterFailures THEN Scheduled(1)
                           ELSE At("Failing", h.n + 1)
    [] h.at = "Probing" -> Scheduled(h.n + 1)
    [] OTHER -> h

(* An instance answers: h and count are the state it answers in. *)
Answer(h, count) ==
  \/ /\ heal' = AfterSuccess
     /\ recovered' = (recovered \/ h.at = "Probing")
     /\ tries' = 0
     /\ rebuildDue' = FALSE
  \/ /\ heal' = AfterFailure(h)
     /\ tries' = count
     /\ rebuildDue' = (rebuildDue /\ heal'.at = "Scheduled" /\ h.at = "Scheduled")
     /\ UNCHANGED recovered

Due == heal.at = "Scheduled" /\ rebuildDue

(* next_batch or write_batch when a rebuild is due and its build fails or  *)
(* reports another schema: the broken instance is gone, the call fails.    *)
BuildFails ==
  /\ Due
  /\ heal' = Scheduled(heal.n + 1)
  /\ inner' = FALSE
  /\ rebuildDue' = FALSE
  /\ tries' = tries + 1
  /\ UNCHANGED recovered

(* ... and when it lands: the fresh instance answers the call. *)
Rebuild ==
  /\ Due
  /\ inner' = TRUE
  /\ Answer(At("Probing", heal.n), tries + 1)

(* A cancelled run drops the call before the fresh instance answers. *)
RebuildInterrupted ==
  /\ Due
  /\ inner' = TRUE
  /\ heal' = At("Probing", heal.n)
  /\ rebuildDue' = FALSE
  /\ tries' = tries + 1
  /\ UNCHANGED recovered

(* next_batch or write_batch with nothing due, and finish at any time. *)
Operate ==
  /\ inner
  /\ Answer(heal, tries)
  /\ UNCHANGED inner

RebuildComesDue ==
  /\ heal.at = "Scheduled"
  /\ rebuildDue' = TRUE
  /\ UNCHANGED <<heal, inner, recovered, tries>>

(* The dead letter queue swaps the flag. *)
TakeRecovered ==
  /\ recovered
  /\ recovered' = FALSE
  /\ UNCHANGED <<heal, rebuildDue, inner, tries>>

HealNext == BuildFails \/ Rebuild \/ RebuildInterrupted \/ Operate 
            \/ RebuildComesDue \/ TakeRecovered

HealSpec == HealInit /\ [][HealNext]_healVars

----------------------------------------------------------------------------
(* A rebuild that failed, or whose instance broke on probation, goes on    *)
(* with the backoff where it was, and no outage costs more rebuilds than   *)
(* the budget, however its failures, rebuilds and late answers interleave. *)
BackoffGoesOn ==
  /\ heal.at = "Scheduled" => heal.n = tries + 1
  /\ heal.at = "Probing" => heal.n = tries
  /\ MaxAttempts # 0 => tries <= MaxAttempts

=============================================================================
