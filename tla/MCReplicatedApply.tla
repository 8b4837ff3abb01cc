------------------------- MODULE MCReplicatedApply -------------------------
EXTENDS ReplicatedApply, TLC

CONSTANTS r1, r2, c1, c2, i1, i2

RegisterOne == [op |-> "RegisterMasterBatch", batch_id |-> 1, total_rows |-> 1,
                size |-> "below", now_at_propose |-> 0]

ClaimAll(c, i) == [op |-> "ClaimRowRange", batch_id |-> 1, row_range_start |-> 0,
                   row_range_end |-> 1, claim_id |-> c, instance_id |-> i,
                   now_at_propose |-> 0]

ReleaseOf(c, i) == [op |-> "ReleaseClaim", claim_id |-> c, instance_id |-> i]
AckOf(c, i)     == [op |-> "AckClaim", claim_id |-> c, instance_id |-> i]
SweepAt(now)    == [op |-> "ReclaimExpired", now_at_propose |-> now]

ReplicaSymmetry == Permutations(Replicas)

(* Two runners race for the one row; the first gives it back, or a sweep   *)
(* takes it from either.                                                   *)
RaceCommands ==
  {RegisterOne, ClaimAll(c1, i1), ClaimAll(c2, i2), ReleaseOf(c1, i1), AckOf(c2, i2)}

RaceAndSweep == RaceCommands \cup {SweepAt(2)}
=============================================================================
