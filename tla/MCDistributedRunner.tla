------------------------ MODULE MCDistributedRunner ------------------------
EXTENDS DistributedRunner

CONSTANTS i1, i2

DataOnly      == <<0>>
DataThenState == <<0, 1>>

(* A chain of saved states takes a second batch, a race a second runner:   *)
(* i1 alone works through two batches, and stores may fail; or both work   *)
(* on at most one, nothing fails and no state is kept.                     *)
ChainOrRace ==
  IF Cardinality(DOMAIN db.batches) > 1
  THEN pc'[i2] = "idle" /\ UNCHANGED replica
  ELSE faults' = 0 /\ UNCHANGED <<chain, kept>>
=============================================================================
