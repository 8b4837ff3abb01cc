--------------------------- MODULE MCClaimLedger ---------------------------
EXTENDS ClaimLedger, TLC

CONSTANTS c1, c2, c3, i1, i2

(* Claims and instances are interchangeable: no handler compares them      *)
(* other than for equality.                                                *)
ClaimSymmetry == Permutations(ClaimIds) \cup Permutations(Instances)
=============================================================================
