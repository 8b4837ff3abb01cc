----------------------------- MODULE BatchScan -----------------------------
(***************************************************************************)
(* The scan over every set of disjoint occupied ranges that a batch can    *)
(* reach: ranges become occupied by grants (any free range) and free again *)
(* by releases, in any order.                                              *)
(***************************************************************************)
EXTENDS PendingScan

CONSTANT ScanRows    \* rows of the largest batch the scan is run over

ASSUME ScanRowsAssumption == ScanRows \in Nat

VARIABLES
  totalRows,    \* the rows of the batch ...
  occupied      \* ... and its occupied row ranges

scanVars == <<totalRows, occupied>>

ScanInit == totalRows \in 0..ScanRows /\ occupied = {}

GrantRange(start, end) ==
  /\ \A row \in start..(end - 1) : ~Covered(occupied, row)
  /\ occupied' = occupied \cup {[start |-> start, end |-> end]}
  /\ UNCHANGED totalRows

ReleaseRange(range) ==
  /\ occupied' = occupied \ {range}
  /\ UNCHANGED totalRows

ScanNext ==
  \/ \E start \in 0..totalRows, end \in 1..totalRows : start < end /\ GrantRange(start, end)
  \/ \E range \in occupied : ReleaseRange(range)

ScanSpec == ScanInit /\ [][ScanNext]_scanVars

(* The cursor loop over the sorted ranges returns the first free row and   *)
(* the whole run of free rows that starts there, or nothing exactly when   *)
(* every row is occupied: no hole between two ranges is skipped or handed  *)
(* out together with occupied rows (find_first_pending_claim).             *)
ScanFindsFirstGap == FindFirstGap(occupied, totalRows) = ReferenceGap(occupied, totalRows)
=============================================================================
