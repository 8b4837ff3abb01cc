---------------------------- MODULE PendingScan ----------------------------
(***************************************************************************)
(* The scan that picks the next claimable row range of one master batch    *)
(* (state_machine/queries.rs), as a function of the row ranges that are    *)
(* already occupied.  Rows are numbered from 0 and ranges are half open.   *)
(***************************************************************************)
EXTENDS Naturals, FiniteSets, FiniteSetsExt, SequencesExt

(* A range with start = end stands for the code's Ok(None). *)
NoRange == [start |-> 0, end |-> 0]

(* Faulty variant: the last gap wins instead of the first. *)
ScanStepLastGap(acc, range) ==
  IF acc.cursor < range.start
  THEN [acc EXCEPT !.found = TRUE, !.gapEnd = range.start]
  ELSE [acc EXCEPT !.cursor = Max({@, range.end})]

(* One iteration of the cursor loop: the first range that starts beyond    *)
(* the cursor closes the gap, any other one may push the cursor forward.   *)
ScanStep(acc, range) ==
  IF acc.found THEN acc
  ELSE IF acc.cursor < range.start
       THEN [acc EXCEPT !.found = TRUE, !.gapEnd = range.start]
       ELSE [acc EXCEPT !.cursor = Max({@, range.end})]

(* The occupied ranges in ascending order of their starts. *)
SortByStart(occupied) ==
  CHOOSE s \in [1..Cardinality(occupied) -> occupied] :
    /\ IsInjective(s)
    /\ \A i, j \in DOMAIN s : i < j => s[i].start <= s[j].start

ScanStart(totalRows) == [found |-> FALSE, cursor |-> 0, gapEnd |-> totalRows]

FindFirstGap(occupied, totalRows) ==
  LET final == FoldLeft(ScanStep, ScanStart(totalRows), SortByStart(occupied))
  IN  IF final.cursor < final.gapEnd
      THEN [start |-> final.cursor, end |-> final.gapEnd]
      ELSE NoRange

----------------------------------------------------------------------------
(* What the scan is meant to return, said without an algorithm. *)

Covered(occupied, row) ==
  \E r \in occupied : r.start <= row /\ row < r.end

FreeRows(occupied, totalRows) ==
  {row \in 0..(totalRows - 1) : ~Covered(occupied, row)}

(* The first free row, and the longest run of free rows that starts there. *)
ReferenceGap(occupied, totalRows) ==
  LET free  == FreeRows(occupied, totalRows)
      first == Min(free)
      stops == {row \in (first + 1)..totalRows : row \notin free}
  IN  IF free = {} THEN NoRange ELSE [start |-> first, end |-> Min(stops)]
=============================================================================
