------------------------- MODULE EventTimeWindows -------------------------
(***************************************************************************)
(* A windowed processor node.  Arrivals (sets of rows with a timestamp and *)
(* a key hash) reach it one after the other; the host's WindowTracker      *)
(* classifies each arrival as a whole, and the engine's WindowedSystem     *)
(* drops the rows beyond the lateness budget, puts the others into windows *)
(* and fires one group per window and key, late when it fired that window  *)
(* before.  With several instances of the node, each keeps the keys of its *)
(* ordinal.                                                                *)
(*                                                                         *)
(* The tracker looks at every component that has the time field, the       *)
(* engine only at its source component; and the lateness budget is         *)
(* declared twice, in the node's window block and in the WindowBuilder.    *)
(* A WindowedSystem without a budget never drops, like one whose budget no *)
(* timestamp exceeds.                                                      *)
(*                                                                         *)
(* Aggregation itself is left out: a group is the set of rows it is        *)
(* computed from.  A key stands for its hash.                              *)
(***************************************************************************)
EXTENDS Integers, FiniteSetsExt

CONSTANTS
  Stamps,        \* the timestamps rows carry, epoch milliseconds
  OtherStamps,   \* the newest timestamps the other components bring
  Hashes,        \* the key hashes, i64 values
  Null,          \* a null timestamp
  NoMark,        \* i64::MIN, no timestamp observed yet
  Size,          \* size_ms
  Slide,         \* slide_ms
  Offset,        \* offset_ms
  Gap,           \* gap_ms
  Lateness,      \* allowed_lateness of the engine
  HostBudgets,   \* what allowed_lateness_ms of the host may be
  NumInstances,  \* KeyPartition::num_instances
  RunToReport,   \* BEYOND_LATENESS_RUN_TO_REPORT
  MaxRows        \* bound on the rows of all arrivals together

(* WindowSpec::validate; timestamps and hashes are i64. *)
ASSUME GeometryAssumption ==
  /\ Stamps \subseteq Int /\ IsFiniteSet(Stamps) /\ OtherStamps \subseteq Int
  /\ Hashes \subseteq Int /\ IsFiniteSet(Hashes)
  /\ Size \in Nat \ {0} /\ Slide \in 1..Size /\ Gap \in Nat \ {0} /\ Offset \in Int
  /\ Lateness \in Nat /\ HostBudgets \subseteq Nat /\ NumInstances \in Nat \ {0} /\ RunToReport \in Nat \ {0}
  /\ MaxRows \in Nat

Ordinals == 0..(NumInstances - 1)
Rows     == [ts : Stamps \cup {Null}, key : Hashes]

VARIABLES
  geometry,   \* "tumbling", "sliding" or "session"
  budget,     \* the host's allowed_lateness_ms
  tracker,    \* the host's WindowTracker
  verdict,    \* its WatermarkAdvance for the last arrival
  mark,       \* the engine's WatermarkState
  emitted,    \* windows each instance has fired
  arrival,    \* the last arrival, without its null timestamps
  elsewhere,  \* the newest timestamp its other components brought, or NoMark
  mixed,      \* other components have brought timestamps so far
  results,    \* what each instance did with it
  seen,       \* rows kept from earlier arrivals
  fed         \* rows so far

windowVars ==
  <<geometry, budget, tracker, verdict, mark, emitted, arrival, elsewhere, mixed, results, seen, fed>>

Nothing == [dropped |-> {}, groups |-> {}]

WindowInit ==
  /\ geometry \in {"tumbling", "sliding", "session"}
  /\ budget \in HostBudgets
  /\ tracker = [mark |-> NoMark, run |-> 0, reported |-> FALSE]
  /\ verdict = "none"
  /\ mark = NoMark
  /\ emitted = [o \in Ordinals |-> {}]
  /\ arrival = {}
  /\ elsewhere = NoMark
  /\ mixed = FALSE
  /\ results = [o \in Ordinals |-> Nothing]
  /\ seen = {}
  /\ fed = 0

-----------------------------------------------------------------------------
(* Window assignment. *)

(* Rust's / on integers rounds towards zero. *)
TruncDiv(a, b) == IF a >= 0 THEN a \div b ELSE -((-a) \div b)

(* Faulty variant: the quotient is taken as it is. *)
AssignTumblingTruncated(ts, size) == TruncDiv(ts - Offset, size)

AssignTumbling(ts, size) ==
  LET q == TruncDiv(ts - Offset, size)
      r == (ts - Offset) - q * size
  IN  IF r < 0 THEN q - 1 ELSE q

AssignSliding(ts) ==
  LET k == (Size + Slide - 1) \div Slide
  IN  {AssignTumbling(ts - j * Slide, Slide) : j \in 0..(k - 1)}

(* The order assign_sessions sorts the rows in: by key hash and time. *)
SortsBefore(r, s) == r.key < s.key \/ (r.key = s.key /\ r.ts < s.ts)

(* The rows its scan starts a new session at: the one sorted just before   *)
(* has another key, or lies further back than the gap.                     *)
SessionBreaks(rows) ==
  {r \in rows : \E p \in rows :
     /\ SortsBefore(p, r)
     /\ ~\E q \in rows : SortsBefore(p, q) /\ SortsBefore(q, r)
     /\ r.key # p.key \/ r.ts - p.ts > Gap}

(* assign_sessions: the number of breaks up to a row. *)
SessionsOf(rows) ==
  [r \in rows |-> Cardinality({b \in SessionBreaks(rows) : ~SortsBefore(r, b)})]

(* The windows of a row among the rows kept from its arrival. *)
WindowsOf(r, kept) ==
  CASE geometry = "tumbling" -> {AssignTumbling(r.ts, Size)}
    [] geometry = "sliding"  -> AssignSliding(r.ts)
    [] geometry = "session"  -> {SessionsOf(kept)[r]}

-----------------------------------------------------------------------------
(* The engine. *)

(* is_beyond_lateness: infinite tolerance until the mark exceeds the budget. *)
IsBeyondLateness(m, ts) == m # NoMark /\ Lateness < m /\ ts < m - Lateness

(* The watermark after every timestamp of the arrival. *)
Advanced(m, stamps) == IF m = NoMark THEN Max(stamps) ELSE Max(stamps \cup {m})

(* The partition filter: key_hash.rem_euclid(num_instances) == ordinal. *)
Keeps(o, key) == key % NumInstances = o

(* Faulty variant: a window is late for every key once one key has fired it. *)
LateByWindow(o, w, key) == \E k \in Hashes : <<w, k>> \in emitted[o]

(* is_late_firing: emitted_windows holds the window for this key. *)
Late(o, w, key) == <<w, key>> \in emitted[o]

(* One group per window and key, from the rows an instance keeps. *)
Groups(o, kept) ==
  LET mine   == {r \in kept : NumInstances > 1 => Keeps(o, r.key)}
      placed == UNION {{[window |-> w, row |-> r] : w \in WindowsOf(r, kept)} : r \in mine}
  IN  {[window |-> p.window, key |-> p.row.key,
        rows |-> {q.row : q \in {q \in placed : q.window = p.window /\ q.row.key = p.row.key}},
        late |-> Late(o, p.window, p.row.key)] : p \in placed}

(* WindowedSystem::run on an arrival's timed rows: lateness is judged by   *)
(* the mark the previous arrival left, and the mark then moves over every  *)
(* timestamp, the dropped ones too.  An instance none of whose keys is     *)
(* among the kept rows returns empty results, the side output included.    *)
RunEngine(timed) ==
  LET dropped == {r \in timed : IsBeyondLateness(mark, r.ts)}
      kept    == timed \ dropped
  IN  /\ mark' = Advanced(mark, {r.ts : r \in timed})
      /\ results' = [o \in Ordinals |->
           LET groups == Groups(o, kept)
           IN  [dropped |-> IF kept # {} /\ groups = {} THEN {} ELSE dropped,
                groups  |-> groups]]
      /\ emitted' = [o \in Ordinals |->
           emitted[o] \cup {<<g.window, g.key>> : g \in Groups(o, kept)}]

(* Faulty variant: the budget is subtracted whatever the mark. *)
TrackerLateAlways(m, newest) == m # NoMark /\ newest < m - budget

(* The tracker's own test, on the newest timestamp of the arrival. *)
TrackerLate(m, newest) == m # NoMark /\ budget < m /\ newest < m - budget

(* WindowTracker::advance_from, on the timestamps of every component.  Of  *)
(* the components the engine does not read only the newest one matters.    *)
Track(stamps) ==
  LET late  == TrackerLate(tracker.mark, Max(stamps))
      first == ~tracker.reported /\ tracker.run + 1 >= RunToReport
  IN  /\ tracker' = [mark     |-> Advanced(tracker.mark, stamps),
                     run      |-> IF late THEN tracker.run + 1 ELSE 0,
                     reported |-> late /\ (tracker.reported \/ first)]
      /\ verdict' = CASE late /\ first                -> "first"
                      [] late /\ ~first               -> "beyond"
                      [] ~late /\ tracker.reported    -> "recovered"
                      [] ~late /\ ~tracker.reported   -> "usable"

AllGroups  == UNION {results[o].groups : o \in Ordinals}
AllDropped == UNION {results[o].dropped : o \in Ordinals}

(* An arrival reaches the node: tracker first, engine next.  Rows with a   *)
(* null timestamp are passed over by both.                                 *)
Arrive(rows, newest) ==
  LET timed  == {r \in rows : r.ts # Null}
      stamps == {r.ts : r \in timed} \cup ({newest} \ {NoMark})
      size   == Cardinality(rows) + (IF newest = NoMark THEN 0 ELSE 1)
  IN  /\ size > 0 /\ fed + size <= MaxRows
      /\ fed' = fed + size
      /\ arrival' = timed /\ elsewhere' = newest
      /\ mixed' = (mixed \/ newest # NoMark)
      /\ seen' = seen \cup (arrival \ AllDropped)
      /\ \/ stamps = {} /\ verdict' = "empty" /\ UNCHANGED tracker
         \/ stamps # {} /\ Track(stamps)
      /\ \/ /\ timed = {}
            /\ results' = [o \in Ordinals |-> Nothing]
            /\ UNCHANGED <<mark, emitted>>
         \/ timed # {} /\ RunEngine(timed)
      /\ UNCHANGED <<geometry, budget>>

WindowNext ==
  \E n \in 0..(MaxRows - fed) : \E rows \in kSubset(n, Rows), newest \in OtherStamps \cup {NoMark} :
    Arrive(rows, newest)

WindowSpec == WindowInit /\ [][WindowNext]_windowVars

-----------------------------------------------------------------------------
(* The reference for a window: the half-open interval it stands for. *)
Covers(w, ts) ==
  LET step == IF geometry = "sliding" THEN Slide ELSE Size
  IN  w * step + Offset <= ts /\ ts < w * step + Offset + Size

(* Every window that can cover a timestamp. *)
Reach == (Min(Stamps) - Offset - Size)..(Max(Stamps) - Offset + Size)

(* Two rows of one arrival are in one session when they have the same key  *)
(* and no silence longer than the gap lies between them.                   *)
SameSession(r, s, rows) ==
  /\ r.key = s.key
  /\ LET low  == Min({r.ts, s.ts})
         high == Max({r.ts, s.ts})
         between == {q.ts : q \in {q \in rows : q.key = r.key /\ q.ts \in low..high}}
     IN  \A t \in between \ {high} : \E u \in between : t < u /\ u <= t + Gap

(* No row vanishes and none is counted twice: every row with a timestamp   *)
(* is in some instance's side output or in a group, never both; only one   *)
(* instance fires a key, also when its hash is negative; and the groups    *)
(* are exactly the windows or sessions the row belongs to, before the      *)
(* epoch and at the edges too.  (Sliding windows are only intervals when   *)
(* the slide divides the size.)                                            *)
EveryRowPlaced ==
  LET fired == arrival \ AllDropped
  IN  /\ UNION {g.rows : g \in AllGroups} = fired
      /\ \A o, p \in Ordinals : o # p => results[o].groups \cap results[p].groups = {}
      /\ geometry # "session" /\ Size % Slide = 0 =>
           /\ \A g \in AllGroups : \A r \in g.rows : Covers(g.window, r.ts)
           /\ \A r \in fired : \A w \in Reach :
                Covers(w, r.ts) => \E g \in AllGroups : g.window = w /\ r \in g.rows
      /\ geometry = "session" =>
           \A r, s \in fired :
             SameSession(r, s, fired) <=> \E g \in AllGroups : r \in g.rows /\ s \in g.rows

(* What the host reports against what the engine does.  The header of      *)
(* windowing.rs says that the two watermarks cannot drift; they do, when a *)
(* component other than the engine's source carries the time field or the  *)
(* two budgets differ.  What holds all the same: the host's watermark is   *)
(* never behind, and no arrival of the source alone that the engine drops  *)
(* as a whole goes unreported as long as the host's budget is not the      *)
(* larger one (advance_from: "the whole arrival is dropped and nothing     *)
(* reaches the sinks behind it").  With one component and one budget the   *)
(* watermarks are equal and the report says exactly what the engine did.   *)
HostSeesTheDrops ==
  LET classified == verdict \notin {"none", "empty"} /\ arrival # {}
      reported   == verdict \in {"first", "beyond"}
      allDropped == AllDropped = arrival
  IN  /\ mark # NoMark => tracker.mark # NoMark /\ mark <= tracker.mark
      /\ classified /\ elsewhere = NoMark /\ budget <= Lateness =>
           (allDropped => reported)
      /\ ~mixed /\ budget = Lateness =>
           /\ tracker.mark = mark
           /\ classified => (reported <=> allDropped)

(* The mark of a late firing.  A first firing of a window and key never    *)
(* bears it, and a row behind the watermark of the earlier arrivals that   *)
(* joins a window which has fired for its key always does.                 *)
(*                                                                         *)
(* Left open is a repeated firing made of rows that are all on time: the   *)
(* engine fires a group with every arrival and marks it as late too        *)
(* (aggregate_groups), where windowing.rs:29 has a window fire once the    *)
(* watermark passes its end and the budget, and builder.rs:69 has on-time  *)
(* rows processed normally.  Session ids start at 0 in every run, so for   *)
(* sessions emitted_windows says nothing of the kind.                      *)
LateMeansSeen ==
  geometry # "session" /\ Size % Slide = 0 =>
    \A g \in AllGroups :
      LET fired  == \E r \in seen : r.key = g.key /\ Covers(g.window, r.ts)
          behind == \E r \in g.rows, s \in seen : r.ts < s.ts
      IN  (g.late => fired) /\ (fired /\ behind => g.late)
=============================================================================
