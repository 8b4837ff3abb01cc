---------------------------- MODULE RowOwnership ----------------------------
(***************************************************************************)
(* What PartitionSource (distributed/partition.rs) promises its callers:   *)
(* rows are granted exclusively, a grant is given back or finished, and    *)
(* finished rows are never granted again.  No tables, no leases, no        *)
(* instances.  A tenure is one grant: a claim id and its range of rows.    *)
(***************************************************************************)
EXTENDS Integers

CONSTANT Tenures    \* records with the fields claim, batch, start and end

VARIABLES
  held,   \* the tenures in force
  done    \* the tenures that were acked

Rows(t) == {<<t.batch, row>> : row \in t.start..(t.end - 1)}

Init == held = {} /\ done = {}

(* claim_next_batch: some rows that nobody holds and nobody has finished,  *)
(* under an id that is not in use.                                         *)
Grant(t) ==
  /\ t.start < t.end
  /\ \A u \in held \cup done : u.claim # t.claim /\ Rows(u) \cap Rows(t) = {}
  /\ held' = held \cup {t}
  /\ done' = done

(* ack_claim: once, and by a tenure in force. *)
Finish(t) ==
  /\ t \in held
  /\ held' = held \ {t}
  /\ done' = done \cup {t}

(* release_claim gives one tenure back, reclaim_expired any number. *)
GiveBack(lost) ==
  /\ held' = held \ lost
  /\ done' = done

Next ==
  \/ \E t \in Tenures : Grant(t)
  \/ \E t \in held : Finish(t)
  \/ \E lost \in SUBSET held : GiveBack(lost)

Spec == Init /\ [][Next]_<<held, done>>
=============================================================================
