---------------------------- MODULE LogicalReader ----------------------------
(***************************************************************************)
(* The PostgreSQL change source in cdc_logical mode (connector-postgresql  *)
(* source/logical.rs): a cycle peeks at the replication slot, hands over   *)
(* what it decoded in batches and, when the next cycle starts, moves the   *)
(* slot past the transactions handed over whole.                           *)
(*                                                                         *)
(* The slot's position is a number of committed transactions.  A row of    *)
(* the table read is known by its place among all of them, so the log is,  *)
(* for each transaction, the rows up to its commit: those of the one       *)
(* before for a transaction of other tables.                               *)
(***************************************************************************)
EXTENDS Integers, Sequences, FiniteSetsExt, SequencesExt

CONSTANTS
  LogicalBatchRows,    \* batch_rows
  LogicalCap,          \* max_batches_per_cycle, 0 for no limit
  SlotTxRows,          \* rows a transaction may have
  MaxSlotTransactions  \* bound on the log

ASSUME LogicalAssumption ==
  /\ LogicalBatchRows \in Nat \ {0} /\ LogicalCap \in Nat
  /\ SlotTxRows \subseteq Nat /\ MaxSlotTransactions \in Nat

VARIABLES
  wal,          \* the transactions the slot can decode: rows up to each commit
  confirmed,    \* the slot: confirmed_flush_lsn
  logical,      \* the LogicalReader of the process
  slotRows,     \* rows handed to the pipeline
  slotWritten   \* ... as of the last end of a cycle the host came back from

logicalVars == <<wal, confirmed, logical, slotRows, slotWritten>>

NoLsn == -1

FreshLogical ==
  [queue |-> <<>>, pending |-> NoLsn, peeked |-> FALSE, cycleStart |-> FALSE, batches |-> 0]

LogicalInit ==
  /\ wal = <<>>
  /\ confirmed = 0
  /\ logical = FreshLogical
  /\ slotRows = {}
  /\ slotWritten = {}

----------------------------------------------------------------------------
CommittedRows(tx) == IF tx = 0 THEN 0 ELSE wal[tx]

WalCommit(rows) ==
  /\ Len(wal) < MaxSlotTransactions
  /\ wal' = Append(wal, CommittedRows(Len(wal)) + rows)
  /\ UNCHANGED <<confirmed, logical, slotRows, slotWritten>>

(* The rows of the transactions after from up to to, in commit order. *)
RowsOf(from, to) == [k \in 1..(CommittedRows(to) - CommittedRows(from)) |-> CommittedRows(from) + k]

(* Faulty variant: a batch acknowledges the transaction it ends in. *)
AckOfOpen(from, to, endRow) ==
  LET points == {tx \in (from + 1)..to : Len(RowsOf(from, tx - 1)) < endRow}
  IN  IF points = {} THEN NoLsn ELSE Max(points)

(* The last commit among the changes before the end of a batch. *)
AckOf(from, to, endRow) ==
  LET points == {tx \in (from + 1)..to : Len(RowsOf(from, tx)) <= endRow}
  IN  IF points = {} THEN NoLsn ELSE Max(points)

(* decode_rows: the peeked changes as batches of batch_rows. *)
Decoded(from, to) ==
  LET rows   == RowsOf(from, to)
      chunks == (Len(rows) + LogicalBatchRows - 1) \div LogicalBatchRows
      end(k) == IF k = chunks THEN Len(rows) ELSE k * LogicalBatchRows
  IN  [k \in 1..chunks |->
         [rows |-> SubSeq(rows, (k - 1) * LogicalBatchRows + 1, end(k)),
          ack  |-> AckOf(from, to, end(k))]]

----------------------------------------------------------------------------
(* next_batch: advance, at the start of a cycle.  The host is back, so     *)
(* what it got in the cycle before has been written.                       *)
StartLogicalCycle ==
  /\ logical.cycleStart
  /\ confirmed' = IF logical.pending = NoLsn THEN confirmed ELSE logical.pending
  /\ logical' = [logical EXCEPT !.pending = NoLsn, !.cycleStart = FALSE, !.batches = 0,
                                !.peeked = FALSE]
  /\ slotWritten' = slotRows
  /\ UNCHANGED <<wal, slotRows>>

(* ... whose answer is lost with the connection. *)
AdvanceUnanswered ==
  /\ logical.cycleStart /\ logical.pending # NoLsn
  /\ confirmed' = logical.pending
  /\ logical' = [logical EXCEPT !.queue = <<>>]
  /\ slotWritten' = slotRows
  /\ UNCHANGED <<wal, slotRows>>

LogicalCapped == LogicalCap > 0 /\ logical.batches >= LogicalCap

(* take_queued: only what is handed over is acknowledged. *)
TakeBatch ==
  /\ ~logical.cycleStart /\ ~LogicalCapped
  /\ logical.queue # <<>>
  /\ logical' = [logical EXCEPT !.queue = Tail(@), !.batches = @ + 1,
                                !.pending = Max({@, Head(logical.queue).ack})]
  /\ slotRows' = slotRows \cup ToSet(Head(logical.queue).rows)
  /\ UNCHANGED <<wal, confirmed, slotWritten>>

(* The peek returns whole transactions, one or more of those waiting; its  *)
(* limit is only looked at after a commit.  Decoding may fail.             *)
Peek ==
  /\ ~logical.cycleStart /\ ~LogicalCapped
  /\ logical.queue = <<>> /\ ~logical.peeked
  /\ \/ /\ confirmed = Len(wal)
        /\ logical' = [logical EXCEPT !.peeked = TRUE, !.cycleStart = TRUE]
     \/ \E to \in (confirmed + 1)..Len(wal) :
          LET batches == Decoded(confirmed, to)
          IN  logical' = [logical EXCEPT !.peeked = TRUE, !.queue = batches,
                                         !.cycleStart = (batches = <<>>)]
     \/ confirmed < Len(wal) /\ logical' = [logical EXCEPT !.peeked = TRUE]
  /\ UNCHANGED <<wal, confirmed, slotRows, slotWritten>>

(* Ok(None): the cap, which drops what is queued, or the end of the peek. *)
EndLogicalCycle ==
  /\ ~logical.cycleStart
  /\ LogicalCapped \/ (logical.queue = <<>> /\ logical.peeked)
  /\ logical' = [logical EXCEPT !.queue = <<>>, !.cycleStart = TRUE]
  /\ UNCHANGED <<wal, confirmed, slotRows, slotWritten>>

(* ensure_session after a lost connection drops what is queued.  The       *)
(* process dying loses the reader and the rows not written.                *)
Reconnect ==
  /\ logical.queue # <<>>
  /\ logical' = [logical EXCEPT !.queue = <<>>]
  /\ UNCHANGED <<wal, confirmed, slotRows, slotWritten>>

LogicalRestart ==
  /\ logical # FreshLogical
  /\ logical' = FreshLogical
  /\ slotRows' = slotWritten
  /\ UNCHANGED <<wal, confirmed, slotWritten>>

LogicalNext ==
  \/ \E n \in SlotTxRows : WalCommit(n)
  \/ StartLogicalCycle \/ AdvanceUnanswered
  \/ TakeBatch \/ Peek \/ EndLogicalCycle
  \/ Reconnect \/ LogicalRestart

LogicalSpec == LogicalInit /\ [][LogicalNext]_logicalVars

----------------------------------------------------------------------------
(* The server forgets what the slot has confirmed, so every row before it  *)
(* was handed over in a cycle the host came back from, also when batches   *)
(* cut across transactions, the cap drops a queue or an answer is lost.    *)
SlotIsWritten == 1..CommittedRows(confirmed) \subseteq slotWritten
=============================================================================
