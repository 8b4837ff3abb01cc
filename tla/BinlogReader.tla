---------------------------- MODULE BinlogReader ----------------------------
(***************************************************************************)
(* The MariaDB and MySQL change source in cdc_binlog mode                  *)
(* (connector-mariadb source/binlog.rs): a snapshot of the table, then     *)
(* drain cycles over the binlog, with the position stored in a table of    *)
(* the same server at the start of the next cycle.                         *)
(*                                                                         *)
(* A position is a number of transactions of the binlog, in file mode the  *)
(* byte position after that many, in gtid mode the set of them.  A         *)
(* transaction is of the table read, of something else (another table, a   *)
(* definition, a new file) or the connector's own offset write.  Calls run *)
(* one after the other; between any two steps of a call it may fail, be    *)
(* dropped, or the process may die.  The table keeps one definition, so    *)
(* one plan decodes all rows.                                              *)
(***************************************************************************)
EXTENDS Integers, Sequences, FiniteSets

CONSTANTS
  BinlogBatchRows,    \* the sizes batch_rows may have, first configured, then hinted
  BinlogCap,          \* max_batches_per_cycle, 0 for no limit
  BinlogChanges,      \* max_changes_per_cycle, 0 for no limit
  TxRows,             \* rows a transaction of the table may have
  SnapshotPages,      \* pages of the snapshot, the last one short
  MaxTransactions     \* bound on the binlog

ASSUME BinlogAssumption ==
  /\ BinlogBatchRows \subseteq Nat \ {0} /\ BinlogCap \in Nat /\ BinlogChanges \in Nat
  /\ TxRows \subseteq Nat \ {0}
  /\ SnapshotPages \in Nat \ {0} /\ MaxTransactions \in Nat

VARIABLES
  binlog,      \* the transactions on the server
  stored,      \* the offset table: a position, or None
  takeSnapshot,\* mode.snapshot: start with the rows the table has
  reader,      \* the BinlogReader of the process
  handedOver,  \* rows the pipeline got, and the position a snapshot gave it
  binlogWritten, \* ... as of the last end of a cycle the host came back from
  cycleRows,   \* rows of this cycle since its last failure
  stores       \* writes to the offset table the reader knows of

binlogVars ==
  <<binlog, stored, takeSnapshot, reader, handedOver, binlogWritten, cycleRows, stores>>

NoPosition == -1
NotOpen    == -1    \* no stream is open

Transaction(kind, rows) == [kind |-> kind, rows |-> rows]

FreshReader(batchRows) ==
  [batchRows |-> batchRows,
   phase |-> "unresolved", committed |-> NoPosition, dirty |-> FALSE,
   page |-> 0, pinned |-> NoPosition,
   queue |-> <<>>, at |-> NotOpen, rowsRead |-> 0, foreign |-> FALSE, done |-> FALSE,
   cycleStart |-> FALSE, batches |-> 0, midTx |-> FALSE]

NothingYet == [rows |-> {}, upTo |-> 0]

BinlogInit ==
  /\ binlog = <<>>
  /\ stored = NoPosition
  /\ takeSnapshot \in BOOLEAN
  /\ \E n \in BinlogBatchRows : reader = FreshReader(n)
  /\ handedOver = NothingYet
  /\ binlogWritten = NothingYet
  /\ cycleRows = {}
  /\ stores = 0

----------------------------------------------------------------------------
(* The server *)

CommitTransaction ==
  /\ Len(binlog) < MaxTransactions
  /\ \/ \E n \in TxRows : binlog' = Append(binlog, Transaction("table", n))
     \/ binlog' = Append(binlog, Transaction("other", 0))
  /\ UNCHANGED <<stored, takeSnapshot, reader, handedOver, binlogWritten, cycleRows, stores>>

(* store_binlog, itself a transaction of the binlog. *)
StoreBinlog(position) ==
  /\ Len(binlog) < MaxTransactions
  /\ stored' = position
  /\ binlog' = Append(binlog, Transaction("own", 0))

----------------------------------------------------------------------------
(* ensure_session and load_position: the stored position, else a snapshot, *)
(* else mode.initial, which is stored before anything is read.             *)

LoadStored ==
  /\ reader.phase = "unresolved"
  /\ stored # NoPosition
  /\ reader' = [reader EXCEPT !.phase = "streaming", !.committed = stored]
  /\ UNCHANGED <<binlog, stored, takeSnapshot, handedOver, binlogWritten, cycleRows, stores>>

LoadSnapshot ==
  /\ reader.phase = "unresolved"
  /\ stored = NoPosition /\ takeSnapshot
  /\ reader' = [reader EXCEPT !.phase = "snapshot"]
  /\ UNCHANGED <<binlog, stored, takeSnapshot, handedOver, binlogWritten, cycleRows, stores>>

LoadInitial(position) ==
  /\ reader.phase = "unresolved"
  /\ stored = NoPosition /\ ~takeSnapshot
  /\ reader' = [reader EXCEPT !.phase = "streaming", !.committed = position]
  /\ StoreBinlog(position)
  /\ stores' = stores + 1
  /\ handedOver' = [handedOver EXCEPT !.upTo = position]
  /\ binlogWritten' = [binlogWritten EXCEPT !.upTo = position]
  /\ UNCHANGED <<takeSnapshot, cycleRows>>

----------------------------------------------------------------------------
(* abandon_cycle: what is queued or unread is read again from committed. *)
Abandoned(r) ==
  [r EXCEPT !.queue = <<>>, !.at = NotOpen, !.rowsRead = 0, !.foreign = FALSE,
            !.done = FALSE, !.midTx = FALSE]

(* step: the start of a cycle.  The host is back, so what it got in the    *)
(* cycle before has been written.                                          *)

StartBinlogCycle ==
  /\ reader.phase # "unresolved"
  /\ reader.cycleStart
  /\ reader' = [reader EXCEPT !.cycleStart = FALSE, !.batches = 0, !.done = FALSE,
                              !.dirty = FALSE]
  /\ IF reader.dirty /\ reader.committed # NoPosition
     THEN StoreBinlog(reader.committed) /\ stores' = stores + 1
     ELSE UNCHANGED <<binlog, stored, stores>>
  /\ binlogWritten' = handedOver
  /\ cycleRows' = {}
  /\ UNCHANGED <<takeSnapshot, handedOver>>

(* ... whose answer is lost: next_batch fails and its next call stores again. *)
StoreUnanswered ==
  /\ reader.phase # "unresolved"
  /\ reader.cycleStart /\ reader.dirty /\ reader.committed # NoPosition
  /\ StoreBinlog(reader.committed)
  /\ reader' = Abandoned(reader)
  /\ binlogWritten' = handedOver
  /\ cycleRows' = {}
  /\ UNCHANGED <<takeSnapshot, handedOver, stores>>

InCycle == reader.phase # "unresolved" /\ ~reader.cycleStart
BinlogCapped == BinlogCap > 0 /\ reader.batches >= BinlogCap

(* request_batch_rows: the host's hint.  It comes between two calls; here  *)
(* also between two reads of one, which only adds behaviours.              *)
RequestBatchRows(n) ==
  /\ n # reader.batchRows
  /\ reader' = [reader EXCEPT !.batchRows = n]
  /\ UNCHANGED <<binlog, stored, takeSnapshot, handedOver, binlogWritten, cycleRows, stores>>

----------------------------------------------------------------------------
(* snapshot_page: pages of one read view, pinned at a position; a short    *)
(* one, which may be empty and then is no batch, ends the snapshot.        *)
Pinned == IF reader.page = 0 THEN Len(binlog) ELSE reader.pinned

SnapshotPage ==
  /\ InCycle /\ ~BinlogCapped
  /\ reader.phase = "snapshot"
  /\ reader.page + 1 < SnapshotPages
  /\ reader' = [reader EXCEPT !.page = @ + 1, !.pinned = Pinned, !.batches = @ + 1]
  /\ UNCHANGED <<binlog, stored, takeSnapshot, handedOver, binlogWritten, cycleRows, stores>>

LastPage ==
  /\ InCycle /\ ~BinlogCapped
  /\ reader.phase = "snapshot"
  /\ reader.page + 1 = SnapshotPages
  /\ \E batch \in {0, 1} :
       reader' = [reader EXCEPT !.phase = "streaming", !.committed = Pinned, !.dirty = TRUE,
                                !.page = 0, !.pinned = NoPosition, !.batches = @ + batch]
  /\ handedOver' = [handedOver EXCEPT !.upTo = Pinned]
  /\ UNCHANGED <<binlog, stored, takeSnapshot, binlogWritten, cycleRows, stores>>

----------------------------------------------------------------------------
(* read_more and take_queued *)

(* Faulty variant: every row acknowledges its transaction. *)
ChangeAckedEarly(tx, row) == [tx |-> tx, row |-> row, ack |-> tx]

(* on_commit: the last row of a transaction acknowledges it. *)
ChangeOf(tx, row) ==
  [tx |-> tx, row |-> row, ack |-> IF row = binlog[tx].rows THEN tx ELSE NoPosition]

TxEnd(change) == change.row = binlog[change.tx].rows

(* Faulty variant: any tail is worth storing. *)
FinishStreamStoring(r) ==
  LET tail == r.at
  IN  [r EXCEPT !.done = TRUE, !.at = NotOpen,
                !.queue = IF @ = <<>> THEN @ ELSE [@ EXCEPT ![Len(@)].ack = tail],
                !.committed = IF r.queue = <<>> THEN tail ELSE @,
                !.dirty = @ \/ (r.queue = <<>> /\ tail # r.committed)]

(* finish_stream: the tail is acknowledged with the last queued row, or at *)
(* once when there is none; it is worth storing only if there was news.    *)
FinishStream(r) ==
  LET tail == r.at
  IN  [r EXCEPT !.done = TRUE, !.at = NotOpen,
                !.queue = IF @ = <<>> THEN @ ELSE [@ EXCEPT ![Len(@)].ack = tail],
                !.committed = IF r.queue = <<>> THEN tail ELSE @,
                !.dirty = @ \/ (r.queue = <<>> /\ tail # r.committed /\ r.foreign)]

MayRead ==
  /\ InCycle /\ ~BinlogCapped
  /\ reader.phase = "streaming"
  /\ Len(reader.queue) < reader.batchRows
  /\ ~reader.done

(* open_stream, when it is the first read of a cycle *)
OpenedStream ==
  IF reader.at # NotOpen THEN reader
  ELSE [reader EXCEPT !.at = reader.committed, !.rowsRead = 0, !.foreign = FALSE]

(* The stream hands over one more transaction, up to its commit. *)
ReadTransaction ==
  /\ MayRead
  /\ OpenedStream.at < Len(binlog)
  /\ LET tx   == OpenedStream.at + 1
         read == [OpenedStream EXCEPT !.at = tx,
                                !.queue = @ \o [row \in 1..binlog[tx].rows |-> ChangeOf(tx, row)],
                                !.rowsRead = @ + binlog[tx].rows,
                                !.foreign = @ \/ binlog[tx].kind # "own"]
     IN  reader' = IF BinlogChanges > 0 /\ read.rowsRead >= BinlogChanges
                   THEN FinishStream(read) ELSE read
  /\ UNCHANGED <<binlog, stored, takeSnapshot, handedOver, binlogWritten, cycleRows, stores>>

(* ... or has no more: the dump does not wait. *)
StreamEnds ==
  /\ MayRead
  /\ OpenedStream.at = Len(binlog)
  /\ reader' = FinishStream(OpenedStream)
  /\ UNCHANGED <<binlog, stored, takeSnapshot, handedOver, binlogWritten, cycleRows, stores>>

Lesser(a, b) == IF a < b THEN a ELSE b

(* take_count: whole batches, or to the end of the open transaction. *)
TakeCount(queue, toTxEnd) ==
  LET most == Lesser(reader.batchRows, Len(queue))
      ends == {k \in 1..most : TxEnd(queue[k])}
  IN  IF toTxEnd /\ ends # {} THEN CHOOSE k \in ends : \A other \in ends : k <= other
      ELSE most

TakeQueued(toTxEnd) ==
  LET count == TakeCount(reader.queue, toTxEnd)
      taken == SubSeq(reader.queue, 1, count)
      acks  == {taken[k].ack : k \in 1..count} \ {NoPosition}
      rows  == {<<taken[k].tx, taken[k].row>> : k \in 1..count}
  IN  /\ reader' = [reader EXCEPT
           !.queue = SubSeq(@, count + 1, Len(@)),
           !.committed = IF acks = {} THEN @
                         ELSE CHOOSE a \in acks : \A other \in acks : a >= other,
           !.dirty = @ \/ acks # {},
           !.midTx = ~TxEnd(taken[count]),
           !.batches = @ + 1]
      /\ handedOver' = [handedOver EXCEPT !.rows = @ \cup rows]
      /\ cycleRows' = cycleRows \cup rows
      /\ UNCHANGED <<binlog, stored, takeSnapshot, binlogWritten, stores>>

HandOverBatch ==
  /\ InCycle /\ ~BinlogCapped
  /\ reader.phase = "streaming"
  /\ \/ Len(reader.queue) >= reader.batchRows
     \/ reader.queue # <<>> /\ reader.done
  /\ TakeQueued(FALSE)

(* The rest of a transaction goes out although the cap is reached. *)
HandOverRest ==
  /\ InCycle /\ BinlogCapped
  /\ reader.midTx /\ reader.queue # <<>>
  /\ TakeQueued(TRUE)

(* Faulty variant: the cap ends a cycle wherever it is. *)
EndBinlogCycleAnywhere ==
  /\ InCycle
  /\ \/ /\ BinlogCapped
        /\ reader' = [Abandoned(reader) EXCEPT !.cycleStart = TRUE]
     \/ /\ ~BinlogCapped /\ reader.phase = "streaming"
        /\ reader.queue = <<>> /\ reader.done
        /\ reader' = [reader EXCEPT !.cycleStart = TRUE]
  /\ UNCHANGED <<binlog, stored, takeSnapshot, handedOver, binlogWritten, cycleRows, stores>>

(* Ok(None): the cap, on a transaction boundary, or the end of the stream. *)
EndBinlogCycle ==
  /\ InCycle
  /\ \/ /\ BinlogCapped
        /\ ~reader.midTx \/ reader.queue = <<>>
        /\ reader' = [Abandoned(reader) EXCEPT !.cycleStart = TRUE]
     \/ /\ ~BinlogCapped /\ reader.phase = "streaming"
        /\ reader.queue = <<>> /\ reader.done
        /\ reader' = [reader EXCEPT !.cycleStart = TRUE]
  /\ UNCHANGED <<binlog, stored, takeSnapshot, handedOver, binlogWritten, cycleRows, stores>>

----------------------------------------------------------------------------
(* Failures *)

(* next_batch returns an error, or the host drops it: the cycle is         *)
(* abandoned, and the snapshot if the failure is its own or the call was   *)
(* dropped; committed stays.                                               *)
BinlogCallFails ==
  /\ reader.phase # "unresolved"
  /\ \/ reader' = Abandoned(reader)
     \/ reader' = [Abandoned(reader) EXCEPT !.page = 0, !.pinned = NoPosition]
  /\ cycleRows' = {}
  /\ UNCHANGED <<binlog, stored, takeSnapshot, handedOver, binlogWritten, stores>>

(* The process dies or the node is rebuilt: what was not written is gone. *)
BinlogRestart ==
  /\ reader.phase # "unresolved"
  /\ \E n \in BinlogBatchRows : reader' = FreshReader(n)
  /\ handedOver' = binlogWritten
  /\ cycleRows' = {}
  /\ UNCHANGED <<binlog, stored, takeSnapshot, binlogWritten, stores>>

BinlogNext ==
  \/ CommitTransaction
  \/ LoadStored \/ LoadSnapshot \/ (\E p \in {0, Len(binlog)} : LoadInitial(p))
  \/ StartBinlogCycle \/ StoreUnanswered
  \/ \E n \in BinlogBatchRows : RequestBatchRows(n)
  \/ SnapshotPage \/ LastPage
  \/ ReadTransaction \/ StreamEnds
  \/ HandOverBatch \/ HandOverRest
  \/ EndBinlogCycle
  \/ BinlogCallFails \/ BinlogRestart

BinlogSpec == BinlogInit /\ [][BinlogNext]_binlogVars

----------------------------------------------------------------------------
(* A restart begins at the stored position, so every row before it must    *)
(* have been written: handed over in a cycle the host came back from, or   *)
(* part of such a snapshot.                                                *)
StoredIsWritten ==
  stored # NoPosition =>
    \A tx \in 1..stored : \/ tx <= binlogWritten.upTo
                          \/ \A row \in 1..binlog[tx].rows : <<tx, row>> \in binlogWritten.rows

(* A cycle that nothing interrupted ends on a transaction boundary: all it *)
(* handed over is behind the position, so the next one does not begin with *)
(* the same rows, however small the cap is.                                *)
CyclesMoveOn == reader.cycleStart => \A change \in cycleRows : change[1] <= reader.committed

(* The connector's own offset writes are in the binlog too, and are no     *)
(* news: the position is stored at most once for every transaction of      *)
(* somebody else, and once to begin with.                                  *)
IdleIsQuiet == stores <= 1 + Cardinality({k \in DOMAIN binlog : binlog[k].kind # "own"})
=============================================================================
