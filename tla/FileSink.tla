------------------------------ MODULE FileSink ------------------------------
(***************************************************************************)
(* FileSink (connector-file sink.rs): one file that batches are appended   *)
(* to, each landing whole or, when a write, a flush or a sync fails, taken *)
(* back out of the file before the next one.                               *)
(*                                                                         *)
(* The file is a sequence of pieces: a batch is two, so that half of it    *)
(* can be there, and a format with a header writes one before its first.   *)
(* Another process may append to the file between any two system calls.    *)
(* A failed batch is offered again or given up for the next one.           *)
(***************************************************************************)
EXTENDS Naturals, Sequences, SequencesExt

CONSTANTS
  MaxBatches,     \* bound on the batches offered
  MaxWriteFaults, \* bound on failing system calls
  MaxIntrusions   \* bound on the appends of another process

ASSUME FileSinkAssumption ==
  MaxBatches \in Nat /\ MaxWriteFaults \in Nat /\ MaxIntrusions \in Nat

VARIABLES
  format,     \* "plain" (restartable) or "headed" (writes a header once)
  file,       \* the pieces in the file
  writer,     \* the open BatchWriter: its buffer, and whether its header is out
  counted,    \* pieces the writers have put in the file, cut or not
  pendingCut, \* Pending: where the batch in flight started, and the plan
  landed,     \* the batches write_batch returned Ok for
  refused,    \* why the sink takes no more: "no", "others", "format", "finish"
  callAt,     \* where a call is
  callBatch,  \* the batch of the call
  sinkFaults, \* failing system calls so far
  intrusions, \* pieces another process has appended
  unguarded   \* ... of these where the sink cannot tell them from its own

fileVars == <<format, file, writer, counted, pendingCut, landed, refused, callAt, callBatch,
              sinkFaults, intrusions, unguarded>>

Header   == <<0, 0>>
Footer   == <<0, 1>>
Intruder == <<0, 2>>
Pieces(b) == <<<<b, 1>>, <<b, 2>>>>

NoWriter  == [open |-> FALSE, buffer |-> <<>>, headed |-> FALSE, base |-> 0]
NewWriter == [open |-> TRUE, buffer |-> <<>>, headed |-> FALSE, base |-> counted]
NoPending == [set |-> FALSE, len |-> 0, counted |-> 0, planned |-> FALSE, reopen |-> FALSE]

FileInit ==
  /\ format \in {"plain", "headed"}
  /\ file = <<>>
  /\ writer = [open |-> TRUE, buffer |-> <<>>, headed |-> FALSE, base |-> 0]
  /\ counted = 0
  /\ pendingCut = NoPending
  /\ landed = <<>>
  /\ refused = "no"
  /\ callAt = "idle"
  /\ callBatch = 1
  /\ sinkFaults = 0
  /\ intrusions = 0
  /\ unguarded = 0

SinkFault == sinkFaults < MaxWriteFaults /\ sinkFaults' = sinkFaults + 1

----------------------------------------------------------------------------
(* write_batch and finish: begin settles an earlier batch first. *)
BeginCall ==
  /\ callAt = "idle"
  /\ callAt' = IF pendingCut.set THEN "recoverFirst" ELSE "start"
  /\ UNCHANGED <<format, file, writer, counted, pendingCut, landed, refused, callBatch,
                 sinkFaults, intrusions, unguarded>>

Refuse ==
  /\ callAt = "start" /\ refused # "no"
  /\ callAt' = "failed"
  /\ UNCHANGED <<format, file, writer, counted, pendingCut, landed, refused, callBatch,
                 sinkFaults, intrusions, unguarded>>

(* encode records where the batch starts. *)
StartBatch ==
  /\ callAt = "start" /\ refused = "no"
  /\ callBatch <= MaxBatches
  /\ callAt' = "write"
  /\ pendingCut' = [NoPending EXCEPT !.set = TRUE, !.len = Len(file), !.counted = counted]
  /\ UNCHANGED <<format, file, writer, counted, landed, refused, callBatch, sinkFaults,
                 intrusions, unguarded>>

(* The writer encodes into its buffer; the buffer reaches the file piece   *)
(* by piece, with the header before the first batch of a headed format.    *)
EncodeBatch ==
  /\ callAt = "write"
  /\ writer' = [writer EXCEPT
                  !.buffer =
                    @ \o (IF format = "headed" /\ ~writer.headed THEN <<Header>> ELSE <<>>)
                      \o Pieces(callBatch),
                  !.headed = TRUE]
  /\ callAt' = "flush"
  /\ UNCHANGED <<format, file, counted, pendingCut, landed, refused, callBatch, sinkFaults,
                 intrusions, unguarded>>

FlushPiece ==
  /\ callAt = "flush" /\ writer.buffer # <<>>
  /\ file' = Append(file, Head(writer.buffer))
  /\ counted' = counted + 1
  /\ writer' = [writer EXCEPT !.buffer = Tail(@)]
  /\ UNCHANGED <<format, pendingCut, landed, refused, callAt, callBatch, sinkFaults,
                 intrusions, unguarded>>

(* sync_data: the batch has landed. *)
SyncFile ==
  /\ callAt = "flush" /\ writer.buffer = <<>>
  /\ pendingCut' = NoPending
  /\ landed' = Append(landed, callBatch)
  /\ callBatch' = callBatch + 1
  /\ callAt' = "idle"
  /\ UNCHANGED <<format, file, writer, counted, refused, sinkFaults, intrusions, unguarded>>

(* A write, the flush or the sync fails. *)
EncodeFails ==
  /\ callAt \in {"write", "flush"}
  /\ SinkFault
  /\ callAt' = "recover"
  /\ UNCHANGED <<format, file, writer, counted, pendingCut, landed, refused, callBatch,
                 intrusions, unguarded>>

----------------------------------------------------------------------------
(* recover *)

Recovering == callAt \in {"recover", "recoverFirst"}

(* Faulty variant: a new writer always takes over. *)
ReopensAlways == TRUE

(* plan: a new writer may follow if the format can resume, or if nothing   *)
(* has landed yet and the old one wrote nothing before its first batch.    *)
Reopens ==
  IF landed # <<>> THEN format = "plain" ELSE pendingCut.counted = writer.base

(* The plan is made once, from the writer; then the writer is dropped,     *)
(* which flushes what it still holds, perhaps not to its end.              *)
DropWriter ==
  /\ Recovering /\ ~pendingCut.planned
  /\ pendingCut' = [pendingCut EXCEPT !.planned = TRUE, !.reopen = Reopens]
  /\ \E k \in 0..Len(writer.buffer) :
       /\ file' = file \o SubSeq(writer.buffer, 1, k)
       /\ counted' = counted + k
  /\ writer' = NoWriter
  /\ UNCHANGED <<format, landed, refused, callAt, callBatch, sinkFaults, intrusions,
                 unguarded>>

(* Where the call goes once nothing is pending. *)
Settles == callAt' = IF callAt = "recoverFirst" THEN "start" ELSE "failed"

(* Faulty variant: the file is cut whatever has been appended to it. *)
MeasureNothing ==
  /\ Recovering /\ pendingCut.planned
  /\ callAt' = IF callAt = "recoverFirst" THEN "cutFirst" ELSE "cut"
  /\ UNCHANGED <<format, file, writer, counted, pendingCut, landed, refused, callBatch,
                 sinkFaults, intrusions, unguarded>>

(* The file must be as long as our own writes say, or a cut would take the *)
(* bytes of somebody else along.                                           *)
MeasureFile ==
  /\ Recovering /\ pendingCut.planned
  /\ IF Len(file) = pendingCut.len + (counted - pendingCut.counted)
     THEN /\ callAt' = IF callAt = "recoverFirst" THEN "cutFirst" ELSE "cut"
          /\ UNCHANGED <<pendingCut, refused>>
     ELSE /\ refused' = "others"
          /\ pendingCut' = NoPending
          /\ Settles
  /\ UNCHANGED <<format, file, writer, counted, landed, callBatch, sinkFaults,
                 intrusions, unguarded>>

(* The file cannot be measured, before a batch or before a cut. *)
MeasureFails ==
  /\ \/ callAt = "start" /\ refused = "no" /\ callBatch <= MaxBatches
     \/ Recovering /\ pendingCut.planned
  /\ SinkFault
  /\ callAt' = "failed"
  /\ UNCHANGED <<format, file, writer, counted, pendingCut, landed, refused, callBatch,
                 intrusions, unguarded>>

Cutting == callAt \in {"cut", "cutFirst"}

(* set_len, and a new writer if the plan says so. *)
CutBack ==
  /\ Cutting
  /\ file' = SubSeq(file, 1, pendingCut.len)
  /\ pendingCut' = NoPending
  /\ IF pendingCut.reopen
     THEN writer' = NewWriter /\ UNCHANGED refused
     ELSE refused' = "format" /\ UNCHANGED writer
  /\ callAt' = IF callAt = "cutFirst" THEN "start" ELSE "failed"
  /\ UNCHANGED <<format, counted, landed, callBatch, sinkFaults, intrusions, unguarded>>

(* The cut fails, or it works and the new writer cannot be opened: the     *)
(* batch stays pending, with its plan, for the next call.                  *)
CutFails ==
  /\ Cutting
  /\ SinkFault
  /\ file' \in {file} \cup (IF pendingCut.reopen THEN {SubSeq(file, 1, pendingCut.len)} ELSE {})
  /\ callAt' = "failed"
  /\ UNCHANGED <<format, writer, counted, pendingCut, landed, refused, callBatch,
                 intrusions, unguarded>>

(* The call returns its error; the caller retries or goes on. *)
ReturnError ==
  /\ callAt = "failed"
  /\ callAt' = "idle"
  /\ callBatch' \in {callBatch, callBatch + 1} \cap 1..(MaxBatches + 1)
  /\ UNCHANGED <<format, file, writer, counted, pendingCut, landed, refused, sinkFaults,
                 intrusions, unguarded>>

----------------------------------------------------------------------------
(* finish: the footer of a format that has one, and the handles are        *)
(* released; if it or its sync fails, every later call is refused.         *)
FinishFile ==
  /\ callAt = "start" /\ refused = "no"
  /\ writer' = NoWriter
  /\ file' \in {file} \cup (IF format = "headed" THEN {Append(file, Footer)} ELSE {})
  /\ \/ callAt' = "finished" /\ UNCHANGED <<refused, sinkFaults>>
     \/ SinkFault /\ refused' = "finish" /\ callAt' = "failed"
  /\ UNCHANGED <<format, counted, pendingCut, landed, callBatch, intrusions, unguarded>>

(* An append the length cannot betray: between the measurement and the     *)
(* cut, or into a file that was cut but whose batch is still pending.      *)
Unguarded ==
  \/ Cutting
  \/ pendingCut.set /\ Len(file) < pendingCut.len + (counted - pendingCut.counted)

IntrudeFile ==
  /\ intrusions < MaxIntrusions
  /\ intrusions' = intrusions + 1
  /\ unguarded' = IF Unguarded THEN unguarded + 1 ELSE unguarded
  /\ file' = Append(file, Intruder)
  /\ UNCHANGED <<format, writer, counted, pendingCut, landed, refused, callAt, callBatch,
                 sinkFaults>>

FileNext ==
  \/ BeginCall \/ Refuse \/ StartBatch \/ EncodeBatch \/ FlushPiece \/ SyncFile \/ EncodeFails
  \/ DropWriter \/ MeasureFile \/ MeasureFails \/ CutBack \/ CutFails \/ ReturnError
  \/ FinishFile \/ IntrudeFile

FileSpec == FileInit /\ [][FileNext]_fileVars

----------------------------------------------------------------------------
OurPieces == {Header} \cup ((1..MaxBatches) \X {1, 2})

(* The pieces of f that are in S, in their order. *)
Only(f, S) == FlattenSeq([k \in DOMAIN f |-> IF f[k] \in S THEN <<f[k]>> ELSE <<>>])

Ours(f)   == Only(f, OurPieces)
Theirs(f) == Only(f, {Intruder})

Encoded ==
  (IF format = "headed" /\ landed # <<>> THEN <<Header>> ELSE <<>>)
  \o FlattenSeq([k \in DOMAIN landed |-> Pieces(landed[k])])

(* Between calls with nothing left to settle, the file holds exactly the   *)
(* batches whose write returned Ok, each once and whole, under one header, *)
(* whatever failed or was retried in between.  Only a sink that refused    *)
(* because somebody else appended may hold a failed batch after them, and  *)
(* then it is the last thing the sink has written.  What others appended   *)
(* stays, unless it came where the length of the file cannot betray it.    *)
LandsOnceOrNot ==
  callAt = "idle" /\ ~pendingCut.set =>
    /\ IsPrefix(Encoded, Ours(file))
    /\ refused # "others" => Ours(file) = Encoded
    /\ Len(Ours(file)) <= Len(Encoded) + 3
    /\ Len(Theirs(file)) >= intrusions - unguarded
=============================================================================
