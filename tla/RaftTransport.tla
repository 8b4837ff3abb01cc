--------------------------- MODULE RaftTransport ---------------------------
(***************************************************************************)
(* The TCP transport between one node and one peer                         *)
(* (distributed/consensus/transport): the client's pool of idle streams    *)
(* and circuit breaker, calls that send one request and wait for one       *)
(* answer, a snapshot sent in chunks over one stream, and the peer's       *)
(* handler with its reassembly of chunks per connection.                   *)
(*                                                                         *)
(* A request is the call that made it; a snapshot is the sequence of its   *)
(* chunks 1 .. Chunks.  forward_proposal uses a pool of its own the way    *)
(* Call does, without the breaker.                                         *)
(***************************************************************************)
EXTENDS Naturals, Sequences, SequencesExt, FiniteSets

CONSTANTS
  Callers,       \* tasks that call the peer at the same time
  Chunks,        \* chunks of a snapshot
  PoolCapacity,  \* POOL_CAPACITY
  Threshold,     \* CIRCUIT_OPEN_THRESHOLD
  MaxStreams,    \* bound on the connections of a run
  MaxCalls       \* bound on the calls of a run

ASSUME TransportAssumption ==
  /\ Chunks \in Nat \ {0} /\ PoolCapacity \in Nat /\ Threshold \in Nat \ {0}
  /\ MaxStreams \in Nat /\ MaxCalls \in Nat

Streams == 1 .. MaxStreams

VARIABLES
  circuit,    \* CircuitState: failures in a row while closed, or open
  elapsed,    \* CIRCUIT_OPEN_DURATION has passed since it opened
  idle,       \* the pool, oldest first
  opened,     \* streams connected so far
  live,       \* streams the peer has not closed
  asks,       \* per stream, requests on their way
  answers,    \* per stream, answers on their way
  partial,    \* per stream, the chunks the peer holds
  call,       \* per caller, what it waits for
  calls,      \* calls made so far
  installed,  \* snapshots the peer assembled
  stale,      \* streams whose transfer is past SNAPSHOT_TRANSFER_IDLE_TIMEOUT
  evicted     \* a stale transfer was evicted

transportVars == <<circuit, elapsed, idle, opened, live, asks, answers,
                   partial, call, calls, installed, stale, evicted>>

Closed(n) == [open |-> FALSE, n |-> n]
Open == [open |-> TRUE, n |-> 0]
NoCall == [kind |-> "none", id |-> 0, stream |-> 0, sent |-> 0]

TransportInit ==
  /\ circuit = Closed(0)
  /\ elapsed = FALSE
  /\ idle = <<>>
  /\ opened = 0
  /\ live = {}
  /\ asks = [s \in Streams |-> <<>>]
  /\ answers = [s \in Streams |-> <<>>]
  /\ partial = [s \in Streams |-> <<>>]
  /\ call = [c \in Callers |-> NoCall]
  /\ calls = 0
  /\ installed = {}
  /\ stale = {}
  /\ evicted = FALSE

----------------------------------------------------------------------------
(* CircuitState.                                                           *)

IsOpen == circuit.open /\ ~elapsed

RecordSuccess ==
  /\ circuit' = Closed(0)
  /\ elapsed' = FALSE

(* A failure after the open period leaves one failure on the count. *)
RecordFailure ==
  /\ circuit' = IF circuit.open THEN IF elapsed THEN Closed(1) ELSE circuit
                ELSE IF circuit.n + 1 >= Threshold THEN Open
                ELSE Closed(circuit.n + 1)
  /\ elapsed' = (elapsed /\ circuit'.open)

Unrecorded == UNCHANGED <<circuit, elapsed>>

OpenPeriodPasses ==
  /\ circuit.open
  /\ elapsed' = TRUE
  /\ UNCHANGED <<circuit, idle, opened, live, asks, answers, partial, call,
                 calls, installed, stale, evicted>>

----------------------------------------------------------------------------
(* acquire, and the first frame of a call.  Idle streams past              *)
(* POOL_MAX_IDLE are dropped on the way, oldest first.                     *)

Request(c) == [id |-> call'[c].id, chunk |-> call'[c].sent]

Send(c, s) ==
  /\ asks' = [asks EXCEPT ![s] = Append(@, Request(c))]
  /\ UNCHANGED <<answers, partial, installed, stale, evicted>>

Begin(c, kind, s) ==
  /\ call[c].kind = "none"
  /\ ~IsOpen
  /\ calls < MaxCalls
  /\ calls' = calls + 1
  /\ call' = [call EXCEPT ![c] = [kind |-> kind, id |-> calls + 1, stream |-> s,
                                  sent |-> IF kind = "snapshot" THEN 1 ELSE 0]]
  /\ Unrecorded

CallPooled(c, kind) ==
  \E k \in 1 .. Len(idle) :
    /\ idle[k] \in live
    /\ idle' = SubSeq(idle, k + 1, Len(idle))
    /\ Begin(c, kind, idle[k])
    /\ Send(c, idle[k])
    /\ UNCHANGED <<opened, live>>

CallConnected(c, kind) ==
  /\ opened < MaxStreams
  /\ opened' = opened + 1
  /\ live' = live \cup {opened + 1}
  /\ idle' = <<>>
  /\ Begin(c, kind, opened + 1)
  /\ Send(c, opened + 1)

(* A pooled stream the peer has closed fails the write. *)
CallBroken(c, kind) ==
  \E k \in 1 .. Len(idle) :
    /\ call[c].kind = "none" /\ ~IsOpen /\ calls < MaxCalls
    /\ idle[k] \notin live
    /\ idle' = SubSeq(idle, k + 1, Len(idle))
    /\ calls' = calls + 1
    /\ IF kind = "rpc" THEN RecordFailure ELSE Unrecorded
    /\ UNCHANGED <<opened, live, asks, answers, partial, call, installed, stale, evicted>>

----------------------------------------------------------------------------
(* The answer, or the lack of one.                                         *)

Release(s) == IF Len(idle) < PoolCapacity THEN Append(idle, s) ELSE idle

Kept == UNCHANGED <<opened, live, asks, partial, calls, installed, stale, evicted>>

Answered(c) == call[c].kind # "none" /\ answers[call[c].stream] # <<>>

Consume(c) == answers' = [answers EXCEPT ![call[c].stream] = Tail(@)]

(* send_envelope got its answer. *)
Receive(c) ==
  /\ Answered(c)
  /\ call[c].kind = "rpc"
  /\ Consume(c)
  /\ idle' = Release(call[c].stream)
  /\ call' = [call EXCEPT ![c] = NoCall]
  /\ RecordSuccess
  /\ Kept

(* send_snapshot_chunks got an acknowledgement and sends the next chunk. *)
NextChunk(c) ==
  /\ Answered(c)
  /\ call[c].kind = "snapshot"
  /\ call[c].sent < Chunks
  /\ Consume(c)
  /\ call' = [call EXCEPT ![c].sent = @ + 1]
  /\ asks' = [asks EXCEPT ![call[c].stream] = Append(@, Request(c))]
  /\ Unrecorded
  /\ UNCHANGED <<idle, opened, live, partial, calls, installed, stale, evicted>>

SnapshotDone(c) ==
  /\ Answered(c)
  /\ call[c].kind = "snapshot"
  /\ call[c].sent = Chunks
  /\ Consume(c)
  /\ idle' = Release(call[c].stream)
  /\ call' = [call EXCEPT ![c] = NoCall]
  /\ Unrecorded
  /\ Kept

(* Faulty variant: a timed-out call returns its stream to the pool. *)
GiveUpReleasing(c) ==
  /\ call[c].kind # "none"
  /\ idle' = Release(call[c].stream)
  /\ call' = [call EXCEPT ![c] = NoCall]
  /\ Unrecorded
  /\ UNCHANGED answers
  /\ Kept

(* A read or write timeout, an answer that does not decode, or openraft    *)
(* dropping the call: the stream goes with it, the breaker hears nothing.  *)
GiveUp(c) ==
  /\ call[c].kind # "none"
  /\ call' = [call EXCEPT ![c] = NoCall]
  /\ Unrecorded
  /\ UNCHANGED <<idle, answers>>
  /\ Kept

(* The peer closed the connection while the call was waiting. *)
Reset(c) ==
  /\ call[c].kind # "none"
  /\ call[c].stream \notin live
  /\ answers[call[c].stream] = <<>>
  /\ call' = [call EXCEPT ![c] = NoCall]
  /\ IF call[c].kind = "rpc" THEN RecordFailure ELSE Unrecorded
  /\ UNCHANGED <<idle, answers>>
  /\ Kept

----------------------------------------------------------------------------
(* The peer: handle_connection and handle_envelope.                        *)

Serve(s) ==
  /\ s \in live
  /\ asks[s] # <<>>
  /\ asks' = [asks EXCEPT ![s] = Tail(@)]
  /\ answers' = [answers EXCEPT ![s] = Append(@, Head(asks[s]))]
  /\ UNCHANGED <<circuit, elapsed, idle, opened, live, call, calls>>

ServeRpc(s) ==
  /\ Serve(s)
  /\ Head(asks[s]).chunk = 0
  /\ UNCHANGED <<partial, installed, stale, evicted>>

(* Faulty variant: a chunk replaces what the transfer held. *)
HeldReplaced(s) == <<Head(asks[s]).chunk>>

Held(s) == Append(partial[s], Head(asks[s]).chunk)

(* A chunk first evicts a stale transfer, its own included. *)
ServeChunk(s) ==
  /\ Serve(s)
  /\ Head(asks[s]).chunk \in 1 .. Chunks - 1
  /\ partial' = [partial EXCEPT ![s] =
       IF s \in stale THEN <<Head(asks[s]).chunk>> ELSE Held(s)]
  /\ stale' = stale \ {s}
  /\ evicted' = (evicted \/ s \in stale)
  /\ UNCHANGED installed

(* The last chunk is appended to whatever the connection holds. *)
ServeFinal(s) ==
  /\ Serve(s)
  /\ Head(asks[s]).chunk = Chunks
  /\ installed' = installed \cup {Held(s)}
  /\ partial' = [partial EXCEPT ![s] = <<>>]
  /\ stale' = stale \ {s}
  /\ UNCHANGED evicted

(* The sender pauses longer than the peer keeps an idle transfer, and less *)
(* than it keeps an idle connection.                                       *)
Stall(s) ==
  /\ s \in live
  /\ partial[s] # <<>> /\ asks[s] = <<>>
  /\ stale' = stale \cup {s}
  /\ UNCHANGED <<circuit, elapsed, idle, opened, live, asks, answers, partial,
                 call, calls, installed, evicted>>

(* The peer closes: an idle timeout, a shutdown, a crash. *)
PeerCloses(s) ==
  /\ s \in live
  /\ live' = live \ {s}
  /\ asks' = [asks EXCEPT ![s] = <<>>]
  /\ partial' = [partial EXCEPT ![s] = <<>>]
  /\ stale' = stale \ {s}
  /\ UNCHANGED <<circuit, elapsed, idle, opened, answers, call, calls,
                 installed, evicted>>

Client(c) ==
  \/ \E kind \in {"rpc", "snapshot"} :
       CallPooled(c, kind) \/ CallConnected(c, kind) \/ CallBroken(c, kind)
  \/ Receive(c) \/ NextChunk(c) \/ SnapshotDone(c) \/ GiveUp(c) \/ Reset(c)

Peer(s) == ServeRpc(s) \/ ServeChunk(s) \/ ServeFinal(s) \/ Stall(s) \/ PeerCloses(s)

TransportNext ==
  \/ \E c \in Callers : Client(c)
  \/ \E s \in Streams : Peer(s)
  \/ OpenPeriodPasses

TransportSpec == TransportInit /\ [][TransportNext]_transportVars

----------------------------------------------------------------------------
(* An answer goes to the call it answers, although streams are shared      *)
(* through the pool and calls are dropped half-way: whatever travels on    *)
(* the stream a call holds is its own, no two calls hold one stream, and   *)
(* nothing is outstanding on a pooled one.                                 *)
AnswersAreOwn ==
  /\ \A c \in Callers : LET s == call[c].stream IN
       call[c].kind # "none" =>
         /\ s \notin ToSet(idle)
         /\ \A r \in ToSet(asks[s]) \cup ToSet(answers[s]) : r.id = call[c].id
         /\ \A d \in Callers \ {c} : call[d].kind # "none" => call[d].stream # s
  /\ \A s \in ToSet(idle) : asks[s] = <<>> /\ answers[s] = <<>> /\ partial[s] = <<>>

(* A snapshot is installed whole or not at all, whichever calls were       *)
(* dropped or connections lost on the way, as long as no transfer was      *)
(* evicted under its sender.                                               *)
SnapshotsAreWhole == ~evicted => installed \subseteq {[k \in 1 .. Chunks |-> k]}

=============================================================================
