---------------------------- MODULE BrokerSources ----------------------------
(***************************************************************************)
(* The two broker sources, each on its own copy of one queue of messages:  *)
(* KafkaSource (connector-kafka source.rs), which commits a position, and  *)
(* NatsSource on JetStream (connector-nats source.rs), which acknowledges  *)
(* messages one by one.  Both acknowledge what a call handed over at the   *)
(* start of the next call, keep a window a dropped call had collected, and *)
(* drop a window that does not decode.                                     *)
(*                                                                         *)
(* The broker is modelled from how the sources use it: it delivers in      *)
(* order, and JetStream delivers again what was not acknowledged in time.  *)
(***************************************************************************)
EXTENDS Naturals, Sequences, SequencesExt, FiniteSets

CONSTANTS
  Messages,       \* how many messages the queue holds
  WindowSize,     \* batch_size
  DecodeAttempts, \* max_decode_attempts
  MaxDeliveries   \* bound on the deliveries of a message

ASSUME BrokerAssumption ==
  /\ Messages \in Nat /\ WindowSize \in Nat \ {0}
  /\ DecodeAttempts \in Nat \ {0} /\ MaxDeliveries \in Nat

VARIABLES
  bad,      \* messages whose payload does not decode
  kafka,    \* the consumer and the group's offset
  nats      \* the consumer and the server's view of each message

brokerVars == <<bad, kafka, nats>>

Ids == 1..Messages

BrokerInit ==
  /\ bad \in SUBSET Ids
  /\ kafka = [offset |-> 0, position |-> 0, buffer |-> <<>>, pending |-> FALSE,
              handed |-> {}, failed |-> {}]
  /\ nats = [server |-> [m \in Ids |-> "waiting"], deliveries |-> [m \in Ids |-> 0],
             buffer |-> <<>>, acks |-> {}, handed |-> {}]

Decodes(window) == \A k \in DOMAIN window : window[k] \notin bad

----------------------------------------------------------------------------
(* KafkaSource: offset and position count the messages before them. *)

(* commit_pending, at the start of a call.  The commit is asynchronous and *)
(* may never reach the group.                                              *)
KafkaCommit ==
  /\ kafka.pending
  /\ \E arrived \in BOOLEAN :
       kafka' = [kafka EXCEPT !.pending = FALSE,
                              !.offset = IF arrived THEN kafka.position ELSE @]
  /\ UNCHANGED <<bad, nats>>

(* Faulty variant: the next window is collected before the commit. *)
KafkaReceiveFirst ==
  /\ Len(kafka.buffer) < WindowSize
  /\ kafka.position < Messages
  /\ kafka' = [kafka EXCEPT !.position = @ + 1, !.buffer = Append(@, kafka.position + 1)]
  /\ UNCHANGED <<bad, nats>>

(* collect_live and collect_bounded: one message more. *)
KafkaReceive ==
  /\ ~kafka.pending
  /\ Len(kafka.buffer) < WindowSize
  /\ kafka.position < Messages
  /\ kafka' = [kafka EXCEPT !.position = @ + 1, !.buffer = Append(@, kafka.position + 1)]
  /\ UNCHANGED <<bad, nats>>

(* The window is full or its time is up: hand it over or drop it. *)
KafkaHandOver ==
  /\ ~kafka.pending /\ kafka.buffer # <<>>
  /\ kafka' = IF Decodes(kafka.buffer)
              THEN [kafka EXCEPT !.buffer = <<>>, !.pending = TRUE,
                                 !.handed = @ \cup ToSet(kafka.buffer)]
              ELSE [kafka EXCEPT !.buffer = <<>>, !.failed = @ \cup ToSet(kafka.buffer)]
  /\ UNCHANGED <<bad, nats>>

(* The consumer is gone; the next one starts at the group's offset. *)
KafkaRestart ==
  /\ kafka.position # kafka.offset
  /\ kafka' = [kafka EXCEPT !.position = kafka.offset, !.buffer = <<>>, !.pending = FALSE]
  /\ UNCHANGED <<bad, nats>>

----------------------------------------------------------------------------
(* NatsSource.  An acknowledgement or a termination is sent for one        *)
(* delivery, and the server takes it whenever it comes.                    *)

(* flush_pending_acks: an error drops the ones not yet sent. *)
NatsAck ==
  /\ nats.acks # {}
  /\ \E sent \in SUBSET nats.acks :
       nats' = [nats EXCEPT !.acks = {},
                            !.server = [m \in Ids |-> IF m \in sent THEN "gone" ELSE @[m]]]
  /\ UNCHANGED <<bad, kafka>>

(* collect_jetstream: a pull hands over one message more.  It asks for at  *)
(* least one, also when a dropped call left a full window.                 *)
NatsReceive(m) ==
  /\ nats.acks = {}
  /\ Len(nats.buffer) <= WindowSize
  /\ nats.server[m] = "waiting"
  /\ nats.deliveries[m] < MaxDeliveries
  /\ nats' = [nats EXCEPT !.server[m] = "delivered", !.deliveries[m] = @ + 1,
                          !.buffer = Append(@, [id |-> m, delivered |-> nats.deliveries[m] + 1])]
  /\ UNCHANGED <<bad, kafka>>

(* ack_wait ran out, whoever holds the message. *)
AckWaitExpires(m) ==
  /\ nats.server[m] = "delivered"
  /\ nats' = [nats EXCEPT !.server[m] = "waiting"]
  /\ UNCHANGED <<bad, kafka>>

WindowIds == [k \in DOMAIN nats.buffer |-> nats.buffer[k].id]

(* Faulty variant: the whole window is given up. *)
RetiredWindow == ToSet(WindowIds)

(* retire_exhausted: the first message that does not decode, once it was   *)
(* delivered as often as allowed.                                          *)
Retired ==
  LET culprit == CHOOSE k \in DOMAIN WindowIds :
                   /\ WindowIds[k] \in bad
                   /\ \A other \in DOMAIN WindowIds : WindowIds[other] \in bad => k <= other
  IN  IF nats.buffer[culprit].delivered < DecodeAttempts THEN {} ELSE {WindowIds[culprit]}

NatsHandOver ==
  /\ nats.acks = {} /\ nats.buffer # <<>>
  /\ Decodes(WindowIds)
  /\ nats' = [nats EXCEPT !.buffer = <<>>, !.acks = ToSet(WindowIds),
                          !.handed = @ \cup ToSet(WindowIds)]
  /\ UNCHANGED <<bad, kafka>>

(* The window is dropped unacknowledged; a termination may be lost. *)
NatsDecodeFails ==
  /\ nats.acks = {} /\ nats.buffer # <<>>
  /\ ~Decodes(WindowIds)
  /\ \E terminated \in SUBSET Retired :
       nats' = [nats EXCEPT !.buffer = <<>>,
                            !.server = [m \in Ids |-> IF m \in terminated THEN "gone" ELSE @[m]]]
  /\ UNCHANGED <<bad, kafka>>

NatsRestart ==
  /\ nats.buffer # <<>> \/ nats.acks # {}
  /\ nats' = [nats EXCEPT !.buffer = <<>>, !.acks = {}]
  /\ UNCHANGED <<bad, kafka>>

KafkaNext == KafkaCommit \/ KafkaReceive \/ KafkaHandOver \/ KafkaRestart

NatsNext ==
  \/ NatsAck \/ NatsHandOver \/ NatsDecodeFails \/ NatsRestart
  \/ \E m \in Ids : NatsReceive(m) \/ AckWaitExpires(m)

BrokerSpec == BrokerInit /\ [][KafkaNext \/ NatsNext]_brokerVars

----------------------------------------------------------------------------
(* What a broker will not deliver again was handed to the caller by a call *)
(* before the one that acknowledged it, or was given up with an error the  *)
(* caller got: on Kafka the whole window of a message that does not        *)
(* decode, on JetStream that message alone and only after its attempts.    *)
(* Dropped calls, late acknowledgements and redeliveries skip nothing      *)
(* silently.  Handed over is not written: a crash while the host still     *)
(* holds what the next call acknowledged loses it.                         *)
SeenOrGivenUp ==
  /\ \A m \in 1..kafka.offset : m \in kafka.handed \cup kafka.failed
  /\ \A m \in Ids : nats.server[m] = "gone" =>
       m \in nats.handed \/ (m \in bad /\ nats.deliveries[m] >= DecodeAttempts)

(* The committed position covers no decodable message the caller was not   *)
(* handed (KafkaSource::next_batch, source.rs:898: "the consumer's         *)
(* position covers nothing the caller has not seen").  The code breaks     *)
(* this: the whole window around a message that does not decode is dropped *)
(* with an error, the position has passed it, and the commit of the next   *)
(* good window covers its good messages too.                               *)
KafkaCommitsOnlySeen == \A m \in 1..kafka.offset : m \in kafka.handed \cup bad
=============================================================================
