---------------------------- MODULE ChangeSources ----------------------------
(***************************************************************************)
(* The sources that acknowledge what they delivered: the MariaDB binlog,   *)
(* the PostgreSQL slot and the two brokers.  They share no state; what     *)
(* they share is the promise an acknowledgement makes.                     *)
(***************************************************************************)
EXTENDS BinlogReader, LogicalReader, BrokerSources

(* A source's acknowledgement is final: the binlog position a restart      *)
(* begins at, the slot position the server forgets up to, the offset or    *)
(* message a broker will not deliver again.  Nothing it covers was skipped *)
(* in silence.  The two change streams acknowledge what the host was       *)
(* handed in a cycle it came back from, and so has written; the brokers    *)
(* what an earlier call handed over, written or not, and what was given up *)
(* with an error the caller got.                                           *)
NoSilentSkips == StoredIsWritten /\ SlotIsWritten /\ SeenOrGivenUp
=============================================================================
