-------------------------- MODULE DeadLetterQueue --------------------------
(***************************************************************************)
(* The dead letter queue of one workflow (service/dlq.rs) over its default *)
(* store, a redb file: one letter is one entry, recording and replaying    *)
(* halves never hold the file together, a clean end of stream says that    *)
(* the store is empty, and what was read is deleted when the reading half  *)
(* finishes.                                                               *)
(*                                                                         *)
(* Everything here runs inline in the runner, so this module has the       *)
(* queue's state and the effects of its methods; StandaloneRunner says     *)
(* when they run.  A letter is the batch it carries: its reason, counters  *)
(* and timestamps are left out.  All letters are for one sink.  Whether    *)
(* the recording half is up, and when its backoff lets it be rebuilt, is   *)
(* the choice between storing a batch and losing it.                       *)
(***************************************************************************)
EXTENDS Naturals, Sequences, SequencesExt, FiniteSets

CONSTANT MaxFaults    \* bound on injected failures

ASSUME FaultAssumption == MaxFaults \in Nat

VARIABLES
  entries,     \* the store: letters in key order
  waiting,     \* pending_letters, as far as this process knows
  known,       \* a replay of this process has read the store through
  started,     \* started_once
  schedule,    \* next_auto_replay: "none", "set" or "due"
  request,     \* DlqShared's slot
  healed,      \* the sink's recovered flag
  phase,       \* of the replay under way: "idle", "fetch", "finish", "rewrite"
  replay,      \* its trigger, the entries fetched and consumed, what it keeps
  lost,        \* rows counted as lost
  purged,      \* rows discarded on request
  recorded,    \* rows that were ever stored
  unfinished,  \* a reading half failed to delete what it had handed over
  faults       \* failures injected so far

dlqVars == <<entries, waiting, known, started, schedule, request, healed,
             phase, replay, lost, purged, recorded, unfinished, faults>>

(* Requests: replay everything, replay what a filter admits (nothing of    *)
(* this sink), discard everything.                                         *)
Requests == {"Manual", "Filtered", "Purge"}
Triggers == Requests \cup {"Startup", "Heal", "Schedule"}

Rows(batches) == UNION {ToSet(batches[k]) : k \in DOMAIN batches}

NoReplay == [trigger |-> "Startup", fetched |-> 0, consumed |-> 0,
             retained |-> <<>>, window |-> 0, refused |-> FALSE, error |-> FALSE]

DlqInit ==
  /\ entries = <<>>
  /\ waiting = 0
  /\ known = FALSE
  /\ started = FALSE
  /\ schedule = "none"
  /\ request = "none"
  /\ healed = FALSE
  /\ phase = "idle"
  /\ replay = NoReplay
  /\ lost = {} /\ purged = {} /\ recorded = {}
  /\ unfinished = FALSE
  /\ faults = 0

Fault == faults < MaxFaults /\ faults' = faults + 1

----------------------------------------------------------------------------
(* record: a batch the sink refused is stored, after a rebuild of the      *)
(* recording half if it is down and its backoff allows, or counted lost.   *)

RecordStored(batch) ==
  /\ entries' = Append(entries, batch)
  /\ recorded' = recorded \cup ToSet(batch)
  /\ waiting' = waiting + 1
  /\ schedule' = IF schedule = "none" THEN "set" ELSE schedule
  /\ UNCHANGED <<lost, faults>>

RecordLost(batch) ==
  /\ Fault
  /\ lost' = lost \cup ToSet(batch)
  /\ UNCHANGED <<entries, recorded, waiting, schedule>>

Record(batch) ==
  /\ RecordStored(batch) \/ RecordLost(batch)
  /\ UNCHANGED <<known, started, request, phase, replay, purged, unfinished>>

----------------------------------------------------------------------------
(* maybe_replay: what calls for a replay now, or "none".                   *)

(* Faulty variant: an empty queue is not looked at, request or not. *)
TriggerNowKnownFirst(cancelled) ==
  CASE waiting = 0 /\ known -> "none"
    [] request # "none" -> request
    [] request = "none" /\ cancelled -> "none"
    [] request = "none" /\ ~cancelled /\ ~started -> "Startup"
    [] OTHER -> "none"

TriggerNow(cancelled) ==
  IF request # "none" THEN request
  ELSE IF cancelled THEN "none"
  ELSE IF ~started THEN "Startup"
  ELSE IF waiting = 0 /\ known THEN "none"
  ELSE IF healed THEN "Heal"
  ELSE IF schedule = "due" THEN "Schedule"
  ELSE "none"

(* Nothing to do; the flag of a healed sink is spent either way. *)
NoReplayNow(cancelled) ==
  /\ phase = "idle"
  /\ TriggerNow(cancelled) = "none"
  /\ started' = TRUE
  /\ healed' = FALSE
  /\ UNCHANGED <<entries, waiting, known, schedule, request, phase, replay,
                 lost, purged, recorded, unfinished, faults>>

(* The request is taken and the reading half opens the file.  One that     *)
(* cannot be built ends the replay before it read anything.                *)
StartReplay(cancelled) ==
  /\ phase = "idle"
  /\ TriggerNow(cancelled) # "none"
  /\ started' = TRUE
  /\ healed' = FALSE
  /\ request' = "none"
  /\ \/ /\ phase' = "fetch"
        /\ replay' = [NoReplay EXCEPT !.trigger = TriggerNow(cancelled)]
        /\ UNCHANGED faults
     \/ /\ Fault
        /\ phase' = "rewrite"
        /\ replay' = [NoReplay EXCEPT !.trigger = TriggerNow(cancelled), !.error = TRUE]
  /\ UNCHANGED <<entries, waiting, known, schedule, lost, purged, recorded, unfinished>>

----------------------------------------------------------------------------
(* drain: an entry is consumed by the fetch after the one that handed it   *)
(* over.                                                                   *)

(* Faulty variant: what the last fetch handed over is kept in hand although *)
(* it stays in the store.                                                  *)
DrainCancelledUncut ==
  /\ phase = "fetch"
  /\ phase' = "finish"
  /\ replay' = [replay EXCEPT !.error = TRUE]
  /\ UNCHANGED <<purged, faults>>

(* A shutdown ends the drain.  The last entry stays in the store, so it is *)
(* not written back.                                                       *)
DrainCancelled ==
  /\ phase = "fetch"
  /\ phase' = "finish"
  /\ replay' = [replay EXCEPT !.error = TRUE, !.retained = SubSeq(@, 1, replay.window)]
  /\ UNCHANGED <<purged, faults>>

(* A failed fetch has consumed the entry before it, so that one is kept. *)
DrainFails ==
  /\ phase = "fetch"
  /\ Fault
  /\ phase' = "finish"
  /\ replay' = [replay EXCEPT !.error = TRUE, !.consumed = replay.fetched]
  /\ UNCHANGED purged

DrainEnds ==
  /\ phase = "fetch"
  /\ replay.fetched = Len(entries)
  /\ phase' = "finish"
  /\ replay' = [replay EXCEPT !.consumed = replay.fetched]
  /\ UNCHANGED <<purged, faults>>

(* The next letter is fetched, and discarded, kept, or offered to its      *)
(* sink; a sink that refused one letter is not offered another.            *)
NextLetter == entries[replay.fetched + 1]

Fetched == [replay EXCEPT !.fetched = @ + 1, !.consumed = replay.fetched,
                          !.window = Len(replay.retained)]

Fetch ==
  /\ phase = "fetch"
  /\ replay.fetched < Len(entries)
  /\ UNCHANGED <<phase, faults>>

OfferLetter ==
  /\ Fetch
  /\ replay.trigger \notin {"Purge", "Filtered"}
  /\ ~replay.refused

LetterPurged ==
  /\ Fetch
  /\ replay.trigger = "Purge"
  /\ replay' = Fetched
  /\ purged' = purged \cup ToSet(NextLetter)

(* The filter leaves it out, or its sink is gone or has refused another. *)
LetterKept ==
  /\ Fetch
  /\ replay.trigger = "Filtered" \/ replay.refused
  /\ replay' = [Fetched EXCEPT !.retained = Append(@, NextLetter)]
  /\ UNCHANGED purged

LetterDelivered ==
  /\ OfferLetter
  /\ replay' = Fetched
  /\ UNCHANGED purged

LetterRefused ==
  /\ OfferLetter
  /\ replay' = [Fetched EXCEPT !.retained = Append(@, NextLetter), !.refused = TRUE]
  /\ UNCHANGED purged

(* A payload that does not decode is kept; a row that is no letter ends    *)
(* the drain and its entry stays in the store.                             *)
LetterUnreadable ==
  /\ phase = "fetch"
  /\ replay.fetched < Len(entries)
  /\ replay.trigger # "Purge"
  /\ Fault
  /\ \/ /\ replay' = [Fetched EXCEPT !.retained = Append(@, NextLetter)]
        /\ UNCHANGED phase
     \/ /\ replay' = [Fetched EXCEPT !.error = TRUE]
        /\ phase' = "finish"
  /\ UNCHANGED purged

(* What a drain leaves alone in the queue. *)
Draining ==
  UNCHANGED <<entries, waiting, known, started, schedule, request, lost,
              recorded, unfinished>>

----------------------------------------------------------------------------
(* The end of a replay: the reading half deletes what was consumed, then   *)
(* the recording half opens again and takes back what is kept.             *)

(* Faulty variant: the replay is over once the reading half is finished.   *)
FinishReadingIsTheEnd ==
  /\ phase = "finish"
  /\ phase' = "idle"
  /\ entries' = SubSeq(entries, replay.consumed + 1, Len(entries))
  /\ UNCHANGED <<waiting, known, started, schedule, request, healed, replay, lost,
                 purged, recorded, unfinished, faults>>

FinishReading ==
  /\ phase = "finish"
  /\ phase' = "rewrite"
  /\ \/ /\ entries' = SubSeq(entries, replay.consumed + 1, Len(entries))
        /\ UNCHANGED <<unfinished, faults>>
     \/ /\ replay.consumed > 0
        /\ Fault
        /\ unfinished' = TRUE
        /\ UNCHANGED entries
  /\ UNCHANGED <<waiting, known, started, schedule, request, healed, replay,
                 lost, purged, recorded>>

(* kept letters are written back; the store refuses the next one, or       *)
(* cannot be opened, when kept is short of all of them.                    *)
Rewrite(kept) ==
  /\ phase = "rewrite"
  /\ phase' = "idle"
  /\ entries' = entries \o SubSeq(replay.retained, 1, kept)
  /\ lost' = lost \cup Rows(SubSeq(replay.retained, kept + 1, Len(replay.retained)))
  /\ waiting' = kept
  /\ schedule' = IF kept = 0 /\ ~replay.error THEN "none" ELSE "set"
  /\ known' = (known \/ ~replay.error)
  /\ replay' = NoReplay
  /\ IF kept < Len(replay.retained) THEN Fault ELSE UNCHANGED faults
  /\ UNCHANGED <<started, request, healed, purged, recorded, unfinished>>

----------------------------------------------------------------------------
(* Outside the runner: an HTTP request waits in the slot (another one is   *)
(* refused as busy), and the automatic schedule comes due.                 *)

Ask(trigger) ==
  /\ request = "none"
  /\ request' = trigger
  /\ UNCHANGED <<entries, waiting, known, started, schedule, healed, phase,
                 replay, lost, purged, recorded, unfinished, faults>>

ScheduleDue ==
  /\ schedule = "set"
  /\ schedule' = "due"
  /\ UNCHANGED <<entries, waiting, known, started, request, healed, phase,
                 replay, lost, purged, recorded, unfinished, faults>>
=============================================================================
