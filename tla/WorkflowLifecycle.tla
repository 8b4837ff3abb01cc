------------------------- MODULE WorkflowLifecycle -------------------------
(***************************************************************************)
(* Lifecycle control of one workflow (service/lifecycle.rs): HTTP calls    *)
(* judge a verb against the published status and queue it; the supervisor  *)
(* serves the queue, the shutdown token and the runner's acknowledgements  *)
(* in one select loop; the runner parks between passes on a pair of watch  *)
(* channels.                                                               *)
(*                                                                         *)
(* A watch channel is its latest value and whether the receiver has seen   *)
(* it: two sends before a receive are one change.  The supervisor and its  *)
(* runner share a task, so an arm of the select runs to the next select    *)
(* as one step, and the runner's return is taken in the poll it happens    *)
(* in.  The callers run on other threads: between judging a verb and       *)
(* queueing it anything may happen.                                        *)
(*                                                                         *)
(* The workflow is controlled; without control run_supervised runs the     *)
(* workflow once and returns.  A registry that is dropped is one that no   *)
(* call uses any more.                                                     *)
(***************************************************************************)
EXTENDS Naturals, Sequences, FiniteSets

CONSTANTS
  Calls,          \* invocations of LifecycleRegistry::command
  NoCall          \* Publisher::pending when nobody waits

ASSUME LifecycleAssumption ==
  /\ IsFiniteSet(Calls)
  /\ NoCall \notin Calls

Verbs  == {"Start", "Stop", "Pause", "Resume", "Restart"}
States == {"Starting", "Running", "Pausing", "Paused", "Stopping",
           "Stopped", "Completed", "Failed"}
Ended  == {"Stopped", "Completed", "Failed"}

VARIABLES
  call,         \* per call: where it is, and its verb while that matters
  queue,        \* the command channel: calls in the order they were sent
  state,        \* WorkflowStatus::state as published
  pending,      \* the call whose reply the publisher holds
  supervisor,   \* "building", "supervising", "parked" (no runner), "returned"
  restartable,  \* rebuild_blocker found nothing against a rebuild
  firstBuild,   \* `initial` still holds the service built at startup
  after,        \* AfterRun
  cancel,       \* the service's shutdown token
  cancelled,    \* run_supervised's own flag
  runToken,     \* the runner's child token was cancelled by the supervisor
  requested,    \* watch: a pause is requested, and whether that is news
  parked,       \* watch: the runner is parked, and whether that is news
  isParked,     \* the supervisor's copy of parked
  runner        \* "none", "passing", "parked", "draining" (saw the cancellation)

callVars   == <<call, queue>>
pubVars    == <<call, state, pending>>
tokenVars  == <<cancel, cancelled, runToken>>
gateVars   == <<requested, parked, isParked, runner>>
vars == <<call, queue, state, pending, supervisor, restartable, firstBuild, after, cancel,
          cancelled, runToken, requested, parked, isParked, runner>>

Idle       == [at |-> "idle", verb |-> "None"]
Over       == [at |-> "answered", verb |-> "None"]
NotAsked   == [value |-> FALSE, news |-> FALSE]    \* a fresh watch channel

Init ==
  /\ call = [c \in Calls |-> Idle]
  /\ queue = <<>>
  /\ state = "Starting"
  /\ pending = NoCall
  /\ supervisor = "building"
  /\ restartable \in BOOLEAN
  /\ firstBuild = TRUE
  /\ after = "None"
  /\ cancel = FALSE /\ cancelled = FALSE /\ runToken = FALSE
  /\ requested = NotAsked
  /\ parked = NotAsked
  /\ isParked = FALSE
  /\ runner = "none"

----------------------------------------------------------------------------
(* The transition table and what counts as having arrived. *)

Disposition(verb, s) ==
  CASE verb = "Start"   -> IF s \in Ended THEN "Dispatch"
                           ELSE IF s = "Running" THEN "NoOp" ELSE "Illegal"
    [] verb = "Stop"    -> IF s \in {"Running", "Pausing", "Paused"} THEN "Dispatch"
                           ELSE IF s \in Ended THEN "NoOp" ELSE "Illegal"
    [] verb = "Pause"   -> IF s = "Running" THEN "Dispatch"
                           ELSE IF s \in {"Pausing", "Paused"} THEN "NoOp" ELSE "Illegal"
    [] verb = "Resume"  -> IF s \in {"Pausing", "Paused"} THEN "Dispatch"
                           ELSE IF s = "Running" THEN "NoOp" ELSE "Illegal"
    [] verb = "Restart" -> IF s \in {"Running", "Paused"} \cup Ended
                           THEN "Dispatch" ELSE "Illegal"

(* Faulty variant: a stop that ends in a failure keeps its caller waiting. *)
TargetReachedStopOnly(verb, s) ==
  CASE verb = "Pause" -> s \in {"Paused"} \cup Ended
    [] verb = "Stop"  -> s = "Stopped"
    [] OTHER          -> s \in {"Running", "Completed", "Failed"}

TargetReached(verb, s) ==
  CASE verb = "Pause" -> s \in {"Paused"} \cup Ended
    [] verb = "Stop"  -> s \in Ended
    [] OTHER          -> s \in {"Running", "Completed", "Failed"}

----------------------------------------------------------------------------
(* Publisher.  What an answer says is not kept: settled, still under way,  *)
(* refused, already so or gone.  A call that gave up has left its command  *)
(* behind; the reply to it goes nowhere.                                   *)

Answer(cs, c) == [cs EXCEPT ![c] = Over]

(* settle, with c waiting and s the current state. *)
Settles(cs, c, s) == c # NoCall /\ TargetReached(cs[c].verb, s)

Publish(s) ==
  /\ state' = s
  /\ IF Settles(call, pending, s)
     THEN call' = Answer(call, pending) /\ pending' = NoCall
     ELSE UNCHANGED <<call, pending>>

(* Faulty variant: the new waiter simply replaces the old one. *)
PublishAcceptForgetting(s, c) ==
  /\ state' = s
  /\ IF Settles(call, c, s)
     THEN call' = Answer(call, c) /\ pending' = NoCall
     ELSE pending' = c /\ UNCHANGED call

(* publish(s), then accept: the waiter found there is answered with the    *)
(* state it is overtaken in, the new one when it already is where it       *)
(* wants to be.                                                            *)
PublishAccept(s, c) ==
  LET before == IF pending # NoCall THEN Answer(call, pending) ELSE call
  IN  /\ state' = s
      /\ IF Settles(before, c, s)
         THEN call' = Answer(before, c) /\ pending' = NoCall
         ELSE call' = before /\ pending' = c

(* The supervisor's future ends after publishing s: the command receiver   *)
(* and every reply sender are dropped with it, so whoever waits is         *)
(* answered, by the publisher or by the closed channel.                    *)
PublishReturn(s) ==
  /\ supervisor' = "returned"
  /\ state' = s
  /\ call' = [c \in Calls |-> IF call[c].at \in {"waiting", "gaveup"} THEN Over ELSE call[c]]
  /\ pending' = NoCall
  /\ queue' = <<>>

----------------------------------------------------------------------------
(* LifecycleRegistry::command, up to the send, and after it. *)

Judge(c, verb) ==
  /\ call[c] = Idle
  /\ call' = [call EXCEPT ![c] =
       IF (restartable \/ verb \in {"Pause", "Resume"})
          /\ Disposition(verb, state) = "Dispatch"
       THEN [at |-> "judged", verb |-> verb]
       ELSE Over]
  /\ UNCHANGED <<queue, state, pending, supervisor, restartable, firstBuild, after, tokenVars, gateVars>>

Send(c) ==
  /\ call[c].at = "judged"
  /\ IF supervisor = "returned"
     THEN call' = [call EXCEPT ![c] = Over] /\ UNCHANGED queue
     ELSE call' = [call EXCEPT ![c].at = "waiting"] /\ queue' = Append(queue, c)
  /\ UNCHANGED <<state, pending, supervisor, restartable, firstBuild, after, tokenVars, gateVars>>

(* LIFECYCLE_ACK_BUDGET runs out; the command stays where it is. *)
GiveUp(c) ==
  /\ call[c].at = "waiting"
  /\ call' = [call EXCEPT ![c].at = "gaveup"]
  /\ UNCHANGED <<queue, state, pending, supervisor, restartable, firstBuild, after, tokenVars, gateVars>>

Shutdown ==
  /\ ~cancel
  /\ cancel' = TRUE
  /\ UNCHANGED <<call, queue, state, pending, supervisor, restartable, firstBuild, after,
                 cancelled, runToken, gateVars>>

----------------------------------------------------------------------------
(* run_supervised without a runner. *)

ParkedShutdown ==
  /\ supervisor = "parked"
  /\ cancel
  /\ PublishReturn(state)
  /\ UNCHANGED <<restartable, firstBuild, after, tokenVars, gateVars>>

ParkedCommand ==
  /\ supervisor = "parked"
  /\ queue # <<>>
  /\ queue' = Tail(queue)
  /\ IF call[Head(queue)].verb \in {"Start", "Restart"}
     THEN PublishAccept("Starting", Head(queue)) /\ supervisor' = "building"
     ELSE /\ call' = Answer(call, Head(queue))
          /\ UNCHANGED <<state, pending, supervisor>>
  /\ UNCHANGED <<restartable, firstBuild, after, tokenVars, gateVars>>

(* The loop head publishes Starting before it builds. *)
BuildStarts ==
  /\ supervisor = "building"
  /\ ~firstBuild
  /\ state # "Starting"
  /\ Publish("Starting")
  /\ UNCHANGED <<queue, supervisor, restartable, firstBuild, after, tokenVars, gateVars>>

BuildFails ==
  /\ supervisor = "building"
  /\ ~firstBuild
  /\ state = "Starting"
  /\ IF restartable /\ ~cancelled
     THEN Publish("Failed") /\ supervisor' = "parked" /\ UNCHANGED queue
     ELSE PublishReturn("Failed")
  /\ UNCHANGED <<restartable, firstBuild, after, tokenVars, gateVars>>

BuildSucceeds ==
  /\ supervisor = "building"
  /\ state = "Starting"
  /\ Publish("Running")
  /\ supervisor' = "supervising"
  /\ firstBuild' = FALSE
  /\ UNCHANGED restartable
  /\ runner' = "passing"
  /\ UNCHANGED <<queue, after, tokenVars, requested, parked, isParked>>

----------------------------------------------------------------------------
(* run_supervised's select loop. *)

RequestPause(b) == requested' = [value |-> b, news |-> TRUE]

SuperviseShutdown ==
  /\ supervisor = "supervising"
  /\ cancel /\ ~cancelled
  /\ cancelled' = TRUE
  /\ after' = "Stop"
  /\ Publish("Stopping")
  /\ RequestPause(FALSE)
  /\ runToken' = TRUE
  /\ UNCHANGED <<queue, supervisor, restartable, firstBuild, cancel, parked, isParked, runner>>

ParkedChanged ==
  /\ supervisor = "supervising"
  /\ parked.news
  /\ parked' = [parked EXCEPT !.news = FALSE]
  /\ isParked' = parked.value
  /\ CASE parked.value /\ state = "Pausing"  -> Publish("Paused")
       [] ~parked.value /\ state = "Paused"  -> Publish("Running")
       [] OTHER -> UNCHANGED pubVars
  /\ UNCHANGED <<queue, supervisor, restartable, firstBuild, after, tokenVars, requested, runner>>

Supervise(verb) ==
  /\ supervisor = "supervising"
  /\ queue # <<>>
  /\ call[Head(queue)].verb = verb
  /\ queue' = Tail(queue)
  /\ UNCHANGED <<supervisor, restartable, firstBuild, cancel, cancelled, parked, isParked, runner>>

CommandPause ==
  /\ Supervise("Pause")
  /\ IF state \in {"Pausing", "Paused"}
     THEN PublishAccept(state, Head(queue)) /\ UNCHANGED requested
     ELSE PublishAccept("Pausing", Head(queue)) /\ RequestPause(TRUE)
  /\ UNCHANGED <<after, runToken>>

CommandResume ==
  /\ Supervise("Resume")
  /\ RequestPause(FALSE)
  /\ IF ~isParked /\ state \in {"Pausing", "Paused"}
     THEN PublishAccept("Running", Head(queue))
     ELSE PublishAccept(state, Head(queue))
  /\ UNCHANGED <<after, runToken>>

(* Faulty variant: the stop is reported before the runner has drained. *)
CommandStopEarly(verb) ==
  /\ Supervise(verb)
  /\ after' = verb
  /\ PublishAccept("Stopped", Head(queue))
  /\ RequestPause(FALSE)
  /\ runToken' = TRUE

CommandStop(verb) ==
  /\ Supervise(verb)
  /\ after' = verb
  /\ PublishAccept("Stopping", Head(queue))
  /\ RequestPause(FALSE)
  /\ runToken' = TRUE

CommandStart ==
  /\ Supervise("Start")
  /\ call' = Answer(call, Head(queue))
  /\ UNCHANGED <<state, pending, requested, after, runToken>>

(* The runner returned; the shutdown token, not the flag, decides whether  *)
(* this was the last run.  The run's own token, pause pair and AfterRun go *)
(* out of scope: the next run starts with fresh ones.                      *)
RunnerReturns(ok) ==
  /\ supervisor = "supervising"
  /\ runner \in {"passing", "draining"}
  /\ runner' = "none"
  /\ cancelled' = (cancelled \/ cancel)
  /\ CASE ok /\ cancelled' -> PublishReturn("Stopped")
       [] ok /\ ~cancelled' /\ after = "Restart" ->
            supervisor' = "building" /\ UNCHANGED <<pubVars, queue>>
       [] ok /\ ~cancelled' /\ after = "Stop" ->
            Publish("Stopped") /\ supervisor' = "parked" /\ UNCHANGED queue
       [] ok /\ ~cancelled' /\ after = "None" -> PublishReturn("Completed")
       [] ~ok /\ (cancelled' \/ ~restartable) -> PublishReturn("Failed")
       [] OTHER -> Publish("Failed") /\ supervisor' = "parked" /\ UNCHANGED queue
  /\ after' = "None"
  /\ runToken' = FALSE
  /\ requested' = NotAsked
  /\ parked' = NotAsked
  /\ isParked' = FALSE
  /\ UNCHANGED <<restartable, firstBuild, cancel>>

----------------------------------------------------------------------------
(* PauseGate::park_while_paused, at the head of every pass; the runner     *)
(* looks at its token right after it.                                      *)

RunCancelled == cancel \/ runToken

ParkHere ==
  /\ runner = "passing"
  /\ requested.value
  /\ requested' = [requested EXCEPT !.news = FALSE]
  /\ parked' = [value |-> TRUE, news |-> TRUE]
  /\ runner' = "parked"
  /\ UNCHANGED <<callVars, state, pending, supervisor, restartable, firstBuild, after, tokenVars, isParked>>

(* Faulty variant: only a resume releases the runner. *)
WakeOnResumeOnly ==
  /\ runner = "parked"
  /\ requested.news
  /\ requested' = [requested EXCEPT !.news = FALSE]
  /\ IF requested.value
     THEN UNCHANGED <<parked, runner>>
     ELSE parked' = [value |-> FALSE, news |-> TRUE] /\ runner' = "passing"
  /\ UNCHANGED <<callVars, state, pending, supervisor, restartable, firstBuild, after, tokenVars, isParked>>

Wake ==
  /\ runner = "parked"
  /\ RunCancelled \/ requested.news
  /\ requested' = [requested EXCEPT !.news = FALSE]
  /\ IF RunCancelled \/ ~requested.value
     THEN /\ parked' = [value |-> FALSE, news |-> TRUE]
          /\ runner' = IF RunCancelled THEN "draining" ELSE "passing"
     ELSE UNCHANGED <<parked, runner>>
  /\ UNCHANGED <<callVars, state, pending, supervisor, restartable, firstBuild, after, tokenVars, isParked>>

----------------------------------------------------------------------------
Serve ==
  \/ CommandPause
  \/ CommandResume
  \/ \E verb \in {"Stop", "Restart"} : CommandStop(verb)
  \/ CommandStart

Next ==
  \/ \E c \in Calls, verb \in Verbs : Judge(c, verb)
  \/ \E c \in Calls : Send(c) \/ GiveUp(c)
  \/ Shutdown
  \/ ParkedShutdown \/ ParkedCommand
  \/ BuildStarts \/ BuildFails \/ BuildSucceeds
  \/ SuperviseShutdown \/ ParkedChanged \/ Serve
  \/ \E ok \in BOOLEAN : RunnerReturns(ok)
  \/ ParkHere \/ Wake

Spec == Init /\ [][Next]_vars

(* Every arm of the select that stays ready is taken (tokio polls them in  *)
(* random order), a build ends, a pass ends, a runner whose token is       *)
(* cancelled drains and returns, and a judged call sends.  Nothing makes   *)
(* a caller give up, a service shut down or a workflow end by itself.      *)
FairSpec ==
  /\ Spec
  /\ \A c \in Calls : WF_vars(Send(c))
  /\ WF_vars(ParkedShutdown) /\ WF_vars(ParkedCommand)
  /\ WF_vars(BuildStarts) /\ WF_vars(BuildSucceeds)
  /\ WF_vars(SuperviseShutdown) /\ WF_vars(ParkedChanged) /\ WF_vars(Serve)
  /\ WF_vars(RunCancelled /\ RunnerReturns(TRUE))
  /\ WF_vars(ParkHere) /\ WF_vars(Wake)

----------------------------------------------------------------------------
(* Nobody who waits is forgotten: the reply sender of every waiting call   *)
(* is in the queue or with the publisher, whatever verbs overtook it       *)
(* (Publisher::accept answers the waiter it displaces).                    *)
WaitersAreHeld ==
  \A c \in Calls : call[c].at = "waiting" =>
    c = pending \/ \E k \in DOMAIN queue : queue[k] = c

(* A workflow reported as over has no runner, so its exclusive resources   *)
(* are free for the build a start triggers; and the other way round, a     *)
(* live runner is never reported as over by a late answer, a verb that     *)
(* overtook another one or a shutdown.                                     *)
OverMeansReleased == state \in Ended => runner = "none"

(* A stop, a start or a restart that was dispatched is answered, though    *)
(* its caller never gives up: whatever overtakes it, and whether the run   *)
(* it waits for stops, fails or is shut down.                              *)
RunVerbsAnswered ==
  \A c \in Calls :
    (call[c].at = "waiting" /\ call[c].verb \in {"Start", "Stop", "Restart"})
      ~> call[c].at # "waiting"

(* A shutdown ends the supervisor, and a stopped runner never stays parked *)
(* on its gate, also when a pause judged earlier is served after the stop  *)
(* and asks it to park again.                                              *)
CancelReleasesRunner ==
  /\ cancel ~> supervisor = "returned"
  /\ runToken ~> runner = "none"
=============================================================================
