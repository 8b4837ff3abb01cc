---------------------- MODULE WorkflowLifecycleProofs ----------------------
(***************************************************************************)
(* Two promises of lifecycle control, for any number of concurrent calls.  *)
(* That nobody who waits is forgotten rests on the publisher and the queue *)
(* holding calls only (CallType).  That a workflow reported as over has no *)
(* runner is not inductive: one must know that a runner lives exactly      *)
(* while its supervisor is in the select loop, and that nothing in that    *)
(* loop publishes an end (RunInv).                                         *)
(***************************************************************************)
EXTENDS WorkflowLifecycle, SequenceTheorems, TLAPS

Places == {"idle", "judged", "waiting", "gaveup", "answered"}

CallType ==
  /\ call \in [Calls -> [at : Places, verb : Verbs \cup {"None"}]]
  /\ queue \in Seq(Calls)
  /\ pending \in Calls \cup {NoCall}

HeldInv == CallType /\ WaitersAreHeld

RunInv ==
  /\ runner # "none" <=> supervisor = "supervising"
  /\ supervisor = "supervising" => state \notin Ended

----------------------------------------------------------------------------
(* Nobody is forgotten. *)

(* What is not the head of a queue is still in its tail. *)
LEMMA TailKeeps ==
  ASSUME NEW q \in Seq(Calls), q # <<>>, NEW k \in DOMAIN q, q[k] # Head(q)
  PROVE  \E j \in DOMAIN Tail(q) : Tail(q)[j] = q[k]
<1>1. k \in 1..Len(q) /\ k # 1
  OBVIOUS
<1>2. k - 1 \in 1..Len(Tail(q)) /\ Tail(q)[k - 1] = q[k]
  BY <1>1
<1> QED BY <1>2

(* A change of state answers the waiter that has arrived and keeps every   *)
(* other one (Publisher::publish).                                         *)
LEMMA PublishHolds ==
  ASSUME HeldInv, NEW s, Publish(s), UNCHANGED queue
  PROVE  HeldInv'
<1> USE DEF HeldInv, CallType, WaitersAreHeld
<1>1. CASE UNCHANGED <<call, pending>>
  BY <1>1
<1>2. CASE pending # NoCall /\ call' = Answer(call, pending) /\ pending' = NoCall
  BY <1>2, LifecycleAssumption DEF Answer, Over, Places
<1> QED BY <1>1, <1>2 DEF Publish, Settles

(* The command at the head of the queue is answered or becomes the one the *)
(* publisher waits for, and the one it displaces is answered               *)
(* (Publisher::accept).                                                    *)
LEMMA AcceptHolds ==
  ASSUME HeldInv, NEW s, queue # <<>>, PublishAccept(s, Head(queue)), queue' = Tail(queue)
  PROVE  HeldInv'
<1> USE DEF HeldInv, CallType, WaitersAreHeld
<1> DEFINE head == Head(queue)
           before == IF pending # NoCall THEN Answer(call, pending) ELSE call
<1>1. head \in Calls /\ Tail(queue) \in Seq(Calls) /\ head # NoCall
  BY LifecycleAssumption
<1>2. before \in [Calls -> [at : Places, verb : Verbs \cup {"None"}]]
  BY DEF Answer, Over, Places
<1>3. \A c \in Calls : before[c].at = "waiting" => call[c].at = "waiting" /\ c # pending
  BY LifecycleAssumption DEF Answer, Over
<1>4. \A c \in Calls : before[c].at = "waiting" =>
        c = head \/ \E k \in DOMAIN queue' : queue'[k] = c
  BY <1>3, TailKeeps
<1>5. \/ call' = Answer(before, head) /\ pending' = NoCall
      \/ call' = before /\ pending' = head
  BY DEF PublishAccept
<1> HIDE DEF before, head
<1>6. CASE call' = before /\ pending' = head
  BY <1>1, <1>2, <1>4, <1>6
<1>7. CASE call' = Answer(before, head) /\ pending' = NoCall
  <2>1. call' \in [Calls -> [at : Places, verb : Verbs \cup {"None"}]]
    BY <1>1, <1>2, <1>7 DEF Answer, Over, Places
  <2>2. \A c \in Calls : call'[c].at = "waiting" => before[c].at = "waiting" /\ c # head
    BY <1>1, <1>2, <1>7 DEF Answer, Over
  <2> QED BY <1>1, <1>4, <1>7, <2>1, <2>2
<1> QED BY <1>5, <1>6, <1>7

(* A command that asks for nothing is answered at once. *)
LEMMA AnswerHolds ==
  ASSUME HeldInv, queue # <<>>, call' = Answer(call, Head(queue)), queue' = Tail(queue),
         UNCHANGED pending
  PROVE  HeldInv'
<1> USE DEF HeldInv, CallType, WaitersAreHeld
<1>1. Head(queue) \in Calls /\ Tail(queue) \in Seq(Calls)
  OBVIOUS
<1>2. call' \in [Calls -> [at : Places, verb : Verbs \cup {"None"}]]
  BY <1>1 DEF Answer, Over, Places
<1>3. \A c \in Calls : call'[c].at = "waiting" => call[c].at = "waiting" /\ c # Head(queue)
  BY <1>1 DEF Answer, Over
<1>4. \A c \in Calls : call'[c].at = "waiting" =>
        c = pending' \/ \E k \in DOMAIN queue' : queue'[k] = c
  BY <1>3, TailKeeps
<1> QED BY <1>1, <1>2, <1>4

(* The supervisor's end answers everybody. *)
LEMMA ReturnHolds ==
  ASSUME HeldInv, NEW s, PublishReturn(s)
  PROVE  HeldInv'
BY LifecycleAssumption DEF HeldInv, CallType, WaitersAreHeld, PublishReturn, Over, Places

(* The callers' own steps: judge, send and give up.                        *)
LEMMA CallersHold ==
  ASSUME HeldInv, NEW c \in Calls,
         Send(c) \/ GiveUp(c) \/ \E verb \in Verbs : Judge(c, verb)
  PROVE  HeldInv'
<1> USE DEF HeldInv, CallType, WaitersAreHeld
<1>1. CASE \E verb \in Verbs : Judge(c, verb)
  <2>1. PICK verb \in Verbs : Judge(c, verb)
    BY <1>1
  <2>2. \/ call' = [call EXCEPT ![c] = [at |-> "judged", verb |-> verb]]
        \/ call' = [call EXCEPT ![c] = Over]
    BY <2>1 DEF Judge
  <2>3. call' \in [Calls -> [at : Places, verb : Verbs \cup {"None"}]]
    <3>1. /\ [at |-> "judged", verb |-> verb] \in [at : Places, verb : Verbs \cup {"None"}]
          /\ Over \in [at : Places, verb : Verbs \cup {"None"}]
      BY DEF Over, Places
    <3> QED BY <2>2, <3>1
  <2>4. \A d \in Calls : call'[d].at = "waiting" => call[d].at = "waiting"
    <3>1. CASE call' = [call EXCEPT ![c] = [at |-> "judged", verb |-> verb]]
      BY <3>1
    <3>2. CASE call' = [call EXCEPT ![c] = Over]
      BY <3>2 DEF Over
    <3> QED BY <2>2, <3>1, <3>2
  <2>5. UNCHANGED <<queue, pending>>
    BY <2>1 DEF Judge
  <2> QED BY <2>3, <2>4, <2>5
<1>2. CASE GiveUp(c)
  BY <1>2 DEF GiveUp, Places
<1>3. CASE Send(c)
  <2>1. CASE supervisor = "returned"
    <3>1. call' = [call EXCEPT ![c] = Over] /\ UNCHANGED <<queue, pending>>
      BY <1>3, <2>1 DEF Send
    <3>2. call' \in [Calls -> [at : Places, verb : Verbs \cup {"None"}]]
      BY <3>1 DEF Over, Places
    <3>3. \A d \in Calls : call'[d].at = "waiting" => call[d].at = "waiting"
      BY <3>1 DEF Over
    <3> QED BY <3>1, <3>2, <3>3
  <2>2. CASE supervisor # "returned"
    <3>1. call' = [call EXCEPT ![c].at = "waiting"] /\ queue' = Append(queue, c)
          /\ pending' = pending
      BY <1>3, <2>2 DEF Send
    <3>2. queue' \in Seq(Calls) /\ Len(queue') = Len(queue) + 1
          /\ queue'[Len(queue) + 1] = c /\ \A k \in DOMAIN queue : queue'[k] = queue[k]
      BY <3>1
    <3>3. DOMAIN queue \subseteq DOMAIN queue' /\ Len(queue) + 1 \in DOMAIN queue'
      BY <3>2
    <3>4. call' \in [Calls -> [at : Places, verb : Verbs \cup {"None"}]]
      BY <3>1 DEF Places
    <3>5. \A d \in Calls : d # c => call'[d] = call[d]
      BY <3>1
    <3> QED BY <3>1, <3>2, <3>3, <3>4, <3>5
  <2> QED BY <2>1, <2>2
<1> QED BY <1>1, <1>2, <1>3

(* Every step of the supervisor, of the runner and of the service.         *)
LEMMA SupervisorHolds ==
  ASSUME HeldInv,
         \/ Shutdown \/ ParkedShutdown \/ ParkedCommand
         \/ BuildStarts \/ BuildFails \/ BuildSucceeds
         \/ SuperviseShutdown \/ ParkedChanged \/ Serve
         \/ \E ok \in BOOLEAN : RunnerReturns(ok)
         \/ ParkHere \/ Wake
  PROVE  HeldInv'
<1>1. CASE Shutdown \/ ParkHere \/ Wake
  BY <1>1 DEF Shutdown, ParkHere, Wake, callVars, HeldInv, CallType, WaitersAreHeld
<1>2. CASE ParkedShutdown
  BY <1>2, ReturnHolds DEF ParkedShutdown
<1>3. CASE ParkedCommand
  BY <1>3, AcceptHolds, AnswerHolds DEF ParkedCommand
<1>4. CASE BuildStarts \/ BuildSucceeds \/ SuperviseShutdown
  BY <1>4, PublishHolds DEF BuildStarts, BuildSucceeds, SuperviseShutdown
<1>5. CASE BuildFails
  BY <1>5, PublishHolds, ReturnHolds DEF BuildFails
<1>6. CASE ParkedChanged
  <2>1. queue' = queue /\ (Publish("Paused") \/ Publish("Running") \/ UNCHANGED pubVars)
    BY <1>6 DEF ParkedChanged
  <2>2. CASE UNCHANGED pubVars
    BY <2>1, <2>2 DEF pubVars, HeldInv, CallType, WaitersAreHeld
  <2> QED BY <2>1, <2>2, PublishHolds
<1>7. CASE Serve
  <2>1. CASE CommandPause
    BY <2>1, AcceptHolds DEF CommandPause, Supervise
  <2>2. CASE CommandResume
    BY <2>2, AcceptHolds DEF CommandResume, Supervise
  <2>3. CASE \E verb \in {"Stop", "Restart"} : CommandStop(verb)
    BY <2>3, AcceptHolds DEF CommandStop, Supervise
  <2>4. CASE CommandStart
    BY <2>4, AnswerHolds DEF CommandStart, Supervise
  <2> QED BY <1>7, <2>1, <2>2, <2>3, <2>4 DEF Serve
<1>8. CASE \E ok \in BOOLEAN : RunnerReturns(ok)
  <2>1. PICK ok \in BOOLEAN : RunnerReturns(ok)
    BY <1>8
  <2>2. \/ \E s \in Ended : PublishReturn(s)
        \/ UNCHANGED <<pubVars, queue>>
        \/ UNCHANGED queue /\ \E s \in Ended : Publish(s)
    BY <2>1 DEF RunnerReturns, Ended
  <2>3. CASE UNCHANGED <<pubVars, queue>>
    BY <2>3 DEF pubVars, HeldInv, CallType, WaitersAreHeld
  <2> QED BY <2>2, <2>3, PublishHolds, ReturnHolds
<1> QED BY <1>1, <1>2, <1>3, <1>4, <1>5, <1>6, <1>7, <1>8

(* For any number of calls and any verbs, the reply of every waiting       *)
(* caller is in the queue or with the publisher.                           *)
THEOREM NobodyIsForgotten == Spec => []WaitersAreHeld
<1>1. Init => HeldInv
  BY DEF Init, HeldInv, CallType, WaitersAreHeld, Idle, Places
<1>2. HeldInv /\ [Next]_vars => HeldInv'
  <2> SUFFICES ASSUME HeldInv, [Next]_vars PROVE HeldInv'
    OBVIOUS
  <2>1. CASE UNCHANGED vars
    BY <2>1 DEF vars, HeldInv, CallType, WaitersAreHeld
  <2>2. CASE Next
    BY <2>2, CallersHold, SupervisorHolds DEF Next
  <2> QED BY <2>1, <2>2
<1>3. HeldInv => WaitersAreHeld
  BY DEF HeldInv
<1> QED BY <1>1, <1>2, <1>3, PTL DEF Spec

----------------------------------------------------------------------------
(* Over means released. *)

(* A workflow is reported as stopped, completed or failed only once its    *)
(* runner has returned, whatever commands, shutdowns and late answers      *)
(* arrive in which order.                                                  *)
THEOREM OverIsReleased == Spec => []OverMeansReleased
<1> USE DEF RunInv, Ended
<1>1. Init => RunInv
  BY DEF Init
<1>2. RunInv /\ [Next]_vars => RunInv'
  <2> SUFFICES ASSUME RunInv, [Next]_vars PROVE RunInv'
    OBVIOUS
  <2>1. CASE UNCHANGED <<state, supervisor, runner>>
    BY <2>1
  <2>2. CASE ParkedShutdown \/ ParkedCommand
    BY <2>2 DEF ParkedShutdown, ParkedCommand, PublishReturn, PublishAccept, gateVars
  <2>3. CASE BuildStarts \/ BuildFails \/ BuildSucceeds
    BY <2>3 DEF BuildStarts, BuildFails, BuildSucceeds, Publish, PublishReturn, gateVars
  <2>4. CASE SuperviseShutdown \/ ParkedChanged
    BY <2>4 DEF SuperviseShutdown, ParkedChanged, Publish, pubVars
  <2>5. CASE Serve
    BY <2>5 DEF Serve, CommandPause, CommandResume, CommandStop, CommandStart, Supervise,
                PublishAccept
  <2>6. CASE \E ok \in BOOLEAN : RunnerReturns(ok)
    <3>1. runner' = "none" /\ supervisor' # "supervising"
      BY <2>6 DEF RunnerReturns, Publish, PublishReturn
    <3> QED BY <3>1
  <2>7. CASE ParkHere \/ Wake
    BY <2>7 DEF ParkHere, Wake
  <2>8. CASE Shutdown \/ \E c \in Calls : Send(c) \/ GiveUp(c) \/ \E verb \in Verbs : Judge(c, verb)
    BY <2>8, <2>1 DEF Shutdown, Send, GiveUp, Judge, gateVars
  <2> QED BY <2>1, <2>2, <2>3, <2>4, <2>5, <2>6, <2>7, <2>8 DEF Next, vars
<1>3. RunInv => OverMeansReleased
  BY DEF OverMeansReleased
<1> QED BY <1>1, <1>2, <1>3, PTL DEF Spec

=============================================================================
