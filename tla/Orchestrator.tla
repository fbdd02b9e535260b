---------------------------- MODULE Orchestrator ----------------------------
(***************************************************************************)
(* The orchestrator of src/openbotx/agent/orchestrator.py with its command *)
(* queue, and the shutdown sequence of the lifespan (server/app.py) that   *)
(* stops it: run() takes messages from the bus and dispatches them to the  *)
(* lanes; stop() sets the stop event, drains the queue and stops the       *)
(* agents; then the task of run() is cancelled and awaited.                *)
(*                                                                         *)
(* A message is a command of module CommandQueue from its dispatch on;     *)
(* before that it is one of the inbound messages, which are only counted.  *)
(***************************************************************************)
EXTENDS Naturals, Sequences, FiniteSets

CONSTANTS
  Lanes,        \* session keys
  MaxCommands,  \* bound: messages that arrive
  MaxTotal      \* max_concurrent

ASSUME BoundsAssumption == MaxCommands \in Nat /\ MaxTotal \in Nat \ {0}

VARIABLES
  \* the command queue (module CommandQueue)
  lane, status, queue, active, maxConcurrent, ready, waiters, value,
  draining, snapshot, cancelling,
  \* the orchestrator
  inbound,       \* how many messages MessageBus.inbound holds
  arrived,       \* history: how many were published
  runAt,         \* where run() is
  stopEvent,     \* _stop_event
  \* the lifespan
  stopAt,        \* where the shutdown sequence is
  activeAtStop,  \* history: the tasks there were when stop() was called
  lateMessages   \* history: messages dispatched after stop() was called

Drainers == {"run", "stop"}

CQ == INSTANCE CommandQueue WITH LaneLimits <- {}

queueVars == <<lane, status, queue, active, maxConcurrent, ready, waiters, value,
               draining, snapshot, cancelling>>
vars == <<queueVars, inbound, arrived, runAt, stopEvent, stopAt, activeAtStop, lateMessages>>

(***************************************************************************)
(* run() is "looping" before the condition of its loop (not a place where  *)
(* it suspends), "waiting" in wait_for(consume_inbound), "routing" in      *)
(* _route, "draining" after the loop, then "ended".  The server is         *)
(* "serving", "draining" and at its "agents" in stop(), "cancelled" while  *)
(* it awaits the task of run(), then "down".                               *)
(***************************************************************************)

Init ==
  /\ CQ!Init
  /\ inbound = 0
  /\ arrived = 0
  /\ runAt = "looping"
  /\ stopEvent = FALSE
  /\ stopAt = "serving"
  /\ activeAtStop = {}
  /\ lateMessages = 0

-----------------------------------------------------------------------------
(* A channel, an HTTP request, cron publishes a message; channels stop last. *)
Arrive ==
  /\ stopAt # "down"
  /\ arrived < MaxCommands
  /\ inbound' = inbound + 1
  /\ arrived' = arrived + 1
  /\ UNCHANGED <<queueVars, runAt, stopEvent, stopAt, activeAtStop, lateMessages>>

(* Not the code: the loop never looks at the stop event. *)
NeverAsks == TRUE

(* while not self._stop_event.is_set() *)
GoesOn == ~ stopEvent

(* Out of the loop: drain() gathers the tasks there are, or returns at once. *)
LeaveLoop ==
  IF CQ!Tasks = {}
  THEN runAt' = "ended" /\ UNCHANGED queueVars
  ELSE runAt' = "draining" /\ CQ!DrainStart("run")

(* run: the condition of the loop. *)
Loop ==
  /\ runAt = "looping"
  /\ IF GoesOn THEN runAt' = "waiting" /\ UNCHANGED queueVars ELSE LeaveLoop
  /\ UNCHANGED <<inbound, arrived, stopEvent, stopAt, activeAtStop, lateMessages>>

(* run: no message within a second. *)
TimeOut ==
  /\ runAt = "waiting"
  /\ inbound = 0
  /\ runAt' = "looping"
  /\ UNCHANGED <<queueVars, inbound, arrived, stopEvent, stopAt, activeAtStop, lateMessages>>

(* run: a message is taken, and routed. *)
Take ==
  /\ runAt = "waiting"
  /\ inbound > 0
  /\ inbound' = inbound - 1
  /\ runAt' = "routing"
  /\ UNCHANGED <<queueVars, arrived, stopEvent, stopAt, activeAtStop, lateMessages>>

(* run: the message is enqueued on its lane. *)
Dispatch(c) ==
  /\ runAt = "routing"
  /\ CQ!Enqueue(c)
  /\ runAt' = "looping"
  /\ lateMessages' = IF stopEvent THEN lateMessages + 1 ELSE lateMessages
  /\ UNCHANGED <<inbound, arrived, stopEvent, stopAt, activeAtStop>>

RunDrained ==
  /\ runAt = "draining"
  /\ CQ!DrainReturn("run")
  /\ runAt' = "ended"
  /\ UNCHANGED <<inbound, arrived, stopEvent, stopAt, activeAtStop, lateMessages>>

-----------------------------------------------------------------------------
(* Not the code: stop() without its drain. *)
DoesNotWait == UNCHANGED queueVars /\ stopAt' = "agents"

(* drain() in stop(): the gather of the tasks there are, or nothing. *)
StopDrains ==
  IF CQ!Tasks = {}
  THEN UNCHANGED queueVars /\ stopAt' = "agents"
  ELSE CQ!DrainStart("stop") /\ stopAt' = "draining"

(* lifespan: orchestrator.stop() is called. *)
Stop ==
  /\ stopAt = "serving"
  /\ stopEvent' = TRUE
  /\ StopDrains
  /\ activeAtStop' = CQ!Tasks
  /\ UNCHANGED <<inbound, arrived, runAt, lateMessages>>

(* stop(): drain() returns, agent.stop() follows for each agent. *)
StopDrained ==
  /\ stopAt = "draining"
  /\ CQ!DrainReturn("stop")
  /\ stopAt' = "agents"
  /\ UNCHANGED <<inbound, arrived, runAt, stopEvent, activeAtStop, lateMessages>>

(***************************************************************************)
(* lifespan: stop() has returned, orchestrator_task.cancel() is called.    *)
(* In the loop run() gets a CancelledError and leaves it, and a message it *)
(* was routing is dropped; in its drain the gather cancels its tasks.      *)
(***************************************************************************)
CancelRun ==
  /\ stopAt = "agents"
  /\ runAt # "looping"
  /\ stopAt' = "cancelled"
  /\ \/ runAt \in {"waiting", "routing"} /\ LeaveLoop
     \/ runAt = "draining" /\ CQ!DrainCancel("run") /\ UNCHANGED runAt
     \/ /\ runAt = "ended" \/ (runAt = "draining" /\ snapshot["run"] \cap CQ!Tasks = {})
        /\ UNCHANGED <<queueVars, runAt>>
  /\ UNCHANGED <<inbound, arrived, stopEvent, activeAtStop, lateMessages>>

(* Not the code: the task of run() is awaited until the bus is empty. *)
AwaitsEmptyBus == runAt = "ended" /\ inbound = 0

(* lifespan: await orchestrator_task. *)
RunAwaited == runAt = "ended"

(* lifespan: the task of run() has ended; cron and the channels are stopped. *)
ShutDown ==
  /\ stopAt = "cancelled"
  /\ RunAwaited
  /\ stopAt' = "down"
  /\ UNCHANGED <<queueVars, inbound, arrived, runAt, stopEvent, activeAtStop, lateMessages>>

-----------------------------------------------------------------------------
(* The tasks of the command queue go on by themselves. *)
Work ==
  /\ \E c \in CQ!Commands :
        CQ!FirstStep(c) \/ CQ!Resume(c) \/ CQ!Finish(c) \/ CQ!Abandon(c)
  /\ UNCHANGED <<inbound, arrived, runAt, stopEvent, stopAt, activeAtStop, lateMessages>>

Next ==
  \/ Arrive \/ Loop \/ TimeOut \/ Take \/ RunDrained \/ Work
  \/ \E c \in CQ!Commands : Dispatch(c)
  \/ Stop \/ StopDrained \/ CancelRun \/ ShutDown

Spec == Init /\ [][Next]_vars

(***************************************************************************)
(* The event loop runs what is ready, the classifier answers or fails, a   *)
(* command ends (it is finite, or it is cancelled) and agent.stop returns. *)
(***************************************************************************)
Fairness ==
  /\ WF_vars(Loop) /\ WF_vars(TimeOut) /\ WF_vars(Take) /\ WF_vars(RunDrained) /\ WF_vars(Work)
  /\ WF_vars(\E c \in CQ!Commands : Dispatch(c))
  /\ WF_vars(StopDrained) /\ WF_vars(CancelRun) /\ WF_vars(ShutDown)

FairSpec == Spec /\ Fairness

-----------------------------------------------------------------------------
(* Properties *)

(***************************************************************************)
(* A graceful stop for what was under way: a command that was a task when  *)
(* stop() was called is done before an agent is stopped, it is never       *)
(* cancelled and never loses its slot.                                     *)
(***************************************************************************)
ActiveAtStopAreDone ==
  stopAt \in {"agents", "cancelled", "down"} => \A c \in activeAtStop : status[c] = "done"

(* The loop ends with the stop: one message at most is dispatched after stop() was called. *)
OneLateMessage == lateMessages <= 1

(* The shutdown comes to its end, whatever arrives meanwhile. *)
ShutdownEnds == stopEvent ~> stopAt = "down"
=============================================================================
