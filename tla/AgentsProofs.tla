----------------------------- MODULE AgentsProofs -----------------------------
(***************************************************************************)
(* Theorems about the two ways agents are set to work.  Orchestrator: what *)
(* stop() finds under way is done before an agent is stopped, and one      *)
(* message at most is dispatched after it; the facts about the lanes are   *)
(* those of CommandQueueProofs.  Subagents: an announcement is worked on   *)
(* after the turn that spawned has replied; the facts about the tasks are  *)
(* those of TaskManagerProofs.                                             *)
(***************************************************************************)
EXTENDS Orchestrator, Subagents, FiniteSetTheorems, TLAPS

P == INSTANCE CommandQueueProofs WITH LaneLimits <- {}
TT == INSTANCE TaskManagerProofs WITH TaskIds <- Messages

(* The assumption of the command queue is what the orchestrator gives it. *)
LEMMA QueueAssumption ==
  /\ MaxCommands \in Nat /\ MaxTotal \in Nat \ {0}
  /\ {} \subseteq Int /\ IsFiniteSet({})
  BY BoundsAssumption, FS_EmptySet

-----------------------------------------------------------------------------
(* Every step of the orchestrator is a step of its command queue, or none. *)

queueStep == [P!Next]_(P!vars)

(* A step that leaves the queue alone. *)
LEMMA QueueStutters == UNCHANGED queueVars => UNCHANGED P!vars
  BY DEF queueVars, P!vars, P!laneVars, P!semVars, P!drainVars

(* The actions by the names of the module and of its proofs. *)
LEMMA SameNames ==
  /\ CQ!Commands = P!Commands /\ CQ!Tasks = P!Tasks
  /\ \A c \in CQ!Commands :
       /\ CQ!Enqueue(c) => P!Enqueue(c)
       /\ CQ!FirstStep(c) => P!FirstStep(c)
       /\ CQ!Resume(c) => P!Resume(c)
       /\ CQ!Finish(c) => P!Finish(c)
       /\ CQ!Abandon(c) => P!Abandon(c)
  /\ \A d \in Drainers :
       /\ CQ!DrainStart(d) => P!DrainStart(d)
       /\ CQ!DrainReturn(d) => P!DrainReturn(d)
       /\ CQ!DrainCancel(d) => P!DrainCancel(d)
<1>1. CQ!Commands = P!Commands
  BY DEF CQ!Commands, P!Commands
<1>2. CQ!Tasks = P!Tasks
  BY DEF CQ!Tasks, P!Tasks, CQ!In, P!In, CQ!TaskStatuses, P!TaskStatuses, CQ!Commands, P!Commands
<1>3. \A c \in CQ!Commands : CQ!Enqueue(c) => P!Enqueue(c)
  BY Zenon DEF CQ!Enqueue, P!Enqueue, CQ!Pump, P!Pump, CQ!Started, P!Started, CQ!StartCount, P!StartCount,
         CQ!Pushed, P!Pushed, CQ!Mark, P!Mark, CQ!ToSet, P!ToSet, CQ!Commands, P!Commands,
         CQ!semVars, P!semVars, CQ!drainVars, P!drainVars
<1>4. \A c \in CQ!Commands : CQ!FirstStep(c) => P!FirstStep(c)
  BY DEF CQ!FirstStep, P!FirstStep, CQ!Acquire, P!Acquire, CQ!Locked, P!Locked, CQ!drainVars, P!drainVars
<1>5. \A c \in CQ!Commands : CQ!Resume(c) => P!Resume(c)
  BY Zenon DEF CQ!Resume, P!Resume, CQ!Woken, P!Woken, CQ!Mark, P!Mark, CQ!Commands, P!Commands,
         CQ!Cardinality, P!Cardinality, CQ!laneVars, P!laneVars, CQ!drainVars, P!drainVars
<1>6. \A c \in CQ!Commands : CQ!Finish(c) => P!Finish(c)
  BY Zenon DEF CQ!Finish, P!Finish, CQ!Finally, P!Finally, CQ!Pump, P!Pump, CQ!Started, P!Started,
         CQ!StartCount, P!StartCount, CQ!ActiveAtPump, P!ActiveAtPump, CQ!PermitsReturned, P!PermitsReturned,
         CQ!Woken, P!Woken, CQ!Mark, P!Mark, CQ!ToSet, P!ToSet, CQ!Commands, P!Commands,
         CQ!Cardinality, P!Cardinality
<1>7. \A c \in CQ!Commands : CQ!Abandon(c) => P!Abandon(c)
  <2>1. \A s, e : CQ!RemoveFirst(s, e) = P!RemoveFirst(s, e)
    BY Zenon DEF CQ!RemoveFirst, P!RemoveFirst, CQ!SelectInSeq, P!SelectInSeq, CQ!RemoveAt, P!RemoveAt,
           CQ!Min, P!Min
  <2>2. \A w, v : CQ!Woken(w, v) = P!Woken(w, v)
    BY Zenon DEF CQ!Woken, P!Woken
  <2>3. \A f, S, v : CQ!Mark(f, S, v) = P!Mark(f, S, v)
    BY Zenon DEF CQ!Mark, P!Mark, CQ!Commands, P!Commands
  <2>4. \A S : CQ!Cardinality(S) = P!Cardinality(S)
    BY Zenon DEF CQ!Cardinality, P!Cardinality
  <2>. QED
    BY <2>1, <2>2, <2>3, <2>4 DEF CQ!Abandon, P!Abandon
<1>8. \A d \in Drainers : /\ CQ!DrainStart(d) => P!DrainStart(d)
                          /\ CQ!DrainReturn(d) => P!DrainReturn(d)
                          /\ CQ!DrainCancel(d) => P!DrainCancel(d)
  BY <1>2, Zenon
     DEF CQ!DrainStart, P!DrainStart, CQ!DrainReturn, P!DrainReturn, CQ!DrainCancel, P!DrainCancel,
         CQ!laneVars, P!laneVars, CQ!semVars, P!semVars
<1>. QED
  BY <1>1, <1>2, <1>3, <1>4, <1>5, <1>6, <1>7, <1>8

(* run() leaves its loop and begins to drain. *)
LEMMA LeaveLoopStep == LeaveLoop => queueStep
  BY QueueStutters, SameNames DEF LeaveLoop, Drainers, queueStep, P!Next

(* A step of a lane. *)
LEMMA WorkStep == Work => queueStep
  BY SameNames DEF Work, queueStep, P!Next

(* stop() begins to drain. *)
LEMMA StopDrainsStep == StopDrains => queueStep
  BY QueueStutters, SameNames DEF StopDrains, Drainers, queueStep, P!Next

(* Every step is one of the queue, or leaves it alone. *)
LEMMA QueueSteps == [Next]_vars => queueStep
<1> SUFFICES ASSUME [Next]_vars PROVE queueStep
  OBVIOUS
<1>1. CASE Arrive \/ TimeOut \/ Take \/ ShutDown \/ UNCHANGED vars
  BY <1>1, QueueStutters DEF Arrive, TimeOut, Take, ShutDown, vars, queueStep
<1>2. CASE Loop
  BY <1>2, QueueStutters, LeaveLoopStep DEF Loop, queueStep
<1>3. CASE RunDrained \/ StopDrained
  BY <1>3, SameNames DEF RunDrained, StopDrained, Drainers, queueStep, P!Next
<1>4. CASE Work
  BY <1>4, WorkStep
<1>5. CASE \E c \in CQ!Commands : Dispatch(c)
  BY <1>5, SameNames DEF Dispatch, queueStep, P!Next
<1>6. CASE Stop
  BY <1>6, StopDrainsStep DEF Stop
<1>7. CASE CancelRun
  BY <1>7, QueueStutters, SameNames, LeaveLoopStep DEF CancelRun, Drainers, queueStep, P!Next
<1>. QED
  BY <1>1, <1>2, <1>3, <1>4, <1>5, <1>6, <1>7 DEF Next

(* What CommandQueueProofs shows of its steps holds of those of the orchestrator. *)
LEMMA QueueInvariant ==
  /\ Init => P!IInv
  /\ P!IInv /\ [Next]_vars => P!IInv'
<1>1. Init => P!Init
  BY DEF Init, CQ!Init, P!Init, CQ!Commands, P!Commands
<1>2. P!Init => P!IInv
  BY P!InitIInv, QueueAssumption DEF P!IsFiniteSet, IsFiniteSet
<1>3. P!IInv /\ queueStep => P!IInv'
  BY P!NextIInv, QueueAssumption DEF queueStep, P!IsFiniteSet, IsFiniteSet
<1>. QED
  BY <1>1, <1>2, <1>3, QueueSteps

(* A task that nobody asked to cancel stays one or gets done, and what is done stays so. *)
Kept == P!TaskStatuses \cup {"done"}

(* A task that is not cancelled goes on, or is done. *)
LEMMA TasksAreKept ==
  ASSUME P!IInv, [Next]_vars, NEW x \in CQ!Commands
  PROVE  /\ status[x] = "done" => status'[x] = "done"
         /\ cancelling = {} /\ status[x] \in Kept => status'[x] \in Kept
<1>1. x \in P!Commands /\ queueStep
  BY SameNames, QueueSteps
<1>2. P!Goes(x)
  BY <1>1, P!CommandGoes, QueueAssumption DEF queueStep, P!IsFiniteSet, IsFiniteSet
<1>. QED
  BY <1>2 DEF P!Goes, Kept, P!TaskStatuses

-----------------------------------------------------------------------------
(* The inductive invariant *)

Stopping == {"agents", "cancelled", "down"}

(* The stop event is set for good by the call of stop(). *)
EventIsSet ==
  /\ stopAt \in {"serving", "draining"} \cup Stopping
  /\ stopEvent = (stopAt # "serving")

(* Before the stop no message is late; after it, only the one run() has its hands on. *)
Underway == IF runAt \in {"waiting", "routing"} THEN 1 ELSE 0

AtMostOneLate ==
  /\ lateMessages \in Nat
  /\ IF stopEvent THEN lateMessages + Underway <= 1 ELSE lateMessages = 0

(* stop() waits in its gather for all it found, and nobody is cancelled while it does. *)
Waited ==
  /\ activeAtStop \subseteq CQ!Commands
  /\ stopAt \notin {"cancelled", "down"} => cancelling = {}
  /\ stopAt = "draining" => activeAtStop \subseteq snapshot["stop"]
  /\ \A c \in activeAtStop : status[c] \in Kept

OInv == EventIsSet /\ AtMostOneLate /\ Waited /\ ActiveAtStopAreDone

(* The shutdown sequence goes from place to place; only stop() sets the event. *)
LEMMA EventStep ==
  ASSUME EventIsSet, [Next]_vars
  PROVE  EventIsSet'
<1>1. CASE Stop
  BY <1>1 DEF Stop, StopDrains, EventIsSet, Stopping
<1>2. CASE StopDrained
  BY <1>2 DEF StopDrained, EventIsSet, Stopping
<1>3. CASE CancelRun
  BY <1>3 DEF CancelRun, EventIsSet, Stopping
<1>4. CASE ShutDown
  BY <1>4 DEF ShutDown, EventIsSet, Stopping
<1>5. CASE UNCHANGED <<stopAt, stopEvent>>
  BY <1>5 DEF EventIsSet
<1>6. CASE \/ Arrive \/ Loop \/ TimeOut \/ Take \/ RunDrained \/ Work
           \/ \E c \in CQ!Commands : Dispatch(c)
           \/ UNCHANGED vars
  BY <1>5, <1>6 DEF Arrive, Loop, TimeOut, Take, RunDrained, Work, Dispatch, vars
<1>. QED
  BY <1>1, <1>2, <1>3, <1>4, <1>6 DEF Next

(* After the stop run() does not wait for messages again. *)
LEMMA LateStep ==
  ASSUME EventIsSet, AtMostOneLate, [Next]_vars
  PROVE  AtMostOneLate'
<1> USE DEF AtMostOneLate, Underway
<1>1. CASE Loop
  BY <1>1 DEF Loop, LeaveLoop, GoesOn
<1>2. CASE Take \/ TimeOut
  BY <1>2 DEF Take, TimeOut
<1>3. CASE \E c \in CQ!Commands : Dispatch(c)
  BY <1>3 DEF Dispatch
<1>4. CASE Stop
  BY <1>4 DEF Stop, EventIsSet
<1>5. CASE CancelRun
  BY <1>5 DEF CancelRun, LeaveLoop
<1>6. CASE RunDrained
  BY <1>6 DEF RunDrained
<1>7. CASE Arrive \/ Work \/ StopDrained \/ ShutDown \/ UNCHANGED vars
  BY <1>7 DEF Arrive, Work, StopDrained, ShutDown, vars
<1>. QED
  BY <1>1, <1>2, <1>3, <1>4, <1>5, <1>6, <1>7 DEF Next

(***************************************************************************)
(* Until the task of run() is cancelled nobody cancels a command: stop()   *)
(* is waited for, and only then is run() cancelled in its own drain.       *)
(***************************************************************************)
LEMMA NobodyCancels ==
  ASSUME cancelling = {}, P!IInv, [Next]_vars, ~ CancelRun
  PROVE  cancelling' = {}
<1>1. CASE Work
  BY <1>1, SameNames DEF Work, P!FirstStep, P!Resume, P!Finish, P!Abandon, P!drainVars
<1>2. CASE \E c \in CQ!Commands : Dispatch(c)
  BY <1>2, SameNames DEF Dispatch, P!Enqueue, P!drainVars
<1>3. CASE Loop
  BY <1>3, SameNames DEF Loop, LeaveLoop, Drainers, P!DrainStart, queueVars
<1>4. CASE RunDrained \/ StopDrained
  BY <1>4, SameNames DEF RunDrained, StopDrained, Drainers, P!DrainReturn
<1>5. CASE Stop
  BY <1>5, SameNames DEF Stop, StopDrains, Drainers, P!DrainStart, queueVars
<1>6. CASE Arrive \/ TimeOut \/ Take \/ ShutDown \/ UNCHANGED vars
  BY <1>6 DEF Arrive, TimeOut, Take, ShutDown, vars, queueVars
<1>. QED
  BY <1>1, <1>2, <1>3, <1>4, <1>5, <1>6 DEF Next

(* The gather of stop() keeps its tasks until it returns. *)
LEMMA SnapshotKept ==
  ASSUME P!IInv, [Next]_vars, ~ Stop, ~ StopDrained
  PROVE  snapshot'["stop"] = snapshot["stop"]
<1>0. snapshot \in [Drainers -> SUBSET P!Commands]
  BY DEF P!IInv, P!TypeOK
<1>1. CASE Work
  BY <1>1, SameNames DEF Work, P!FirstStep, P!Resume, P!Finish, P!Abandon, P!drainVars
<1>2. CASE \E c \in CQ!Commands : Dispatch(c)
  BY <1>2, SameNames DEF Dispatch, P!Enqueue, P!drainVars
<1>3. CASE Loop \/ CancelRun \/ RunDrained
  <2>1. \/ UNCHANGED snapshot
        \/ P!DrainStart("run") \/ P!DrainReturn("run") \/ P!DrainCancel("run")
    BY <1>3, SameNames DEF Loop, CancelRun, RunDrained, LeaveLoop, Drainers, queueVars
  <2>. QED
    BY <1>0, <2>1 DEF P!DrainStart, P!DrainReturn, P!DrainCancel, Drainers
<1>4. CASE Arrive \/ TimeOut \/ Take \/ ShutDown \/ UNCHANGED vars
  BY <1>4 DEF Arrive, TimeOut, Take, ShutDown, vars, queueVars
<1>. QED
  BY <1>1, <1>2, <1>3, <1>4 DEF Next

(* What stop() waits for is not lost, and is done when the agents are stopped. *)
LEMMA WaitedStep ==
  ASSUME P!IInv, EventIsSet, Waited, ActiveAtStopAreDone, [Next]_vars
  PROVE  Waited' /\ ActiveAtStopAreDone'
<1>1. P!Tasks \subseteq CQ!Commands /\ \A c \in P!Tasks : status[c] \in P!TaskStatuses
  BY SameNames DEF P!Tasks, P!In
<1>2. CASE Stop
  <2>1. activeAtStop' = P!Tasks /\ cancelling = {}
    BY <1>2, SameNames DEF Stop, Waited
  <2>2. cancelling' = {}
    BY <1>2, <2>1, NobodyCancels DEF CancelRun, Stop
  <2>3. \A c \in activeAtStop' : status'[c] \in Kept
    BY <1>1, <2>1, TasksAreKept DEF Kept
  <2>4. CASE P!Tasks = {}
    BY <1>1, <1>2, <2>1, <2>2, <2>4, SameNames DEF Stop, StopDrains, Waited, ActiveAtStopAreDone
  <2>5. CASE P!Tasks # {}
    <3>1. P!DrainStart("stop") /\ stopAt' = "draining"
      BY <1>2, <2>5, SameNames DEF Stop, StopDrains, Drainers
    <3>2. snapshot'["stop"] = P!Tasks
      BY <3>1 DEF P!DrainStart, P!IInv, P!TypeOK, Drainers
    <3>. QED
      BY <1>1, <2>1, <2>2, <2>3, <3>1, <3>2 DEF Waited, ActiveAtStopAreDone
  <2>. QED
    BY <2>4, <2>5
<1>3. CASE StopDrained
  <2>1. /\ P!DrainReturn("stop") /\ stopAt = "draining" /\ stopAt' = "agents"
        /\ UNCHANGED activeAtStop
    BY <1>3, SameNames DEF StopDrained, Drainers
  <2>2. snapshot["stop"] \cap P!Tasks = {} /\ UNCHANGED <<status, cancelling>>
    BY <2>1 DEF P!DrainReturn
  <2>3. \A c \in activeAtStop : c \notin P!Tasks
    BY <2>1, <2>2 DEF Waited
  <2>4. \A c \in activeAtStop : status[c] = "done"
    BY <2>3, SameNames DEF Waited, Kept, P!Tasks, P!In
  <2>. QED
    BY <2>1, <2>2, <2>4 DEF Waited, ActiveAtStopAreDone
<1>4. CASE CancelRun \/ ShutDown
  <2>1. /\ stopAt \in {"agents", "cancelled"} /\ stopAt' \in {"cancelled", "down"}
        /\ UNCHANGED activeAtStop
    BY <1>4 DEF CancelRun, ShutDown
  <2>2. \A c \in activeAtStop : c \in CQ!Commands /\ status[c] = "done"
    BY <2>1 DEF Waited, ActiveAtStopAreDone
  <2>3. \A c \in activeAtStop : status'[c] = "done"
    BY <2>2, TasksAreKept
  <2>. QED
    BY <2>1, <2>2, <2>3 DEF Waited, ActiveAtStopAreDone, Kept
<1>5. CASE ~ Stop /\ ~ StopDrained /\ ~ CancelRun /\ ~ ShutDown
  <2>1. UNCHANGED <<stopAt, activeAtStop>>
    BY <1>5 DEF Next, Arrive, Loop, TimeOut, Take, RunDrained, Work, Dispatch, vars
  <2>2. snapshot'["stop"] = snapshot["stop"]
    BY <1>5, SnapshotKept
  <2>3. cancelling = {} => cancelling' = {}
    BY <1>5, NobodyCancels
  <2>4. \A c \in activeAtStop : c \in CQ!Commands
    BY DEF Waited
  <2>5. \A c \in activeAtStop : status[c] = "done" => status'[c] = "done"
    BY <2>4, TasksAreKept
  <2>6. cancelling = {} => \A c \in activeAtStop : status'[c] \in Kept
    BY <2>4, TasksAreKept DEF Waited
  <2>7. stopAt \in {"cancelled", "down"} => \A c \in activeAtStop : status'[c] \in Kept
    BY <2>5 DEF ActiveAtStopAreDone, Kept
  <2>. QED
    BY <2>1, <2>2, <2>3, <2>5, <2>6, <2>7 DEF Waited, ActiveAtStopAreDone
<1>. QED
  BY <1>2, <1>3, <1>4, <1>5

(* It holds at the start. *)
LEMMA InitOInv == Init => OInv
<1> SUFFICES ASSUME Init PROVE OInv
  OBVIOUS
<1>1. EventIsSet
  BY DEF Init, EventIsSet
<1>2. AtMostOneLate
  BY DEF Init, AtMostOneLate
<1>3. Waited
  BY DEF Init, CQ!Init, Waited
<1>4. ActiveAtStopAreDone
  BY DEF Init, ActiveAtStopAreDone
<1>. QED
  BY <1>1, <1>2, <1>3, <1>4 DEF OInv

(* The lanes' invariant and the orchestrator's together are inductive. *)
THEOREM Invariance == Spec => [](P!IInv /\ OInv)
<1>1. Init => P!IInv /\ OInv
  BY QueueInvariant, InitOInv
<1>2. P!IInv /\ OInv /\ [Next]_vars => (P!IInv /\ OInv)'
  <2> SUFFICES ASSUME P!IInv, OInv, [Next]_vars PROVE P!IInv' /\ OInv'
    OBVIOUS
  <2>. QED
    BY QueueInvariant, EventStep, LateStep, WaitedStep DEF OInv
<1>. QED
  BY <1>1, <1>2, PTL DEF Spec

(***************************************************************************)
(* Dispatching, timing out, stopping and shutting down use the lanes by    *)
(* the operations of the command queue only, so that what is shown of      *)
(* CommandQueue holds of the messages: also around a shutdown, whose two   *)
(* drains overlap.                                                         *)
(***************************************************************************)
THEOREM UsesCommandQueue == Spec => P!Spec
<1>1. Init => P!Init
  BY DEF Init, CQ!Init, P!Init, CQ!Commands, P!Commands
<1>2. [Next]_vars => [P!Next]_(P!vars)
  BY QueueSteps DEF queueStep
<1>. QED
  BY <1>1, <1>2, PTL DEF Spec, P!Spec

(* The messages of a chat begin in the order they were dispatched in, below the    *)
(* caps of their lane and of all lanes, whenever the shutdown comes.               *)
THEOREM MessagesInOrder == Spec => P!KeepsPromise
<1>1. P!Spec => P!KeepsPromise
  BY P!Implements, QueueAssumption DEF P!IsFiniteSet, IsFiniteSet
<1>. QED
  BY <1>1, UsesCommandQueue, PTL

-----------------------------------------------------------------------------
(* The invariants of the runs *)

(* A graceful stop: what was a task when stop() was called is done before an agent *)
(* is stopped, however the drains of run() and stop() overlap.                     *)
THEOREM GracefulStop == Spec => []ActiveAtStopAreDone
<1>1. OInv => ActiveAtStopAreDone
  BY DEF OInv
<1>. QED
  BY <1>1, Invariance, PTL

(* One message at most is dispatched after the stop. *)
THEOREM StopIsHeeded == Spec => []OneLateMessage
<1>1. OInv => OneLateMessage
  BY DEF OInv, AtMostOneLate, Underway, OneLateMessage
<1>. QED
  BY <1>1, Invariance, PTL
-----------------------------------------------------------------------------
(* Subagents: what is known of a message and of a subagent. *)

OnItsWay(m) == at[m] \in {"lane"} \union InAgent
Spawned(s) == sub[s] # "new"

MessageStages == {"new", "lane"} \union InAgent \union {"ended", "gone"}
SubagentStages == {"new"} \union AtWork \union {"stuck", "ended", "gone"}

SubagentTypes ==
  /\ at \in [Messages -> MessageStages]
  /\ sub \in [Subagents -> SubagentStages]
  /\ parent \in [Subagents -> Messages \union {NoTask}]
  /\ chat \in [Messages -> Chats]
  /\ replied \subseteq Messages

(* A task is of a message that was published, or of a subagent that was spawned. *)
TaskWasSent ==
  /\ \A m \in issued : at[m] # "new" \/ (\E s \in Subagents : m = Run(s) /\ Spawned(s))
  /\ \A s \in Subagents : Spawned(s) \/ at[Run(s)] = "new"

(* A stopped server has nothing in memory, and a task to publish again is not on its way. *)
DownIsEmpty ==
  /\ ~ up => (\A m \in Messages : ~ OnItsWay(m)) /\ (\A s \in Subagents : sub[s] \notin AtWork)
  /\ \A m \in recoveredIds : ~ OnItsWay(m)

(* What the agent works on has its task. *)
HasTask == \A m \in Messages : at[m] \in InAgent => m \in TT!Known(tasks)

(* The announcement is published last, in the chat of the turn that spawned. *)
AnnouncedLast ==
  \A s \in Subagents :
    /\ at[Report(s)] # "new" => sub[s] = "ended"
    /\ Spawned(s) => parent[s] \in Messages /\ at[parent[s]] # "new" /\ chat[Report(s)] = chat[parent[s]]

(* While the announcement waits, its turn has replied or is still in the agent. *)
ParentAtWork ==
  \A s \in Subagents :
    (Spawned(s) /\ sub[s] \in AtWork) \/ at[Report(s)] = "lane" =>
      parent[s] \in replied \/ at[parent[s]] = "thinking"

(* From its first step on, it has replied. *)
ParentReplied ==
  \A s \in Subagents : Report(s) \in issued \/ at[Report(s)] \in InAgent => parent[s] \in replied

SubagentInv ==
  /\ TT!IInv
  /\ SubagentTypes /\ TaskWasSent /\ DownIsEmpty /\ HasTask /\ AnnouncedLast /\ ParentAtWork /\ ParentReplied

(* The messages of a subagent are told apart, and from those of the users. *)
LEMMA IdFacts ==
  /\ NoTask \notin Messages
  /\ \A s \in Subagents : Run(s) \in Messages /\ Report(s) \in Messages
  /\ \A s, u \in Subagents :
       Run(s) # Report(u) /\ (Run(s) = Run(u) => s = u) /\ (Report(s) = Report(u) => s = u)
  /\ \A t \in Turns : t \in Messages /\ \A s \in Subagents : t # Run(s) /\ t # Report(s)
BY IdsAssumption DEF Messages, Run, Report

(* The operations of the task table by the names of the module and of its proofs. *)
LEMMA TableNames ==
  /\ TM!Init => TT!Init
  /\ TM!Load => TT!Load
  /\ TM!GetRecovered => TT!GetRecovered
  /\ TM!Crash => TT!Crash
  /\ TM!HourPasses(recent) => TT!HourPasses(recent)
  /\ TM!Known(tasks) = TT!Known(tasks)
  /\ \A m, kind, p : TM!CreateTask(m, kind, p) => TT!CreateTask(m, kind, p)
  /\ \A m, s : TM!UpdateState(m, s) => TT!UpdateState(m, s)
<1>1. TM!Init => TT!Init
  BY DEF TM!Init, TT!Init
<1>2. TM!Load => TT!Load
  BY Zenon DEF TM!Load, TT!Load, TM!LoadedTable, TT!LoadedTable, TM!Recovered, TT!Recovered,
               TM!Requeued, TT!Requeued, TM!FileAfterLoad, TT!FileAfterLoad, TM!Touched, TT!Touched
<1>3. TM!GetRecovered => TT!GetRecovered
  BY DEF TM!GetRecovered, TT!GetRecovered
<1>4. TM!Crash => TT!Crash
  BY DEF TM!Crash, TT!Crash
<1>5. TM!HourPasses(recent) => TT!HourPasses(recent)
  BY DEF TM!HourPasses, TT!HourPasses, TM!storeVars, TT!storeVars
<1>6. TM!Known(tasks) = TT!Known(tasks)
  BY DEF TM!Known, TT!Known
<1>7. \A m, kind, p : TM!CreateTask(m, kind, p) => TT!CreateTask(m, kind, p)
  BY Zenon DEF TM!CreateTask, TT!CreateTask, TM!WithTask, TT!WithTask, TM!NewTask, TT!NewTask
<1>8. \A m, s : TM!UpdateState(m, s) => TT!UpdateState(m, s)
  BY Zenon DEF TM!UpdateState, TT!UpdateState, TM!Known, TT!Known, TM!WithState, TT!WithState
<1>. QED
  BY <1>1, <1>2, <1>3, <1>4, <1>5, <1>6, <1>7, <1>8

subTableStep == [TT!Next]_(TT!vars)

(* create_task gives out an id of its own; its parent is a task of the table. *)
LEMMA SubCreate ==
  ASSUME TT!IInv, NEW m \in Messages, NEW kind \in TT!Kinds, NEW p \in TT!Parents(kind),
         TM!CreateTask(m, kind, p)
  PROVE  /\ up /\ up' = up /\ m \notin issued /\ issued' = issued \union {m} /\ recoveredIds' = recoveredIds
         /\ TT!Known(tasks)' = TT!Known(tasks) \union {m}
         /\ subTableStep
<1>1. TT!CreateTask(m, kind, p)
  BY TableNames
<1>2. m \notin issued /\ tasks' = TT!WithTask(m, kind, p)
  BY <1>1 DEF TT!CreateTask
<1>3. TT!Known(TT!WithTask(m, kind, p)) = TT!Known(tasks) \union {m}
  BY <1>2, TT!NewTaskOrderly, IdsAssumption
<1>4. TT!Known(tasks)' = TT!Known(TT!WithTask(m, kind, p))
  BY <1>2 DEF TT!Known
<1>5. subTableStep
  BY <1>1 DEF subTableStep, TT!Next
<1>. QED
  BY <1>1, <1>3, <1>4, <1>5 DEF TT!CreateTask

(* update_state is for a task of the table, and leaves the ids as they are. *)
LEMMA SubUpdate ==
  ASSUME TT!IInv, NEW m \in Messages, NEW s \in {"DOING", "DONE", "ERROR"}, TM!UpdateState(m, s)
  PROVE  /\ up /\ up' = up /\ m \in TT!Known(tasks) /\ issued' = issued /\ recoveredIds' = recoveredIds
         /\ TT!Known(tasks)' = TT!Known(tasks)
         /\ subTableStep
<1>1. TT!UpdateState(m, s) /\ s \in TT!States
  BY TableNames DEF TT!States
<1>2. TT!Known(TT!WithState(m, s)) = TT!Known(tasks)
  BY <1>1, TT!UpdatedOrderly, IdsAssumption DEF TT!IInv
<1>3. TT!Known(tasks)' = TT!Known(TT!WithState(m, s))
  BY <1>1 DEF TT!Known, TT!UpdateState
<1>4. subTableStep
  BY <1>1 DEF subTableStep, TT!Next
<1>. QED
  BY <1>1, <1>2, <1>3, <1>4 DEF TT!UpdateState

(* The other operations give out no id; the recovered ones were given out. *)
LEMMA SubRest ==
  ASSUME TT!IInv,
         TM!Load \/ TM!GetRecovered \/ TM!Crash \/ TM!HourPasses(recent) \/ UNCHANGED taskVars
  PROVE  /\ issued' = issued /\ recoveredIds' \subseteq issued /\ subTableStep
         /\ TM!Load => ~ up
         /\ TM!GetRecovered => up /\ up' = up /\ recoveredIds' = {} /\ tasks' = tasks
         /\ TM!Crash => recoveredIds' = {}
         /\ TM!HourPasses(recent) => up' = up /\ recoveredIds' = recoveredIds /\ tasks' = tasks
<1>1. CASE TM!Load
  <2>1. TT!Load
    BY <1>1, TableNames
  <2>2. subTableStep
    BY <2>1 DEF subTableStep, TT!Next
  <2>3. /\ ~ up /\ issued' = issued
        /\ recoveredIds' = {file[k].id : k \in {j \in DOMAIN file : TT!Requeued(file[j])}}
        /\ up'
    BY <2>1 DEF TT!Load
  <2>4. recoveredIds' \subseteq issued
    BY <2>3 DEF TT!IInv, TT!TypeOK, TT!Known
  <2>. QED
    BY <2>2, <2>3, <2>4, <1>1 DEF TM!GetRecovered, TM!Crash, TM!HourPasses, TM!storeVars
<1>2. CASE TM!GetRecovered
  BY <1>2, TableNames
     DEF TM!GetRecovered, TM!Load, TM!Crash, TM!HourPasses, TM!storeVars, subTableStep, TT!Next
<1>3. CASE TM!Crash
  BY <1>3, TableNames
     DEF TM!GetRecovered, TM!Load, TM!Crash, TM!HourPasses, TM!storeVars, subTableStep, TT!Next
<1>4. CASE TM!HourPasses(recent)
  <2>1. recent \in SUBSET recent /\ TT!HourPasses(recent)
    BY <1>4, TableNames
  <2>2. subTableStep
    BY <2>1 DEF subTableStep, TT!Next
  <2>3. /\ issued' = issued /\ up' = up /\ recoveredIds' = recoveredIds /\ tasks' = tasks
        /\ recoveredIds \subseteq issued
    BY <1>4 DEF TM!HourPasses, TM!storeVars, TT!IInv, TT!TypeOK
  <2>. QED
    BY <2>2, <2>3 DEF TM!Load, TM!GetRecovered, TM!Crash
<1>5. CASE UNCHANGED taskVars
  BY <1>5 DEF taskVars, subTableStep, TT!vars, TT!storeVars, TT!IInv, TT!TypeOK,
              TM!Load, TM!GetRecovered, TM!Crash, TM!HourPasses
<1>. QED
  BY <1>1, <1>2, <1>3, <1>4, <1>5

(* Nothing was sent or spawned. *)
LEMMA SubagentInit == SubagentsInit => SubagentInv
<1> SUFFICES ASSUME SubagentsInit PROVE SubagentInv
  OBVIOUS
<1>1. TT!IInv /\ issued = {} /\ recoveredIds = {}
  BY TableNames, TT!InitIInv, IdsAssumption DEF SubagentsInit, TM!Init
<1>2. /\ \A m \in Messages : at[m] = "new"
      /\ \A s \in Subagents : sub[s] = "new"
  BY DEF SubagentsInit
<1>3. SubagentTypes
  BY DEF SubagentsInit, SubagentTypes, MessageStages, SubagentStages
<1>4. TaskWasSent /\ DownIsEmpty /\ HasTask
  BY <1>1, <1>2, IdFacts DEF TaskWasSent, DownIsEmpty, HasTask, OnItsWay, InAgent, AtWork, Spawning
<1>5. AnnouncedLast /\ ParentAtWork /\ ParentReplied
  BY <1>1, <1>2, IdFacts DEF AnnouncedLast, ParentAtWork, ParentReplied, Spawned, InAgent
<1>. QED
  BY <1>1, <1>3, <1>4, <1>5 DEF SubagentInv

(* A start, the recovered tasks, an hour. *)
LEMMA StartStep ==
  ASSUME SubagentInv,
         Boot \/ (TM!HourPasses(recent) /\ UNCHANGED <<chat, parent, at, sub, lanes, replied, stops>>)
  PROVE  subTableStep /\ (TT!IInv' => SubagentInv')
<1> USE DEF SubagentInv
<1>1. /\ UNCHANGED <<chat, parent, at, sub, replied>>
      /\ issued' = issued /\ recoveredIds' \subseteq issued /\ subTableStep
  BY SubRest DEF Boot
<1>2. SubagentTypes' /\ AnnouncedLast' /\ ParentAtWork' /\ ParentReplied'
  BY <1>1 DEF SubagentTypes, AnnouncedLast, ParentAtWork, ParentReplied, Spawned
<1>3. TaskWasSent'
  BY <1>1 DEF TaskWasSent, Spawned
<1>4. CASE Boot
  <2>1. ~ up
    BY <1>4, SubRest DEF Boot
  <2>2. /\ (\A m \in Messages : ~ OnItsWay(m)) /\ (\A s \in Subagents : sub[s] \notin AtWork)
        /\ issued \subseteq Messages
    BY <2>1 DEF DownIsEmpty, TT!IInv, TT!TypeOK
  <2>3. DownIsEmpty' /\ HasTask'
    BY <1>1, <2>2 DEF DownIsEmpty, HasTask, OnItsWay
  <2>. QED
    BY <1>1, <1>2, <1>3, <2>3
<1>5. CASE TM!HourPasses(recent)
  <2>1. up' = up /\ recoveredIds' = recoveredIds /\ tasks' = tasks
    BY <1>5, SubRest
  <2>2. DownIsEmpty' /\ HasTask'
    BY <1>1, <2>1 DEF DownIsEmpty, HasTask, OnItsWay, TT!Known
  <2>. QED
    BY <1>1, <1>2, <1>3, <2>2
<1>. QED
  BY <1>4, <1>5

(* What is published again is not in the agent; an announcement among it was worked on before. *)
LEMMA RequeueStep == ASSUME SubagentInv, Requeue PROVE subTableStep /\ (TT!IInv' => SubagentInv')
<1> USE DEF SubagentInv
<1>1. /\ UNCHANGED <<chat, parent, sub, replied>>
      /\ at' = [m \in Messages |-> IF m \in recoveredIds THEN "lane" ELSE at[m]]
      /\ up /\ up' = up /\ tasks' = tasks /\ issued' = issued /\ recoveredIds' = {} /\ subTableStep
  BY SubRest DEF Requeue
<1>2. recoveredIds \subseteq issued /\ \A m \in recoveredIds : ~ OnItsWay(m)
  BY DEF TT!IInv, TT!TypeOK, DownIsEmpty
<1>3. SubagentTypes'
  BY <1>1 DEF SubagentTypes, MessageStages
<1>4. TaskWasSent'
  <2>1. \A m \in issued : m \in Messages /\ (at[m] # "new" => at'[m] # "new")
    BY <1>1 DEF TT!IInv, TT!TypeOK
  <2>2. ASSUME NEW s \in Subagents, Run(s) \in recoveredIds PROVE Spawned(s)
    BY <1>2, <2>2, IdFacts DEF TaskWasSent
  <2>. QED
    BY <1>1, <2>1, <2>2, IdFacts DEF TaskWasSent, Spawned
<1>5. DownIsEmpty' /\ HasTask'
  BY <1>1 DEF DownIsEmpty, HasTask, InAgent, TT!Known
<1>6. AnnouncedLast'
  BY <1>1, <1>2, IdFacts DEF AnnouncedLast, TaskWasSent, Spawned
<1>7. ParentReplied'
  BY <1>1, IdFacts DEF ParentReplied, InAgent
<1>8. ParentAtWork'
  <2> SUFFICES ASSUME NEW s \in Subagents, (Spawned(s) /\ sub[s] \in AtWork) \/ at'[Report(s)] = "lane",
                      parent[s] \notin replied
               PROVE  at'[parent[s]] = "thinking"
    BY <1>1 DEF ParentAtWork, Spawned
  <2>1. Report(s) \notin recoveredIds
    BY <1>2 DEF ParentReplied
  <2>2. at[parent[s]] = "thinking"
    BY <1>1, <2>1, IdFacts DEF ParentAtWork
  <2>3. parent[s] \in Messages /\ parent[s] \notin recoveredIds
    <3>1. Spawned(s)
      BY <1>1, <2>1, IdFacts DEF AnnouncedLast, Spawned
    <3>. QED
      BY <1>2, <2>2, <3>1 DEF AnnouncedLast, OnItsWay, InAgent
  <2>. QED
    BY <1>1, <2>2, <2>3
<1>. QED
  BY <1>1, <1>3, <1>4, <1>5, <1>6, <1>7, <1>8

(* With the turns, the subagents and the announcements that are not a task yet are gone. *)
LEMMA StopStep == ASSUME SubagentInv, StopProcess PROVE subTableStep /\ (TT!IInv' => SubagentInv')
<1> USE DEF SubagentInv
<1>1. /\ UNCHANGED <<chat, parent, replied>> /\ issued' = issued /\ recoveredIds' = {} /\ subTableStep
      /\ at' = [m \in Messages |-> IF OnItsWay(m) THEN "gone" ELSE at[m]]
      /\ sub' = [s \in Subagents |-> IF sub[s] \in AtWork THEN "gone" ELSE sub[s]]
  BY SubRest DEF StopProcess, OnItsWay
<1>2. SubagentTypes'
  BY <1>1 DEF SubagentTypes, MessageStages, SubagentStages, InAgent, AtWork, Spawning
<1>3. \A m \in Messages : at'[m] \notin {"lane"} \union InAgent /\ (at'[m] = "new" <=> at[m] = "new")
  BY <1>1 DEF OnItsWay, InAgent
<1>4. \A s \in Subagents : /\ sub'[s] \notin AtWork /\ (Spawned(s)' <=> Spawned(s))
                           /\ sub[s] = "ended" => sub'[s] = "ended"
  BY <1>1 DEF AtWork, Spawning, Spawned
<1>5. TaskWasSent'
  BY <1>1, <1>3, <1>4, IdFacts DEF TaskWasSent, TT!IInv, TT!TypeOK
<1>6. DownIsEmpty' /\ HasTask'
  BY <1>1, <1>3, <1>4 DEF DownIsEmpty, HasTask, OnItsWay
<1>7. AnnouncedLast'
  BY <1>1, <1>3, <1>4, IdFacts DEF AnnouncedLast
<1>8. ParentAtWork' /\ ParentReplied'
  BY <1>1, <1>3, <1>4, IdFacts DEF ParentAtWork, ParentReplied
<1>. QED
  BY <1>1, <1>2, <1>5, <1>6, <1>7, <1>8

(* A message of a user comes. *)
LEMMA ReceiveStep ==
  ASSUME SubagentInv, NEW t \in Turns, Receive(t)
  PROVE  subTableStep /\ (TT!IInv' => SubagentInv')
<1> USE DEF SubagentInv
<1>1. /\ UNCHANGED <<chat, parent, sub, replied>> /\ UNCHANGED taskVars /\ up
      /\ at[t] = "new" /\ at' = [at EXCEPT ![t] = "lane"] /\ t \in Messages
  BY IdFacts DEF Receive, Publish, Move
<1>2. issued' = issued /\ recoveredIds' = recoveredIds /\ tasks' = tasks /\ up' = up /\ subTableStep
  BY <1>1, SubRest DEF taskVars
<1>3. t \notin issued /\ t \notin recoveredIds
  BY <1>1, IdFacts DEF TaskWasSent, TT!IInv, TT!TypeOK
<1>4. SubagentTypes'
  BY <1>1 DEF SubagentTypes, MessageStages
<1>5. \A m \in Messages : m # t => at'[m] = at[m]
  BY <1>1 DEF SubagentTypes
<1>6. at'[t] = "lane"
  BY <1>1 DEF SubagentTypes
<1>7. TaskWasSent'
  BY <1>1, <1>2, <1>3, <1>5, IdFacts DEF TaskWasSent, Spawned, TT!IInv, TT!TypeOK
<1>8. DownIsEmpty' /\ HasTask'
  BY <1>1, <1>2, <1>3, <1>5, <1>6 DEF DownIsEmpty, HasTask, OnItsWay, InAgent, TT!Known, TT!IInv, TT!TypeOK
<1>9. AnnouncedLast'
  BY <1>1, <1>5, <1>6, IdFacts DEF AnnouncedLast, Spawned
<1>10. ParentAtWork' /\ ParentReplied'
  BY <1>1, <1>2, <1>5, IdFacts DEF ParentAtWork, ParentReplied, Spawned, AnnouncedLast
<1>. QED
  BY <1>2, <1>4, <1>7, <1>8, <1>9, <1>10

(***************************************************************************)
(* A step of the loop for a message in the agent: it stays there or ends,  *)
(* and if it ends has its reply.  No announcement becomes one.             *)
(***************************************************************************)
LEMMA TurnStep ==
  ASSUME SubagentInv, NEW m \in Messages, Make(m) \/ Reply(m) \/ Close(m) \/ Fail(m)
  PROVE  subTableStep /\ (TT!IInv' => SubagentInv')
<1> USE DEF SubagentInv
<1>1. /\ UNCHANGED <<chat, parent, sub>> /\ issued' = issued /\ recoveredIds' = recoveredIds /\ up' = up
      /\ TT!Known(tasks)' = TT!Known(tasks) /\ subTableStep
  <2>1. CASE Reply(m)
    BY <2>1, SubRest DEF Reply, taskVars, TT!Known
  <2>2. CASE Make(m) \/ Close(m) \/ Fail(m)
    BY <2>2, SubUpdate DEF Make, Close, Fail
  <2>. QED
    BY <2>1, <2>2
<1>2. /\ at[m] \in InAgent
      /\ \E to \in {"thinking", "replying", "ended"} : at' = [at EXCEPT ![m] = to]
      /\ replied \subseteq replied' /\ replied' \subseteq Messages
      /\ at[m] = "thinking" => m \in replied'
  BY DEF Make, Reply, Close, Fail, Move, InAgent, SubagentTypes
<1>3. /\ \A n \in Messages : n # m => at'[n] = at[n]
      /\ at'[m] \in {"thinking", "replying", "ended"}
      /\ at' \in [Messages -> MessageStages]
  BY <1>2 DEF SubagentTypes, MessageStages, InAgent
<1>4. SubagentTypes'
  BY <1>1, <1>2, <1>3 DEF SubagentTypes
<1>5. \A n \in Messages : /\ at'[n] = "new" <=> at[n] = "new"
                          /\ at'[n] = "lane" <=> at[n] = "lane"
                          /\ at'[n] \in InAgent => at[n] \in InAgent
  BY <1>2, <1>3 DEF InAgent
<1>6. TaskWasSent'
  BY <1>1, <1>5, IdFacts DEF TaskWasSent, Spawned, TT!IInv, TT!TypeOK
<1>7. DownIsEmpty' /\ HasTask'
  BY <1>1, <1>5 DEF DownIsEmpty, HasTask, OnItsWay, TT!IInv, TT!TypeOK
<1>8. AnnouncedLast'
  BY <1>1, <1>5, IdFacts DEF AnnouncedLast, Spawned
<1>9. ParentReplied'
  BY <1>1, <1>2, <1>5, IdFacts DEF ParentReplied
<1>10. ParentAtWork'
  <2> SUFFICES ASSUME NEW s \in Subagents, (Spawned(s) /\ sub[s] \in AtWork) \/ at[Report(s)] = "lane",
                      parent[s] \notin replied'
               PROVE  at'[parent[s]] = "thinking"
    BY <1>1, <1>5, IdFacts DEF ParentAtWork, Spawned
  <2>1. at[parent[s]] = "thinking" /\ parent[s] # m
    BY <1>2 DEF ParentAtWork
  <2>2. Spawned(s)
    BY IdFacts DEF AnnouncedLast, Spawned
  <2>. QED
    BY <1>3, <2>1, <2>2 DEF AnnouncedLast
<1>. QED
  BY <1>1, <1>4, <1>6, <1>7, <1>8, <1>9, <1>10

(***************************************************************************)
(* A message begins: an announcement does so when the turn that spawned is *)
(* no longer in the agent, since both are of one chat.                     *)
(***************************************************************************)
LEMMA BeginStep ==
  ASSUME SubagentInv, NEW m \in Messages, Begin(m)
  PROVE  subTableStep /\ (TT!IInv' => SubagentInv')
<1> USE DEF SubagentInv
<1>1. /\ UNCHANGED <<chat, parent, sub, replied>> /\ at[m] = "lane"
      /\ \E to \in {"making", "thinking"} : at' = [at EXCEPT ![m] = to]
      /\ \A n \in Messages : at[n] \in InAgent => chat[n] # chat[m]
  BY DEF Begin, MayBegin, Move
<1>2. /\ up /\ up' = up /\ recoveredIds' = recoveredIds
      /\ issued \subseteq issued' /\ issued' \subseteq issued \union {m}
      /\ TT!Known(tasks)' = TT!Known(tasks) \union {m} /\ subTableStep
  <2>1. CASE TM!UpdateState(m, "DOING")
    BY <2>1, SubUpdate
  <2>2. CASE TM!CreateTask(m, "agent", NoTask)
    <3>1. "agent" \in TT!Kinds /\ NoTask \in TT!Parents("agent")
      BY DEF TT!Kinds, TT!Parents
    <3>. QED
      BY <2>2, <3>1, SubCreate
  <2>. QED
    BY <2>1, <2>2 DEF Begin
<1>3. /\ \A n \in Messages : n # m => at'[n] = at[n]
      /\ at'[m] \in {"making", "thinking"}
      /\ at' \in [Messages -> MessageStages]
  BY <1>1 DEF SubagentTypes, MessageStages, InAgent
<1>4. SubagentTypes'
  BY <1>1, <1>3 DEF SubagentTypes
<1>5. m \notin recoveredIds
  BY <1>1 DEF DownIsEmpty, OnItsWay
<1>6. \A n \in Messages : at'[n] = "new" <=> at[n] = "new"
  BY <1>1, <1>3
<1>7. TaskWasSent'
  BY <1>1, <1>2, <1>3, <1>6, IdFacts DEF TaskWasSent, Spawned, TT!IInv, TT!TypeOK
<1>8. DownIsEmpty'
  BY <1>1, <1>2, <1>3, <1>5 DEF DownIsEmpty, OnItsWay, TT!IInv, TT!TypeOK
<1>9. HasTask'
  BY <1>2, <1>3 DEF HasTask
<1>10. AnnouncedLast'
  BY <1>1, <1>6, IdFacts DEF AnnouncedLast, Spawned
<1>11. \A s \in Subagents : Report(s) = m => parent[s] \in replied
  <2> SUFFICES ASSUME NEW s \in Subagents, Report(s) = m, parent[s] \notin replied PROVE FALSE
    OBVIOUS
  <2>1. Spawned(s) /\ at[parent[s]] = "thinking"
    BY <1>1 DEF ParentAtWork, AnnouncedLast, Spawned
  <2>2. parent[s] \in Messages /\ chat[parent[s]] = chat[m]
    BY <2>1 DEF AnnouncedLast
  <2>. QED
    BY <1>1, <2>1, <2>2 DEF InAgent
<1>12. ParentReplied'
  BY <1>1, <1>2, <1>3, <1>11, IdFacts DEF ParentReplied
<1>13. ParentAtWork'
  <2> SUFFICES ASSUME NEW s \in Subagents, (Spawned(s) /\ sub[s] \in AtWork) \/ at'[Report(s)] = "lane",
                      parent[s] \notin replied
               PROVE  at'[parent[s]] = "thinking"
    BY <1>1 DEF ParentAtWork, Spawned
  <2>1. at'[Report(s)] = "lane" => at[Report(s)] = "lane"
    BY <1>3, IdFacts
  <2>2. Spawned(s) /\ at[parent[s]] = "thinking"
    BY <2>1, IdFacts DEF ParentAtWork, AnnouncedLast, Spawned
  <2>. QED
    BY <1>1, <1>3, <2>2 DEF AnnouncedLast
<1>. QED
  BY <1>2, <1>4, <1>7, <1>8, <1>9, <1>10, <1>12, <1>13

(* spawn gives the subagent the chat of its turn; who has spawned before keeps chat and parent. *)
LEMMA SpawnStep ==
  ASSUME SubagentInv, NEW m \in Messages, NEW s \in Subagents, Spawn(m, s)
  PROVE  subTableStep /\ (TT!IInv' => SubagentInv')
<1> USE DEF SubagentInv
<1>1. /\ UNCHANGED <<at, replied>> /\ at[m] = "thinking" /\ sub[s] = "new"
      /\ sub' = [sub EXCEPT ![s] = "creating"]
      /\ parent' = [parent EXCEPT ![s] = m]
      /\ chat' = [chat EXCEPT ![Run(s)] = chat[m], ![Report(s)] = chat[m]]
  BY DEF Spawn, Advance, Origin
<1>2. /\ up /\ up' = up /\ recoveredIds' = recoveredIds /\ issued' = issued \union {Run(s)}
      /\ TT!Known(tasks)' = TT!Known(tasks) \union {Run(s)} /\ subTableStep
  <2>1. "subagent" \in TT!Kinds /\ m \in TT!Parents("subagent")
    BY <1>1 DEF TT!Kinds, TT!Parents, HasTask, InAgent
  <2>2. TM!CreateTask(Run(s), "subagent", m)
    BY DEF Spawn
  <2>. QED
    BY <2>1, <2>2, SubCreate, IdFacts
<1>3. /\ ~ Spawned(s) /\ Spawned(s)'
      /\ \A u \in Subagents : u # s => sub'[u] = sub[u] /\ parent'[u] = parent[u]
      /\ sub'[s] = "creating" /\ parent'[s] = m
  BY <1>1 DEF Spawned, SubagentTypes
<1>4. at[Run(s)] = "new" /\ at[Report(s)] = "new" /\ Run(s) # Report(s)
  BY <1>1, <1>3, IdFacts DEF TaskWasSent, AnnouncedLast
<1>5. /\ \A n \in Messages : n # Run(s) /\ n # Report(s) => chat'[n] = chat[n]
      /\ chat'[Report(s)] = chat[m] /\ chat'[m] = chat[m]
  BY <1>1, <1>4, IdFacts DEF SubagentTypes
<1>6. SubagentTypes'
  <2>1. chat[m] \in Chats /\ chat' \in [Messages -> Chats]
    BY <1>1 DEF SubagentTypes
  <2>2. /\ sub' \in [Subagents -> SubagentStages]
        /\ parent' \in [Subagents -> Messages \union {NoTask}]
    BY <1>1 DEF SubagentTypes, SubagentStages, AtWork, Spawning
  <2>. QED
    BY <1>1, <2>1, <2>2 DEF SubagentTypes
<1>7. TaskWasSent'
  BY <1>1, <1>2, <1>3, IdFacts DEF TaskWasSent, Spawned
<1>8. DownIsEmpty' /\ HasTask'
  BY <1>1, <1>2 DEF DownIsEmpty, HasTask, OnItsWay
<1>9. AnnouncedLast'
  <2> SUFFICES ASSUME NEW u \in Subagents
               PROVE  /\ at[Report(u)] # "new" => sub'[u] = "ended"
                      /\ Spawned(u)' =>
                           /\ parent'[u] \in Messages /\ at[parent'[u]] # "new"
                           /\ chat'[Report(u)] = chat'[parent'[u]]
    BY <1>1 DEF AnnouncedLast
  <2>1. CASE u = s
    BY <1>1, <1>3, <1>4, <1>5, <2>1
  <2>2. CASE u # s
    <3>1. /\ at[Report(u)] # "new" => sub[u] = "ended"
          /\ Spawned(u) =>
               parent[u] \in Messages /\ at[parent[u]] # "new" /\ chat[Report(u)] = chat[parent[u]]
      BY DEF AnnouncedLast
    <3>2. sub'[u] = sub[u] /\ parent'[u] = parent[u] /\ (Spawned(u)' <=> Spawned(u))
      BY <1>3, <2>2 DEF Spawned
    <3>3. chat'[Report(u)] = chat[Report(u)]
      BY <1>5, <2>2, IdFacts
    <3>4. Spawned(u) => chat'[parent[u]] = chat[parent[u]]
      BY <1>4, <1>5, <3>1
    <3>. QED
      BY <3>1, <3>2, <3>3, <3>4
  <2>. QED
    BY <2>1, <2>2
<1>10. ParentAtWork'
  BY <1>1, <1>3, <1>4 DEF ParentAtWork, Spawned
<1>11. ParentReplied'
  <2>1. Report(s) \notin issued'
    BY <1>2, <1>3, <1>4, IdFacts DEF TaskWasSent
  <2>2. at[Report(s)] \notin InAgent
    BY <1>4 DEF InAgent
  <2>3. \A u \in Subagents : Report(u) \in issued' => Report(u) \in issued
    BY <1>2, IdFacts
  <2>. QED
    BY <1>1, <1>3, <2>1, <2>2, <2>3 DEF ParentReplied
<1>. QED
  BY <1>2, <1>6, <1>7, <1>8, <1>9, <1>10, <1>11

(* A subagent goes on, and announces its end last. *)
LEMMA SubagentStep ==
  ASSUME SubagentInv, NEW s \in Subagents, Subagent(s)
  PROVE  subTableStep /\ (TT!IInv' => SubagentInv')
<1> USE DEF SubagentInv
<1>1. /\ UNCHANGED <<chat, parent, replied>> /\ issued' = issued /\ recoveredIds' = recoveredIds /\ up' = up
      /\ TT!Known(tasks)' = TT!Known(tasks) /\ subTableStep
  <2>1. CASE SetDoing(s) \/ Finish(s) \/ SubagentFails(s)
    BY <2>1, SubUpdate, IdFacts DEF SetDoing, Finish, SubagentFails
  <2>2. CASE Launch(s) \/ RegistryFails(s) \/ Announce(s)
    BY <2>2, SubRest DEF Launch, RegistryFails, Announce, taskVars, TT!Known
  <2>. QED
    BY <2>1, <2>2 DEF Subagent
<1>2. /\ sub[s] \in AtWork
      /\ \E to \in {"starting", "running", "stuck", "reporting", "ended"} : sub' = [sub EXCEPT ![s] = to]
  BY DEF Subagent, SetDoing, Launch, RegistryFails, Finish, SubagentFails, Announce, Advance, AtWork, Spawning
<1>3. /\ \A u \in Subagents : u # s => sub'[u] = sub[u]
      /\ sub'[s] # "new" /\ Spawned(s)
      /\ sub' \in [Subagents -> SubagentStages]
  BY <1>2 DEF SubagentTypes, AtWork, Spawning, Spawned, SubagentStages
<1>4. at[Report(s)] = "new"
  BY <1>2 DEF AnnouncedLast, AtWork, Spawning
<1>5. up
  BY <1>2 DEF DownIsEmpty
<1>6. CASE at' = at
  <2>1. SubagentTypes'
    BY <1>1, <1>3, <1>6 DEF SubagentTypes
  <2>2. TaskWasSent'
    BY <1>1, <1>3, <1>6 DEF TaskWasSent, Spawned
  <2>3. DownIsEmpty' /\ HasTask'
    BY <1>1, <1>5, <1>6 DEF DownIsEmpty, HasTask, OnItsWay
  <2>4. AnnouncedLast'
    BY <1>1, <1>3, <1>4, <1>6 DEF AnnouncedLast, Spawned
  <2>5. ParentAtWork' /\ ParentReplied'
    BY <1>1, <1>2, <1>3, <1>6 DEF ParentAtWork, ParentReplied, Spawned
  <2>. QED
    BY <1>1, <2>1, <2>2, <2>3, <2>4, <2>5
<1>7. CASE Announce(s)
  <2>1. at' = [at EXCEPT ![Report(s)] = "lane"] /\ sub'[s] = "ended"
    BY <1>7 DEF Announce, Publish, Move, Advance, SubagentTypes
  <2>2. /\ \A n \in Messages : n # Report(s) => at'[n] = at[n]
        /\ at'[Report(s)] = "lane" /\ Report(s) \in Messages
    BY <2>1, IdFacts DEF SubagentTypes
  <2>3. Report(s) \notin issued /\ Report(s) \notin recoveredIds
    BY <1>4, IdFacts DEF TaskWasSent, TT!IInv, TT!TypeOK
  <2>4. SubagentTypes'
    BY <1>1, <1>3, <2>1 DEF SubagentTypes, MessageStages
  <2>5. TaskWasSent'
    BY <1>1, <1>3, <2>2, IdFacts DEF TaskWasSent, Spawned, TT!IInv, TT!TypeOK
  <2>6. DownIsEmpty' /\ HasTask'
    BY <1>1, <1>5, <2>2, <2>3 DEF DownIsEmpty, HasTask, OnItsWay, InAgent, TT!IInv, TT!TypeOK
  <2>7. AnnouncedLast'
    BY <1>1, <1>3, <2>1, <2>2, IdFacts DEF AnnouncedLast, Spawned
  <2>8. ParentReplied'
    BY <1>1, <2>2, <2>3, IdFacts DEF ParentReplied, InAgent
  <2>9. ParentAtWork'
    <3> SUFFICES ASSUME NEW u \in Subagents, (Spawned(u)' /\ sub'[u] \in AtWork) \/ at'[Report(u)] = "lane",
                        parent[u] \notin replied
                 PROVE  at'[parent[u]] = "thinking"
      BY <1>1 DEF ParentAtWork
    <3>1. Spawned(u) /\ at[parent[u]] = "thinking"
      <4>1. CASE u = s
        BY <1>2, <1>3, <4>1 DEF ParentAtWork
      <4>2. CASE u # s
        BY <1>3, <2>2, <4>2, IdFacts DEF ParentAtWork, AnnouncedLast, Spawned
      <4>. QED
        BY <4>1, <4>2
    <3>. QED
      BY <1>4, <2>2, <3>1 DEF AnnouncedLast
  <2>. QED
    BY <1>1, <2>4, <2>5, <2>6, <2>7, <2>8, <2>9
<1>. QED
  BY <1>6, <1>7 DEF Subagent, SetDoing, Launch, RegistryFails, Finish, SubagentFails

(* What runs between two awaits is one operation of the table at most, and keeps the invariant. *)
LEMMA SubagentSteps == SubagentInv /\ [SubagentsNext]_subagentsVars => subTableStep /\ SubagentInv'
<1> SUFFICES ASSUME SubagentInv, [SubagentsNext]_subagentsVars PROVE subTableStep /\ SubagentInv'
  OBVIOUS
<1>1. subTableStep /\ (TT!IInv' => SubagentInv')
  <2>1. CASE \/ Boot \/ Requeue \/ StopProcess
             \/ TM!HourPasses(recent) /\ UNCHANGED <<chat, parent, at, sub, lanes, replied, stops>>
    BY <2>1, StartStep, RequeueStep, StopStep
  <2>2. ASSUME NEW t \in Turns, Receive(t) PROVE subTableStep /\ (TT!IInv' => SubagentInv')
    BY <2>2, ReceiveStep
  <2>3. ASSUME NEW m \in Messages, Turn(m) PROVE subTableStep /\ (TT!IInv' => SubagentInv')
    BY <2>3, BeginStep, TurnStep DEF Turn
  <2>4. ASSUME NEW m \in Messages, NEW s \in Subagents, Spawn(m, s)
        PROVE  subTableStep /\ (TT!IInv' => SubagentInv')
    BY <2>4, SpawnStep
  <2>5. ASSUME NEW s \in Subagents, Subagent(s) PROVE subTableStep /\ (TT!IInv' => SubagentInv')
    BY <2>5, SubagentStep
  <2>6. CASE UNCHANGED subagentsVars
    <3>1. /\ UNCHANGED <<chat, parent, at, sub, replied>> /\ UNCHANGED taskVars
          /\ issued' = issued /\ recoveredIds' = recoveredIds /\ up' = up /\ tasks' = tasks
      BY <2>6 DEF subagentsVars, taskVars
    <3>2. subTableStep
      BY <3>1, SubRest DEF SubagentInv
    <3>. QED
      BY <3>1, <3>2 DEF SubagentInv, SubagentTypes, TaskWasSent, DownIsEmpty, HasTask, AnnouncedLast,
                        ParentAtWork, ParentReplied, Spawned, OnItsWay, TT!Known
  <2>. QED
    BY <2>1, <2>2, <2>3, <2>4, <2>5, <2>6 DEF SubagentsNext
<1>2. TT!IInv'
  BY <1>1, TT!StepIInv, IdsAssumption DEF SubagentInv, subTableStep
<1>. QED
  BY <1>1, <1>2

(* The invariant holds in every reachable state. *)
LEMMA SubagentInvariant == SubagentsSpec => []SubagentInv
  BY SubagentInit, SubagentSteps, PTL DEF SubagentsSpec

(***************************************************************************)
(* Turns, subagents, stops and starts use the task table by its operations *)
(* only (agent/subagent.py has no other way to it), so what is shown of    *)
(* TaskManager holds of the tasks of subagents.                            *)
(***************************************************************************)
THEOREM SubagentsUseTaskTable == SubagentsSpec => TT!Spec
<1>1. SubagentsInit => TT!Init
  BY TableNames DEF SubagentsInit
<1>2. SubagentInv /\ [SubagentsNext]_subagentsVars => [TT!Next]_(TT!vars)
  BY SubagentSteps DEF subTableStep
<1>. QED
  BY <1>1, <1>2, SubagentInvariant, PTL DEF SubagentsSpec, TT!Spec

(***************************************************************************)
(* An announcement is worked on when the turn that spawned has its reply   *)
(* on record, for any number of turns, subagents, chats and stops: the     *)
(* lane of a chat lets one message in, and what is lost with a stop had no *)
(* task (_run_subagent, CommandQueue, get_recovered_tasks).                *)
(***************************************************************************)
THEOREM AnnouncedAfterReply == SubagentsSpec => []AnnouncementFollowsReply
<1>1. SubagentInv => AnnouncementFollowsReply
  BY DEF SubagentInv, ParentReplied, AnnouncementFollowsReply
<1>. QED
  BY <1>1, SubagentInvariant, PTL
=============================================================================
