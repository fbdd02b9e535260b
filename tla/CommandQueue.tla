---------------------------- MODULE CommandQueue ----------------------------
(***************************************************************************)
(* The lane-based command queue of src/openbotx/bus/command_queue.py.      *)
(*                                                                         *)
(* Everything runs on one asyncio event loop, so a step of this            *)
(* specification is what the code does between two awaits: a call of       *)
(* enqueue_nowait, the first step of a _run task, a waiter of the          *)
(* semaphore resuming, the end of a command with its finally block and the *)
(* release of the semaphore, one side of drain.                            *)
(***************************************************************************)
EXTENDS Integers, Sequences, FiniteSets, SequencesExt

CONSTANTS
  Lanes,        \* the lane keys in use (a session key each)
  MaxCommands,  \* bound: commands enqueued in a behaviour
  MaxTotal,     \* max_total, the initial value of the global semaphore
  LaneLimits,   \* arguments set_lane_concurrency is called with
  Drainers      \* the concurrent callers of drain()

ASSUME ConstantsAssumption ==
  /\ MaxCommands \in Nat
  /\ MaxTotal \in Nat \ {0}
  /\ LaneLimits \subseteq Int
  /\ IsFiniteSet(LaneLimits)

Commands == 1 .. MaxCommands

VARIABLES
  lane,           \* lane[c]: the lane the c-th enqueued command asks for
  status,         \* status[c]: where the command's future and coroutine are
  queue,          \* _LaneState.queue of each lane
  active,         \* _LaneState.active of each lane
  maxConcurrent,  \* _LaneState.max_concurrent of each lane
  ready,          \* _run tasks the loop has not given their first step yet
  waiters,        \* asyncio.Semaphore._waiters, in order
  value,          \* asyncio.Semaphore._value
  draining,       \* callers suspended in drain()'s gather
  snapshot,       \* the tasks that gather was given
  cancelling      \* tasks a cancelled gather has asked to cancel

laneVars == <<queue, active, ready>>
semVars  == <<waiters, value>>
drainVars == <<draining, snapshot, cancelling>>
vars == <<lane, status, maxConcurrent, laneVars, semVars, drainVars>>

(***************************************************************************)
(* "queued": in its lane's deque.  The next four are a task in _tasks:     *)
(* "created" (not stepped yet), "waiting" and "granted" (suspended in      *)
(* acquire, its waiter future pending or done), "running" (its coroutine   *)
(* has the permit).  "done": result or exception set.  "cancelled": the    *)
(* coroutine was cancelled while it ran.  "lost": the task was cancelled   *)
(* before it had the permit, so the finally block never ran.               *)
(***************************************************************************)
TaskStatuses == {"created", "waiting", "granted", "running"}
Ended == {"done", "cancelled", "lost"}
Statuses == {"new", "queued"} \cup TaskStatuses \cup Ended

In(s) == {c \in Commands : status[c] \in s}
OfLane(l) == {c \in Commands : lane[c] = l}

(* self._tasks *)
Tasks == In(TaskStatuses)

Init ==
  /\ lane \in [Commands -> Lanes]
  /\ status = [c \in Commands |-> "new"]
  /\ queue = [l \in Lanes |-> <<>>]
  /\ active = [l \in Lanes |-> 0]
  /\ maxConcurrent = [l \in Lanes |-> 1]
  /\ ready = <<>>
  /\ waiters = <<>>
  /\ value = MaxTotal
  /\ draining = {}
  /\ snapshot = [d \in Drainers |-> {}]
  /\ cancelling = {}

-----------------------------------------------------------------------------
(* Helpers *)

(* The members of S get the new status st, the others keep theirs. *)
Mark(f, S, st) == [c \in Commands |-> IF c \in S THEN st ELSE f[c]]

(* How many commands the loop of _pump starts: while queue and active < max. *)
StartCount(q, a, limit) ==
  IF a >= limit THEN 0
  ELSE IF Len(q) <= limit - a THEN Len(q) ELSE limit - a

(***************************************************************************)
(* _pump(l) with q and a the lane's deque and counter when it is called:   *)
(* a slot is taken and a task created for each command popped.             *)
(***************************************************************************)
Started(l, q, a) == SubSeq(q, 1, StartCount(q, a, maxConcurrent[l]))

Pump(l, q, a) ==
  LET n == StartCount(q, a, maxConcurrent[l])
  IN  /\ queue' = [queue EXCEPT ![l] = SubSeq(q, n + 1, Len(q))]
      /\ active' = [active EXCEPT ![l] = a + n]
      /\ ready' = ready \o SubSeq(q, 1, n)

(* Not the code: a release that leaves the waiters asleep. *)
NoneWoken(w, v) == {}

(***************************************************************************)
(* Semaphore._wake_up_next: the first waiter of w whose future is pending, *)
(* if v permits allow it; the set has at most one member.                  *)
(***************************************************************************)
Woken(w, v) ==
  {w[i] : i \in {j \in DOMAIN w :
      /\ v > 0
      /\ status[w[j]] = "waiting"
      /\ \A h \in 1 .. j-1 : status[w[h]] # "waiting"}}

(* Semaphore.locked() *)
Locked == value = 0 \/ waiters # <<>>

-----------------------------------------------------------------------------
(* The operations *)

(* Not the code: the newest command first. *)
PushedInFront(q, c) == <<c>> \o q

(* lane.queue.append *)
Pushed(q, c) == Append(q, c)

(* enqueue and enqueue_nowait: append to the lane's deque, then pump the lane. *)
Enqueue(c) ==
  LET l == lane[c]
      q == Pushed(queue[l], c)
  IN  /\ status[c] = "new"
      /\ \A b \in 1 .. c-1 : status[b] # "new"
      /\ Pump(l, q, active[l])
      /\ status' = Mark([status EXCEPT ![c] = "queued"],
                        ToSet(Started(l, q, active[l])), "created")
      /\ UNCHANGED <<lane, maxConcurrent, semVars, drainVars>>

(* Not the code: the argument taken as it is. *)
UncheckedLimit(n) == n

(* max(1, n) *)
LaneLimit(n) == IF n < 1 THEN 1 ELSE n

(* set_lane_concurrency: the new limit is used by the next pump, it pumps nothing itself. *)
SetLaneConcurrency(l, n) ==
  /\ maxConcurrent' = [maxConcurrent EXCEPT ![l] = LaneLimit(n)]
  /\ UNCHANGED <<lane, status, laneVars, semVars, drainVars>>

(* Semaphore.acquire, up to its first suspension. *)
Acquire(c) ==
  IF Locked
  THEN /\ waiters' = Append(waiters, c)
       /\ status' = [status EXCEPT ![c] = "waiting"]
       /\ UNCHANGED value
  ELSE /\ value' = value - 1
       /\ status' = [status EXCEPT ![c] = "running"]
       /\ UNCHANGED waiters

(* The loop gives the oldest new _run task its first step. *)
FirstStep(c) ==
  /\ ready # <<>>
  /\ c = Head(ready)
  /\ status[c] = "created"
  /\ c \notin cancelling
  /\ ready' = Tail(ready)
  /\ Acquire(c)
  /\ UNCHANGED <<lane, maxConcurrent, queue, active, drainVars>>

(* A woken waiter resumes in acquire, wakes the next if a permit is left, and runs. *)
Resume(c) ==
  LET woken == Woken(Tail(waiters), value)
  IN  /\ waiters # <<>>
      /\ c = Head(waiters)
      /\ status[c] = "granted"
      /\ c \notin cancelling
      /\ waiters' = Tail(waiters)
      /\ value' = value - Cardinality(woken)
      /\ status' = Mark([status EXCEPT ![c] = "running"], woken, "granted")
      /\ UNCHANGED <<lane, maxConcurrent, laneVars, drainVars>>

(* Not the code: the lane is pumped without the slot being given back. *)
ActiveAsBefore(l) == active[l]

(* lane.active -= 1, before the lane is pumped. *)
ActiveAtPump(l) == active[l] - 1

(* The finally block of _run: the slot is given back, then the lane is pumped. *)
Finally(l) == Pump(l, queue[l], ActiveAtPump(l))

(* Not the code: acquire and release without async with. *)
KeepsPermitIfCancelled(c) == IF c \in cancelling THEN 0 ELSE 1

(* async with gives its permit back however its body ended. *)
PermitsReturned(c) == 1

(***************************************************************************)
(* The command's coroutine returns, raises, or is cancelled where it is    *)
(* suspended; the finally block and the release of the permit follow in    *)
(* the same step, and the release wakes the first pending waiter.          *)
(***************************************************************************)
Finish(c) ==
  LET l == lane[c]
      v == value + PermitsReturned(c)
      woken == Woken(waiters, v)
      over == IF c \in cancelling THEN "cancelled" ELSE "done"
      started == ToSet(Started(l, queue[l], ActiveAtPump(l)))
  IN  /\ status[c] = "running"
      /\ Finally(l)
      /\ status' = Mark(Mark([status EXCEPT ![c] = over], started, "created"),
                        woken, "granted")
      /\ value' = v - Cardinality(woken)
      /\ cancelling' = cancelling \ {c}
      /\ UNCHANGED <<lane, maxConcurrent, waiters, draining, snapshot>>

(***************************************************************************)
(* CancelledError reaches a task that has not got into the async with      *)
(* body: acquire gives back a permit it was granted and wakes the next, and  *)
(* the lane's slot stays taken, since the finally block is in the body.    *)
(* (A pending waiter future is cancelled with the request already; being   *)
(* woken between the request and this step only passes a permit through.)  *)
(***************************************************************************)
Abandon(c) ==
  LET rest == RemoveFirst(waiters, c)
      granted == status[c] = "granted"
      v == IF granted THEN value + 1 ELSE value
      woken == IF granted THEN Woken(rest, v) ELSE {}
  IN  /\ c \in cancelling
      /\ status[c] \in {"created", "waiting", "granted"}
      /\ ready' = RemoveFirst(ready, c)
      /\ waiters' = rest
      /\ value' = v - Cardinality(woken)
      /\ status' = Mark([status EXCEPT ![c] = "lost"], woken, "granted")
      /\ cancelling' = cancelling \ {c}
      /\ UNCHANGED <<lane, maxConcurrent, queue, active, draining, snapshot>>

(* drain(): gather the tasks there are now, if there are any. *)
DrainStart(d) ==
  /\ d \notin draining
  /\ Tasks # {}
  /\ draining' = draining \cup {d}
  /\ snapshot' = [snapshot EXCEPT ![d] = Tasks]
  /\ UNCHANGED <<lane, status, maxConcurrent, laneVars, semVars, cancelling>>

(* gather returns when every task it was given has ended, cancelled or not. *)
DrainReturn(d) ==
  /\ d \in draining
  /\ snapshot[d] \cap Tasks = {}
  /\ draining' = draining \ {d}
  /\ snapshot' = [snapshot EXCEPT ![d] = {}]
  /\ UNCHANGED <<lane, status, maxConcurrent, laneVars, semVars, cancelling>>

(* The drainer's own task is cancelled: gather asks each of its tasks to cancel. *)
DrainCancel(d) ==
  /\ d \in draining
  /\ cancelling' = cancelling \cup (snapshot[d] \cap Tasks)
  /\ cancelling' # cancelling
  /\ UNCHANGED <<lane, status, maxConcurrent, laneVars, semVars, draining, snapshot>>

Next ==
  \/ \E c \in Commands : Enqueue(c) \/ FirstStep(c) \/ Resume(c) \/ Finish(c) \/ Abandon(c)
  \/ \E l \in Lanes, n \in LaneLimits : SetLaneConcurrency(l, n)
  \/ \E d \in Drainers : DrainStart(d) \/ DrainReturn(d) \/ DrainCancel(d)

Spec == Init /\ [][Next]_vars

(***************************************************************************)
(* The event loop runs every ready callback, so a new task is stepped, a   *)
(* woken waiter resumes, a cancelled task unwinds and a finished gather    *)
(* returns.  That a running command ends is assumed of its coroutine.      *)
(* Nothing is assumed of the callers: nobody has to enqueue or drain.      *)
(***************************************************************************)
Fairness ==
  /\ \A c \in Commands : WF_vars(FirstStep(c)) /\ WF_vars(Resume(c))
  /\ \A c \in Commands : WF_vars(Finish(c)) /\ WF_vars(Abandon(c))
  /\ \A d \in Drainers : WF_vars(DrainReturn(d))

FairSpec == Spec /\ Fairness

-----------------------------------------------------------------------------
(* Properties *)

LiveIn(l) == Tasks \cap OfLane(l)
LostIn(l) == In({"lost"}) \cap OfLane(l)

(* Every variable holds a value of its kind; a lane's limit is at least one. *)
TypeOK ==
  /\ lane \in [Commands -> Lanes]
  /\ status \in [Commands -> Statuses]
  /\ queue \in [Lanes -> Seq(Commands)]
  /\ active \in [Lanes -> Nat]
  /\ maxConcurrent \in [Lanes -> Nat \ {0}]
  /\ ready \in Seq(Commands)
  /\ waiters \in Seq(Commands)
  /\ value \in Int
  /\ draining \subseteq Drainers
  /\ snapshot \in [Drainers -> SUBSET Commands]
  /\ cancelling \subseteq Tasks

(***************************************************************************)
(* The slots a lane counts as active are the tasks it has, whether they    *)
(* run or wait for the semaphore, and those it lost to a cancellation      *)
(* before the async with body; no path of _run gives a slot back twice or  *)
(* forgets one.                                                            *)
(***************************************************************************)
SlotAccounting ==
  \A l \in Lanes : active[l] = Cardinality(LiveIn(l)) + Cardinality(LostIn(l))

(***************************************************************************)
(* Nothing is stranded: while commands sit in a lane's deque, some task of *)
(* the lane is still to finish and to pump it, unless the lane lost a slot *)
(* to a cancellation.  No other code path ever looks at the deque again.   *)
(***************************************************************************)
NoStrandedLane ==
  \A l \in Lanes : queue[l] # <<>> => LiveIn(l) # {} \/ LostIn(l) # {}

(***************************************************************************)
(* The global cap: the permits the semaphore has left, never fewer than    *)
(* none, and those that tasks hold make MaxTotal, whatever mix of          *)
(* finishing, waking and cancelling went before.                           *)
(***************************************************************************)
PermitAccounting ==
  /\ value >= 0
  /\ value + Cardinality(In({"granted", "running"})) = MaxTotal

(***************************************************************************)
(* The abstract scheduler: FIFO order in a lane, the cap of a lane (the    *)
(* largest limit it can be given) and the global cap, no command begun     *)
(* twice or ended before it began.                                         *)
(***************************************************************************)
LaneCap == Max({1} \cup LaneLimits)

PhaseOf(st) ==
  CASE st = "new" -> "new"
    [] st \in {"queued", "created", "waiting", "granted"} -> "pending"
    [] st = "running" -> "running"
    [] st \in Ended -> "over"

Promise == INSTANCE LaneScheduler WITH phase <- [c \in Commands |-> PhaseOf(status[c])]

KeepsPromise == Promise!Spec

(***************************************************************************)
(* Every command ends that was enqueued, the one that finds a free slot    *)
(* and is a task at once as well as the one that waits in its lane, and    *)
(* both although they may wait at the semaphore next: no pump and no       *)
(* wake-up gets lost, unless its lane loses a slot to a cancelled drain.   *)
(* (There are MaxCommands at most, and an ended one stays so: that each    *)
(* ends is that from some state on none is under way.)                     *)
(***************************************************************************)
EveryCommandEnds ==
  <>[](\A c \in Commands : status[c] \in Ended \cup {"new"} \/ LostIn(lane[c]) # {})
=============================================================================
