# OpenBotX: specifications in TLA+

OpenBotX is an asyncio server: messages come in over HTTP, Telegram, cron and a
heartbeat, wait on an in-memory bus, are dispatched to per-session lanes and
answered by an agent loop that calls a language model and tools; tasks and
sessions are JSONL files. Everything runs on one event loop, so what is hard is
not data races but *awaits*: state read before one and used after it, tasks
cancelled at one, and the process stopped between two.

In every module **a step is what the code runs between two awaits that really
suspend.** Putting on an unbounded `asyncio.Queue` and taking an uncontended
`asyncio.Lock` do not suspend; a broadcast to web sockets, a call of the model
and `asyncio.gather` do.

Paths below are relative to `src/openbotx/`.

## Inventory

| component | state | operations | hard behaviour | what makes it correct | module |
|---|---|---|---|---|---|
| Command queue `bus/command_queue.py` | lanes (deque, active, limit), semaphore, `_tasks` | enqueue, pump, run, set limit, drain | interleaving with the semaphore's waiters, cancellation while waiting, drain's snapshot | FIFO per lane, caps per lane and in all, slots and permits accounted for, no stranded lane | `CommandQueue` |
| Orchestrator `agent/orchestrator.py` | stop event, command queue | run, stop, route | a message taken or routed while stop runs, cancellation in drain | what was active is finished; the shutdown ends | `Orchestrator` |
| Task table `tasks/` | tasks, recovered ids, `tasks.jsonl` | create, update, load, hand over recovered | stop between operations and inside the rewrite, recovery, the one-hour cutoff | file follows table, parents with their subagents, nothing in progress without a worker, ended stays ended | `TaskManager` |
| Message pipeline `server/app.py`, `server/routes/chat.py`, `bus/queue.py`, `agent/loop.py` | the places a message can be in | send, publish, take, dispatch, process, reply, deliver, re-queue | stops at every suspension, two files written at different moments | what waits is attended, the files agree on what is done, what was accepted ends | `MessagePipeline` |
| Sessions `session/manager.py` | cache of objects, files | get or create, add, save, clear, delete | the agent holds an object over many awaits while HTTP changes, deletes or reloads it; a stop inside a rewrite | one conversation for cache and file, the record only grows | `Conversation` |
| Memory consolidation `agent/memory.py`, `agent/loop.py` | `last_consolidated`, MEMORY.md, HISTORY.md | check, summarise, mark | messages added while the model summarises | no gap, nothing counted that was not summarised | `Conversation` (the cursor) |
| Agent loop iterations `agent/loop.py`, context window, compaction `agent/context_window.py`, `agent/compaction.py` | transcript, repeated-call counts | trim, compact, model call, tool calls, limits | boundaries between calls and results, limits that hide one another | a transcript the provider accepts, a bound on repeated calls | `AgentTurn` |
| Classifier `agent/classifier.py` | none | one model call, default on failure | suspends the orchestrator's loop | the default agent is always there | — |
| Subagents `agent/subagent.py` | asyncio tasks, their task records | spawn, run, announce | quicker than the turn that spawned it, failure outside the try, stops around create, DOING, DONE and the announcement | its task ends, its end is reported after the reply of its turn | `Subagents` |
| Cron `cron/service.py` | jobs, `next_run_ms`, file | add, remove, tick, stop | jobs changed while a tick awaits, publish before persist, failing callbacks, a file cut short | a due job is called, and only as scheduled; the file keeps the jobs | `Cron` |
| Heartbeat `heartbeat/service.py` | the loop's task | start, stop, beat | — | — | — |
| Channels `channels/` | channel objects, their tasks | start, stop, dispatch outbound, send in parts | start and stop from the settings page while sending, parts that fail or arrive twice | no poller left behind, messages in order, each mirrored to the browsers | `Channels` |
| Events, web socket `bus/dispatcher.py`, `server/websocket.py` | set of sockets | connect, disconnect, broadcast | events lost with a connection | what is lost is made up for | `LiveView` (one browser) |
| Chrome client `cdp/connection.py`, `cdp/browser.py` | pending commands, sessions, reader task | execute, attach, close | late answers, cancelled futures, close with commands waiting, one id counter per session | an answer reaches its command | `CdpConnection` |
| Browser tool `tools/browser.py` | shared Chrome, tabs, locks | open, act, time out, retry, clean up | a launch that takes seconds, a tab lost under another chat, a Chrome that dies | one launch at a time, every call ends | `BrowserTool` |
| Providers `providers/` | none | chat, retry, classify errors, validate transcript | attempts and delays, errors mapped to the wrong class | a transcript with matched results | `AgentTurn` (validation) |
| Storage, other tools, routes, configuration, CLI | files, network | reads and writes | — | — | — |
| Web client `src/web_client/src/stores` | messages, live messages, load tokens | send, load history, merge live events, change sessions, reconnect | a history that lands after newer events or after a change of sessions | the view is of its session, misses nothing, shows no agent at work that has ended | `LiveView` |

How they interact: HTTP routes call `TaskManager` and `SessionManager` directly
and publish on the `MessageBus`; the orchestrator consumes the inbound queue and
enqueues `AgentLoop.process_message` on the `CommandQueue`; the agent loop
updates task and session, publishes on the outbound queue that
`ChannelManager` consumes; every state change is broadcast through the
`EventDispatcher`. At startup `TaskManager._load` decides which tasks were
interrupted, and the lifespan publishes them again. At shutdown the lifespan
stops heartbeat, orchestrator, cron and channels in this order.

## Modules

| module | models | composed with |
|---|---|---|
| `LaneScheduler` | abstract: what the queue promises (submit, begin, end, drop) | — |
| `CommandQueue` | `bus/command_queue.py`, with `asyncio.Semaphore` and `gather` as external | implements `LaneScheduler` |
| `TaskManager` | `tasks/manager.py`, `tasks/models.py` | |
| `MessagePipeline` | the way of a message, over restarts | `TaskManager` (INSTANCE) |
| `Orchestrator` | `agent/orchestrator.py` and the shutdown in `server/app.py` | `CommandQueue` (INSTANCE) |
| `Conversation` | `session/manager.py` and its users | |
| `AgentTurn` | the loop of `agent/loop.py` with trimming, compaction and validation | |
| `Subagents` | `agent/subagent.py` and the turns around it | `TaskManager` (INSTANCE) |
| `CdpConnection` | `cdp/connection.py`, and the launch in `cdp/browser.py` | |
| `BrowserTool` | `tools/browser.py` | extends `CdpConnection`, implements its specification |
| `Cron` | `cron/service.py` | |
| `Channels` | `channels/manager.py`, `channels/telegram.py` | |
| `LiveView` | the stores of the web client, and what of the server feeds them | |
| `CommandQueueProofs`, `TaskManagerProofs`, `MessagePipelineProofs`, `BrowserToolProofs`, `LiveViewProofs` | theorems | each extends its module; `MessagePipelineProofs` uses `TaskManagerProofs` |
| `AgentsProofs` | theorems about `Orchestrator` and `Subagents` | uses `CommandQueueProofs` and `TaskManagerProofs` |
| `ConversationProofs` | theorems about `Conversation` and `AgentTurn` | |
| `ServicesProofs` | theorems about `Cron` and `Channels` | |
| `MC...` | instances for TLC | |

**CommandQueue.** `status[c]` says where a command is: in its lane's deque
(`queued`), a task that has not been stepped (`created`), suspended in
`acquire` (`waiting`, or `granted` once woken), in the body of `async with`
(`running`), ended (`done`, `cancelled`) or `lost`: cancelled before the body, so
that the `finally` that gives the slot back never ran. `Enqueue`, `FirstStep`,
`Resume`, `Finish`, `Abandon`, `DrainStart`, `DrainReturn`, `DrainCancel` and
`SetLaneConcurrency` are the code's steps; `Finish` includes the `finally` block
with its pump and the release of the semaphore, which all run without an await.
The semaphore is the one of CPython 3.12: `locked()` if there are waiters,
direct hand-over to the first one, a woken waiter that wakes the next.

**TaskManager.** The table is a sequence (a dict keeps insertion order); a task
keeps its id, kind, parent and state. `created_at` becomes the set `recent` of
tasks less than an hour old, from which `HourPasses` takes tasks. `_persist`
truncates and rewrites, so besides a stop between operations (`Crash`) there is
one inside each rewrite (`CrashCreating`, `CrashUpdating`, `CrashLoading`) that
leaves a prefix; a broken last line ends `_load`'s reading, as the prefix does.
Titles, results, counters and timestamps have no bearing on control and are left
out. Any state may follow any other, as `PATCH /tasks/{id}` allows.

**MessagePipeline.** `at[m]` is where a message is; the task table is the one of
`TaskManager`. The lanes are taken in order, one message at a time per chat and
`MaxTotal` in all, which is what `CommandQueue` is shown to provide. The model
call is one suspension that ends in a reply or an exception. Messages are
ordinary ones (`/new` is in `Conversation`, `/help` in `LiveView`); nobody edits
tasks by hand; a save is one step.

**Orchestrator.** `run()` and the lifespan's shutdown sequence over the full
`CommandQueue`. Before its dispatch a message is only counted. Routing is a
suspension (the classifier's model call).

**Conversation.** Sessions are Python objects: `cached` and `held` (by the agent)
name objects in `object`, and differ once the session was deleted under the
agent. `Save` writes the object's content to the file and puts it back in the
cache. Messages come over HTTP (saved before they are published) or a channel
(saved by the agent), and may be `/new`. A stop inside a save (`StopSaving`) finds
the file with its first messages only, or with a broken line, of which `_load`
makes an empty session; a stop anywhere else is `Stop`. After a stop this module
does not re-queue anything: `MessagePipeline` does. `MaxMessages` is the cap of
`get_history`, 500 for all its callers.

**AgentTurn.** A message of the transcript is its role, the turn it is of, how many
calls it makes or which call it answers: what `trim_history`, the cut of
`compact_messages` and `_validate_transcript` look at. What the model answers,
whether the transcript is too long for it (the token estimate, an overflow error)
and whether a summary succeeds are free choices. A signature stands for the hash of
a set of tool calls. The loop of a subagent is the same without the two limits on
repeated calls.

**CdpConnection, BrowserTool.** A command is its session, its id there, who waits for
it and its kind; the reader finds the session first and then the id, as
`CDPSession._handle_cmd_response` does. Chrome is external: it answers in any
order or never, with a result or an error, drops a tab, dies; it tags an answer with
its session and never answers for a session that it dropped. `BrowserTool` extends
that with the callers: both locks (held by who is at a place inside them), the
launch, the tab, an action as a number of commands, the timeout and its one retry,
and the cleanup at the shutdown. Agents are cleaned in a fixed order; the
`_ChromeInstance`s before and after a cleanup share the model's one lock; an
unreachable Chrome is taken as dead when a launch fails; `drain()` awaits the
requests there were. `MaxFaults` counts deaths, dropped tabs and errors together.

**Cron.** The list of jobs is a function from ids, a tick takes them in any order, and
the file is what `_load` would find. A stop may cut the file short, of which `_load`
finds no job. The callback may suspend or fail, after it has published; the one the
server installs does neither. Times are integers: the interval of a job can be zero
(`POST /jobs` without a schedule) or negative (`tools/cron.py:100` looks at
`every_seconds` for its truth only), and such a job is always due. `TimePasses` goes
on to `MaxClock`.

**Subagents.** Turns are those of `MessagePipeline` with the way from bus to lane as
one step; spawn, its two suspensions, the run, DONE, the announcement and the turn
it begins are steps of their own, and the server may stop at each. Stops do not hit
a rewrite of the task file here (`TaskManager` has them). `HourPasses` ages all
tasks at once.

**Channels.** Each start makes a `TelegramChannel` of its own (`Objects`), known by the
request that made it; `phase` says whether it is starting, up, stopping or down.
The dispatcher sends a message's image, or a note in its place, and its parts, each
as HTML and then as plain text; a send succeeds, raises, or raises and has arrived.
There is one channel, a stop does not raise, and requests are over before the
server stops (uvicorn waits for them).

**LiveView.** One browser: what it shows (`view`, `shown`), the live messages it keeps
per session (`cache`), loads on their way with their token. Events come in order
and may be lost with the connection; a response is computed and lands at any time.
All that an agent shows while it works is one event, a "tool", which is broadcast
(`UseTool`) before it is noted in `live_state` (`NoteTool`). A question may be
`/help`, whose reply is on no record. A history is the last `MaxMessages` messages of
the record (500). The store compares chat ids where the model compares sessions: the
chat ids of two sessions differ. A POST fails only before it reaches the server; a
connection is accepted and registered in one step. Media, transcriptions, deletion
and `/new` are left out.

In each module the operators marked *Not the code* are variations of a
definition, each a plausible mistake; the properties are checked to fail with
them. They are used nowhere else.

## Runs

| run | instance | states (distinct) | shows |
|---|---|---|---|
| CommandQueue | 4 commands, 2 lanes, 2 permits, limits 0 and 2, 1 drainer | 220 112 | accounting, no stranded lane, refinement of `LaneScheduler`, liveness |
| TaskManager | 3 ids | 140 108 (symmetric) | table, file and recovery |
| MessagePipeline | 2 messages, 2 chats, 1 permit, 2 stops | 202 250 | recovery end to end |
| Orchestrator | 4 messages, 2 lanes, 2 permits | 46 084 | shutdown |
| Conversation | 3 messages, window 2, a history of 3, 1 deletion, 1 stop | 1 449 847 | sessions and memory |
| AgentTurn | 6 iterations, 3 signatures of 1 to 3 calls, window 1, breaker 3, history 5, past 2 | 2 735 | transcripts and limits |
| Subagents | 1 turn, 2 subagents, 2 chats, 2 stops | 53 920 | subagents and their announcements over restarts |
| BrowserTool | 2 requests, 2 tools, 2 sessions, 1 command per action, 1 fault | 432 489 | connection, locks, timeouts, shutdown |
| Cron | 2 jobs, 5 schedules, clock to 4, 2 stops, 1 failure | 542 972 | ticks, changes during them, restarts |
| Channels | 2 requests, 2 messages, 2 parts | 406 521 | starts, stops and sends |
| LiveView | 2 turns, one maybe /help, 2 sessions opened, 2 loads, a history of 2, 1 lost connection | 3 263 120 | what a browser shows |
| QuestionNotRepeated | as Conversation, no deletion and no stop | violation | where the code differs from what its comment says |

Why the bounds are enough. *CommandQueue*: four commands and two permits let a
command wait in its deque and then at the semaphore, behind one of the other lane,
and be woken some steps before it resumes; a limit of two lets one pump start two
commands, 0 exercises the lower bound; one drainer is enough to cancel.
*TaskManager*: with three tasks a subagent's parent need not be the oldest, and a
prefix can cut in the middle. *MessagePipeline*: two messages compete for a
chat, for the permit and for the order of recovery; two stops are the smallest
number that can hit a recovery. *Orchestrator*: of four messages one is active,
one queued behind it, one on the bus when the stop comes and one comes later.
*Conversation*: three messages let one be overtaken, one be `/new` and one come
during a consolidation; a history of three is shorter than the record; one deletion
is enough to split the objects, one stop to cut the file. *AgentTurn*: six iterations repeat a set of calls up to the breaker with
others in between; the program's window of ten and count of ten become one and
three; a history of five cuts inside results. *Subagents*: of two subagents one can
be spawned by the turn the other became; two stops can hit a recovery.
*BrowserTool*: two requests share a tab or compete for Chrome; one death, dropped
tab or error at any place; two sessions let a tab be opened again. *Cron*: a job is
added or removed while the other is called; four readings of the clock let an
interval and a cron expression run twice, and the five schedules have intervals of
one, zero and less. *Channels*: two requests overlap, a message
in two parts with an image can be cut between any two sends. *LiveView*: two turns
of one session or two, one load overtaking another or an event; the browser opens a
second session, where the other turn is or that it begins (`MCOpened`); a history
of two messages cuts off a question or a whole turn.

Bounds that are not the program's: `MaxCommands`, `MaxCrashes`, `MaxDeletes`,
`MaxStops`, `MaxSessions`, `Steps`, `MaxFaults`, `MaxClock`, `MaxFails`, `MaxParts`,
`MaxPast`, `MaxLoads`, `MaxDrops`, `MCOpened`, and the numbers of messages, turns, calls,
subagents, jobs and requests. `Window`, `BreakAt`, `MaxIterations`, `MaxHistory`,
`MaxMessages` and `MemoryWindow` are the program's, with small values.

Deadlock is checked in CommandQueue and TaskManager. All other modules really stop:
the messages are handled, the turn or the server has ended, the bounds are used up.

### The properties

* `SlotAccounting`, `PermitAccounting`: a lane's `active` is its live tasks plus
  the slots lost to cancellations; free and held permits make `max_total`.
* `NoStrandedLane`: commands in a deque have a task left to pump them, unless the
  lane lost a slot.
* `KeepsPromise`: the queue implements `LaneScheduler` (FIFO, caps, once).
* `EveryCommandEnds`: each command that was enqueued ends, whether it found a free
  slot or waited in its lane, with the fairness below; a command that waits at the
  semaphore is woken.
* `ParentFirst`, `FileIsCurrent`, `DoingIsBegun`, `EndedStaysEnded`: the task table over
  stops, also inside a rewrite.
* `Attended`: a waiting task has its message on the way or is past the cutoff, a
  task in progress has an agent at work, or its image could not be read.
* `OnRecord`, `AnswerFollowsQuestion`: what is DONE in the task file, and what is
  sent, is in the session's file, behind its question, whatever was redone.
* `EachEnds`: what reached the bus ends, with three named exceptions.
* `ActiveAtStopAreDone`, `OneLateMessage`, `ShutdownEnds`: a graceful stop.
* `CacheIsDisk`, `RecordGrows`, `NothingSkipped`, `ContextComplete`: one conversation for
  cache, file, model and memory; of a record longer than the cap of `get_history`
  the model has what is within it.
* `TranscriptWellFormed`: every result behind its call, every call with its results.
  `ToolsNotRepeated`: the two limits on repeated calls.
* `AnnouncementFollowsReply`, `SubagentEnds`, `DoneIsAnswered`: a subagent's end is
  told in its conversation after the turn that spawned it, and answered.
* `AnswersMatch`: a future is given the answer to its own command.
  `ConnectsOnlyWhenDown`: one launch at a time. `EndsUnlessWedged`: a call ends,
  but for one state that the property names.
* `JobsKept`: the scheduler's file has its jobs. `CallsAsScheduled`: a job is called
  while it is scheduled and due, and not again before its schedule says so. `DueRuns`:
  what is due is called.
* `NoOrphan`, `InOrder`, `EachIsMirrored`: channels and what goes through them.
* `ViewIsOfSession`, `NothingMissing`, `LiveEnds`: a browser shows its session and no
  other, all its questions and replies but the exceptions below, and no agent at work
  that has ended.

The type invariants of CommandQueue, TaskManager, BrowserTool and Cron are needed by
the proofs and proved there; the first three are checked by their runs too.

### Where the code and its documentation differ

`QuestionNotRepeated` is violated: `process_message` drops the last entry of the
history as the current message, but a message of the chat that POST /chat saved
meanwhile may be the last one; the model is then given the current message twice.

Known departures that the properties name as their exceptions, so that they say
what holds besides:

* A subagent's task that is TODO at a stop is re-queued like a user's message
  (`tasks/manager.py:73`; `docs/flow.md:1679`: they are set to ERROR). `SubagentEnds`
  has it end that way.
* A recovered message has no `message_saved`: its question is saved again
  (`server/app.py:305`). `AnswerFollowsQuestion` allows more than one.
* An image that cannot be read fails before the `try` of `process_message`, the task
  stays DOING (`agent/loop.py:177`). `Attended`, `EachEnds`.
* `drain` waits for the tasks there were when it was called (`docs/concurrency.md:102`:
  all active tasks). `ActiveAtStopAreDone`, `OneLateMessage`.
* A subagent's announcement is in memory only between its DONE and the task of the
  turn it begins (`tools/spawn.py:25`: "report back when done"). `DoneIsAnswered`.
* A registry that cannot be built leaves a subagent in DOING (`agent/subagent.py:89`).
  `SubagentEnds`.
* A stop inside a rewrite cuts a session's file, and the next save writes over it; its
  count of consolidated messages may be larger than what is left. `RecordGrows`,
  `NothingSkipped`.
* A stop inside a rewrite of `cron_jobs.json` leaves no job (`docs/flow.md:1900`: they
  survive restarts). `JobsKept`.
* A cron callback that raised after it had published is called again at the next tick
  (`cron/service.py:237`), an "at" job too; so is a job whose run a stop did not let the
  tick write down. `CallsAsScheduled`.
* `get_history` ends at the last 500 messages (`session/manager.py:35`;
  `docs/flow.md:1567` says so): of a longer session neither the model nor a browser that
  loads it has the rest. `ContextComplete`, `NothingMissing`.
* The reply to `/help` is on no record (`agent/loop.py:151`): lost with the connection it
  never comes back, and a load takes it out of the view. `NothingMissing`.
* Two starts of a channel that overlap leave one polling that no stop reaches
  (`channels/manager.py:96`). `NoOrphan`.
* When the reader of the CDP connection ends, a command of the root session is not
  failed, and `open_tab` has no timeout: its holder keeps Chrome's lock
  (`cdp/connection.py:311`). `EndsUnlessWedged`.
* A history that is computed before an event and lands after it replaces what the
  event has shown; one that fails, or lands in a new session, leaves the view of
  another session (`stores/chat.js:234`). `NothingMissing`, `LiveEnds`,
  `ViewIsOfSession`.

Others that no property speaks of: a reply loaded with a history before its event
comes is shown twice, since history entries carry no `task_id`; a question asked in
the browser in a Telegram session is shown twice; a question of a channel is not
shown when its event is lost before it is saved; a channel restart whose start
raises sends no `channel:status`; `/new` also clears what was sent after it; a
`memory_save` that returned an error still moves the cursor (`agent/loop.py:612`); a
late request launches Chrome again after the cleanup (`docs/flow.md:1203`), and chats
of one agent share a tab, which one of them may drop (`docs/concurrency.md:101`); an
assistant message with tool calls may follow one without (`docs/flow.md:834`);
with a window of ten signatures, ten executions of one of them need more than the 40
iterations there are; trimming may drop the question itself.

## Fairness

* CommandQueue: weak fairness of each step the event loop takes by itself
  (`FirstStep`, `Resume`, `Abandon`, `DrainReturn`), since asyncio runs every
  ready callback; and of `Finish`, which assumes that a command's coroutine ends.
  Nothing is assumed of callers.
* MessagePipeline: weak fairness of the event loop's steps, of the model call
  ending in a reply *or* an error (providers have timeouts), and of `Boot`:
  `docker-compose.yml` has `restart: unless-stopped`. Neither sending, stopping
  nor the passing of an hour is fair.
* Orchestrator: weak fairness of `run`'s steps (its wait has a timeout), of the
  queue's work and of each step of the shutdown once begun. `Stop` and `Arrive`
  are not fair.
* Subagents: as MessagePipeline, for each turn and each subagent.
* BrowserTool: weak fairness of each request's steps, among them the timer of
  `asyncio.wait_for`, of the reader seeing the end of the stream, of `Killed`
  (`ChromeLauncher.kill` waits three seconds, then kills), and of a living Chrome
  answering the browser-level commands of `open_tab`. No page is taken to answer.
* Cron: weak fairness of the tick's steps, of a callback's return and of `Boot`. A
  callback that never returned would hold up the loop; the server's does not wait.
* Channels: weak fairness of the dispatcher (Telegram's client has timeouts).
* TaskManager, Conversation, AgentTurn and LiveView state no liveness; that a turn takes
  finitely many steps is the action property `LoopGetsOn`, which is proved.

## Proofs

`CommandQueueProofs` proves, for every set of lanes, number of commands and
drainers, every positive `MaxTotal` and finite set of integer limits
(`ConstantsAssumption`): `TypeOK`, `SlotAccounting`, `NoStrandedLane`,
`PermitAccounting`. None of the last three is inductive by itself. The
inductive invariant `IInv` adds

* `QueueHolds`: a lane's deque holds exactly the lane's queued commands, once
  each. Without it a pump could start a command that already runs and count it
  twice.
* `HeldAccounting`: `active` counts the commands that hold a slot, as one set
  (live or lost), which a step changes by sets of known cardinality; split in
  two it is `SlotAccounting`.
* `BusyLane`: a lane with a non-empty deque has a slot in use, since a pump stops
  only at the limit, which is at least one. With `HeldAccounting` it gives
  `NoStrandedLane`.

Each step is a lemma, over lemmas about `_pump` (what it pops, in which order,
how many), about `Mark`, and about the waiter the semaphore wakes.

It also proves the refinement, `Spec => KeepsPromise`: every step of the queue is
a step of `LaneScheduler` or a stutter. What the abstract scheduler asks of each
step (the first of a lane begins, no more than the cap runs, a command runs once)
does not follow from `IInv`, which knows nothing of order. `OrderInv` adds that
the deques, the ready queue and the semaphore's waiters hold each command once, in
the place its status says (`Places`) and in the order of the numbers within a
lane (`QueuesOrdered`), that of two commands of a lane the earlier has come further
(`EarlierIsFurther`), that the next number is the next command (`NewAreLast`), and
that a lane uses no more slots than its largest limit (`WithinCap`). That no
permit is used twice is `PermitAccounting`. `OneWay` is the action property that a
command goes through its states in one direction only.

`AgentsProofs` has, for `Orchestrator`, the invariant of `CommandQueueProofs` as it
stands, since every step of the orchestrator does to the queue what a step of `CommandQueue` does,
or nothing. `OInv` adds that the stop event is set for good (`EventIsSet`), that the
late messages and the one `run` has its hands on make at most one (`AtMostOneLate`),
and that the drain of `stop()` waits for all that was active and cancels nothing
before it ends (`Waited`): hence `OneLateMessage` and `ActiveAtStopAreDone`. That the
steps are the queue's makes the refinement of `CommandQueue` the orchestrator's too:
`UsesCommandQueue` and, from it, `MessagesInOrder`.

`TaskManagerProofs` proves, for every set of task ids, `TypeOK`, `FileIsCurrent`,
`ParentFirst`, `DoingIsBegun` and the action property `EndedStaysEnded`. Its
`IInv` adds that table and file are `Orderly`: each id once (else an ended line
could share its id with one that is re-queued), every parent above its subagents
(so that every prefix a torn rewrite leaves has the parents of what it has).
Three lemmas say that appending, changing states and cutting keep a table
orderly; a stop inside a rewrite is then one lemma for all three operations that
rewrite.

`MessagePipelineProofs` proves first that every step of the pipeline, over its stops
and restarts, uses the task table by the operations of `TaskManager` only
(`UsesTaskTable`), so that the invariant of `TaskManagerProofs` holds of the table.
On that rest two more. `RecordInv`: a message has its question on record where its
reply can come next (`Asked`), and its answer before its task is DONE or anything is
published (`Answered`); the record itself is only added to. It gives `OnRecord` and
`AnswerFollowsQuestion`. `TasksInv`: what is down holds no message (`Down`), a task is
of a message that was sent (`Sent`), a recovered task is TODO and its message nowhere
else (`Waiting`), and each row has its message or its agent (`RowsAttended`), which is
`Attended`.

For `Subagents`, `AgentsProofs` proves first, as for the pipeline, that every step
uses the task table by the operations of `TaskManager` only
(`SubagentsUseTaskTable`). This takes part of the invariant: a turn that spawns has
its task in the table (`HasTask`), so that the parent of the new task is one of it.
`SubagentInv` has besides that every task is of a message that was published or of
a subagent that was spawned (`TaskWasSent`), that a stopped server has nothing in
memory and a recovered task is not on its way (`DownIsEmpty`), that an announcement
is published last and in the chat of the turn that spawned (`AnnouncedLast`), and
that while it waits, this turn has replied or is in the agent (`ParentAtWork`). The
lane of the chat then lets the announcement in only when the turn has replied
(`ParentReplied`), which is `AnnouncementFollowsReply`. What a stop takes away, turn
or announcement, comes back only with a task, and the announcement has none before
its first step.

`ConversationProofs` proves, for every set of messages, window and cap of a history,
`CacheIsDisk`, `NothingSkipped`, `ContextComplete` and the action property
`RecordGrows`. One `IInv` serves all four, since each needs the others: the agent's
object is the cached one unless the session was deleted under it (`HeldIsCached`);
what is counted as consolidated was handed to `memory_save`, also what the agent has
counted and not yet written down (`Counted`, until a stop cuts a file); a message
is in the lane once (`LaneIsSent`); in every object that somebody may still save,
questions come before their answers and answers are of messages that were worked on
(`Turns`).

For `AgentTurn` it proves `ToolsNotRepeated`, for windows and limits of any size:
what `_recent_tool_hashes` holds is the end of what was executed, as much of it as
the window takes (`RemembersLast`), and `_tool_call_counts` counts every execution
and more, the calls that ended the loop (`CallsCounted`). So neither limit hides
from the other, whichever is the smaller.

It also proves `TranscriptWellFormed` (`TranscriptIsAccepted`), for windows and
transcripts of any size, in four parts.

* A transcript that is given to the model is `Good`: only its first message is the
  system's, every result has its call before it and every call its results after it.
* What trimming and compaction keep is the system message, or that and the summary,
  before a tail of the dialogue that begins with no result. A tail has all results of
  its calls, and if no result comes first, no result lost its call
  (`TailWellFormed`): this is what the loop at the end of `trim_history` is for.
* What validation makes of a good transcript is described up to each of its messages
  by `Mirrors`: the last message that was taken over, the call it belongs to, and that
  all that matters came through. Hence that the result is well formed, and
  `ValidationDropsNone`: results are dropped, and messages with calls merged, only in
  transcripts the loop does not make.
* While the tools run the transcript is not good, and the property says nothing of it:
  `InCalls` says which results are in. With it the whole is inductive (`TranscriptInv`).

The operators are recursive functions over the positions of a transcript. What they
compute is shown by taking the least position where it would be wrong (`LeastOfMany`,
`StepByStep`), since induction theorems take an operator. `LoopGetsOn` is the
action property that each step of the loop leads to a later call, phase or iteration,
and that there are at most `MaxIterations`.

`LiveViewProofs` proves, for every set of turns and sessions, any cap of a history and
any number of histories asked for and of lost connections, `ViewIsOfSession`, `NothingMissing` and
`LiveEnds`. Its `IInv` has the server's side (the record has a reply exactly when it
was made, `live_state` lists only turns that are not answered), the events (one of
an agent at work is followed by its reply, unless that is still to come) and the
store: one load per token, the one that will be taken is of the session shown
unless another was begun meanwhile, and what its answer lacks of the record there was
is beyond the cap by now (`LoadsAreSound`); when it was computed while connected, every
reply there was is on record, known to the browser or still to come, and the turns it
lists at work are at work or have a reply of which the same holds (`LoadsAreFresh`,
`CacheIsSound`); and what is shown is right once nothing more is asked for
(`ViewIsSound`). The last is the three properties without their condition that all
events have come, which no step would preserve. Two more are needed since `/help` came
in: such a turn is never at work (`HelpIsSound`), and a reply that the browser knows or
that is coming was sent (`RepliesAreSound`). That a message once beyond the cap stays
beyond it is a lemma about records that only grow (`BeyondGrows`).

`BrowserToolProofs` begins with the connection by itself. It proves, for every set of
callers and number of sessions, that whatever its users do, `AnswersMatch`: a future only ever gets the answer to its
command. Ids are counted per session from zero and start again with a connection,
so this needs `IdsBelowCount` (every id in use is below its session's counter) and
`IdsTellApart` (what Chrome holds and what is waited for are the same command when
session and id agree), together `ConnInv`.

It then proves that every step of `BrowserTool` does to the connection
what a step of `CdpConnection` does, or nothing: `Spec => ConnSpec`. So the
connection's theorem is the tool's too. Its `IInv` adds to `ConnInv` the types
(`RequestInv`), that one request holds Chrome's lock (`OneChrome`) and that who
launches finds no connection (`LaunchDown`), from which `ConnectsOnlyWhenDown`.

`ServicesProofs` proves, for `Cron`, `TypeOK`, `JobsKept` and `CallsAsScheduled` for all jobs and
schedules, with intervals of any sign. Its `IInv` says that between ticks nothing is pending (`Quiet`), that every
id was given by `add_job` (`GivenIds`), that the file is behind the table only
within a tick (`OnFile`), that what a tick has still to look at is as it was when the
tick began (`Ahead`), that an "at" job has no next run but its time (`OnTime`), and
that a job that was called has its next run later, unless its callback raised
(`CalledLater`), without which a second tick could call it again.

For `Channels` it proves `NoOrphan` and `InOrder`, for any requests, messages and
parts. `ChannelInv` says that, unless two starts overlapped, a channel that is up or
on its way up is the registered one (`OneAlive`), that one start at a time is under
way and nothing polls while it awaits the old channel's stop (`OneStart`), and that
no request is under way outside the server's life (`Requests`). `OrderInv` says that
what the dispatcher has taken is a prefix of what was published
(`WaitInOrder`), that what it sends is the last of it and no later part has arrived
(`SendsLast`), and that what arrived is sorted by its place in the queue and its
part (`Sorted`), also when a part is sent again as plain text.

The proofs assume of the constants what the modules state: that the bounds are
numbers (positive where a limit of zero has no meaning in the program), that the
markers `NoTask`, `NoFile`, `NoTab`, `NoJob` and `None` are none of the values they
stand beside, that no message of a user has the id of a subagent's (they are uuids),
that the web sessions are sessions and the browser begins in one of them.

Some definitions are written so that they can be proved about: the messages that a
start publishes again (`RequeuedMessages` in `MessagePipeline`) are defined by where
they are in the table; a failed POST takes its question out of the view with
`RemoveFirst`, as the store does with `indexOf` and `splice`; and the filters and the
validation of a transcript (`OfRoles`, `Validated` in `AgentTurn`) are recursive
functions, where the folds of the library take an operator.

Only model-checked is liveness (`EveryCommandEnds`, `EachEnds`, `ShutdownEnds`,
`SubagentEnds`, `DoneIsAnswered`, `EndsUnlessWedged`, `DueRuns`, `EachIsMirrored`):
fairness and ENABLED are outside what the prover handles.

## Open

* The type invariants of `Conversation`, `Channels`, `AgentTurn` and the modules
  composed of others are proved as parts of their inductive invariants, without a
  theorem of their own.
* Sessions that share an agent's MEMORY.md: the one hazard of the list without a
  property, since `Conversation` has one session.

## Not modelled

* `heartbeat/service.py` publishes one message by a timer and keeps no state;
  `agent/classifier.py` is one call with a default; `agent/context.py` and
  `agent/skills.py` build prompts from files.
* `providers/`: attempts, delays and the mapping of errors are sequential code without
  state of its own.
* MEMORY.md and HISTORY.md are shared by the sessions of an agent; `Conversation` has
  one session and only its cursor. `memory_save` writes the whole of MEMORY.md from
  what the model was shown: the later of two sessions drops what the earlier added.
* `server/websocket.py`: the loop of a broadcast over several browsers.
* The stores of tasks, channels and logins, the components of the web client.
* `cdp/protocol/`: generated data classes, without behaviour; they are 42 600 of the
  54 200 lines of the implementation.
* Storage back ends, configuration, CLI, and the tools that are a single call of a
  file, a process or the network: no state between calls.
