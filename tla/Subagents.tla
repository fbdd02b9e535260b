------------------------------ MODULE Subagents ------------------------------
(***************************************************************************)
(* Subagents: SubagentManager of agent/subagent.py over the task table of  *)
(* TaskManager, with the turns that spawn them, the announcements they     *)
(* publish, and stops of the server around all of it.                      *)
(*                                                                         *)
(* A turn is process_message as MessagePipeline has it, with a message's   *)
(* way from the bus to its lane, media and errors before the model left    *)
(* out; the loops of turn and subagent are AgentTurn's.  What a subagent   *)
(* does ends in a result or an exception.  Stops do not hit a rewrite of   *)
(* the task file, and nobody edits tasks by hand.                          *)
(***************************************************************************)
EXTENDS Naturals, Sequences, FiniteSets, SequencesExt

CONSTANTS
  Turns,      \* messages of the users
  Subagents,  \* bound: calls of spawn
  Chats,      \* session keys
  MaxStops,   \* bound: times the process is stopped
  NoTask

(* The task of a subagent, and the message that announces its end. *)
Run(s) == <<s, "run">>
Report(s) == <<s, "report">>

(* What process_message may be given: after a restart also a subagent's task. *)
Messages == Turns \union {Run(s) : s \in Subagents} \union {Report(s) : s \in Subagents}

(* The ids of tasks are uuids: no message has the id of another one. *)
ASSUME IdsAssumption ==
  NoTask \notin Messages /\ \A s \in Subagents : Run(s) \notin Turns /\ Report(s) \notin Turns

VARIABLES
  \* the task table (module TaskManager)
  up, tasks, file, recoveredIds, issued, recent, begun,
  chat,     \* the session key of each message
  parent,   \* the message in whose turn each subagent was spawned
  at,       \* how far each message is
  sub,      \* how far each subagent is
  lanes,    \* per chat: the messages that wait for the agent
  replied,  \* the messages whose reply, or error, is in the session's file
  stops     \* history: how often the process was stopped

TM == INSTANCE TaskManager WITH TaskIds <- Messages

taskVars == <<up, tasks, file, recoveredIds, issued, recent, begun>>
subagentsVars == <<taskVars, chat, parent, at, sub, lanes, replied, stops>>

(***************************************************************************)
(* A message waits ("lane"), is suspended after create_task ("making"), in *)
(* the loop ("thinking"), after its reply was saved ("replying").  A       *)
(* subagent is suspended in spawn after create_task and after DOING        *)
(* ("creating", "starting"), in its loop ("running"), after DONE           *)
(* ("reporting"); "stuck" if its registry could not be built.              *)
(***************************************************************************)
InAgent == {"making", "thinking", "replying"}
Spawning == {"creating", "starting"}
AtWork == Spawning \union {"running", "reporting"}

SubagentsInit ==
  /\ TM!Init
  /\ \E c \in Chats : chat \in {f \in [Messages -> Chats] : \A m \in Messages \ Turns : f[m] = c}
  /\ parent = [s \in Subagents |-> NoTask]
  /\ at = [m \in Messages |-> "new"]
  /\ sub = [s \in Subagents |-> "new"]
  /\ lanes = [c \in Chats |-> <<>>]
  /\ replied = {}
  /\ stops = 0

Move(m, from, to) == at[m] = from /\ at' = [at EXCEPT ![m] = to]
Advance(s, from, to) == sub[s] = from /\ sub' = [sub EXCEPT ![s] = to]

Publish(m) ==
  /\ Move(m, "new", "lane")
  /\ lanes' = [lanes EXCEPT ![chat[m]] = Append(@, m)]

-----------------------------------------------------------------------------
(* Startup and stop *)

Boot == TM!Load /\ UNCHANGED <<chat, parent, at, sub, lanes, replied, stops>>

Recovered(t) == t.id \in recoveredIds

(* lifespan: the recovered tasks are published again, a subagent's among them. *)
Requeue ==
  LET Of(c) == SelectSeq(tasks, LAMBDA t : Recovered(t) /\ chat[t.id] = c) IN
  /\ recoveredIds # {}
  /\ TM!GetRecovered
  /\ lanes' = [c \in Chats |-> lanes[c] \o [k \in DOMAIN Of(c) |-> Of(c)[k].id]]
  /\ at' = [m \in Messages |-> IF m \in recoveredIds THEN "lane" ELSE at[m]]
  /\ UNCHANGED <<chat, parent, sub, replied, stops>>

(* The process ends; the queues and the subagents' asyncio tasks are gone. *)
StopProcess ==
  /\ stops < MaxStops
  /\ TM!Crash
  /\ at' = [m \in Messages |-> IF at[m] \in {"lane"} \union InAgent THEN "gone" ELSE at[m]]
  /\ sub' = [s \in Subagents |-> IF sub[s] \in AtWork THEN "gone" ELSE sub[s]]
  /\ lanes' = [c \in Chats |-> <<>>]
  /\ stops' = stops + 1
  /\ UNCHANGED <<chat, parent, replied>>

-----------------------------------------------------------------------------
(* process_message *)

Receive(t) ==
  /\ up
  /\ Publish(t)
  /\ UNCHANGED <<taskVars, chat, parent, sub, replied, stops>>

(* One message of a session at a time, in order. *)
MayBegin(m) ==
  /\ lanes[chat[m]] # <<>> /\ Head(lanes[chat[m]]) = m
  /\ \A n \in Messages : at[n] \in InAgent => chat[n] # chat[m]

Begin(m) ==
  /\ MayBegin(m)
  /\ lanes' = [lanes EXCEPT ![chat[m]] = Tail(@)]
  /\ \/ m \in TM!Known(tasks) /\ TM!UpdateState(m, "DOING") /\ Move(m, "lane", "thinking")
     \/ /\ m \notin TM!Known(tasks)
        /\ TM!CreateTask(m, "agent", NoTask)
        /\ Move(m, "lane", "making")
  /\ UNCHANGED <<chat, parent, sub, replied, stops>>

Make(m) ==
  /\ Move(m, "making", "thinking")
  /\ TM!UpdateState(m, "DOING")
  /\ UNCHANGED <<chat, parent, sub, lanes, replied, stops>>

(* A tool call of the loop is not in spawn. *)
Free(m) == \A s \in Subagents : parent[s] = m => sub[s] \notin Spawning

Reply(m) ==
  /\ Free(m)
  /\ Move(m, "thinking", "replying")
  /\ replied' = replied \union {m}
  /\ UNCHANGED <<taskVars, chat, parent, sub, lanes, stops>>

Close(m) ==
  /\ Move(m, "replying", "ended")
  /\ TM!UpdateState(m, "DONE")
  /\ UNCHANGED <<chat, parent, sub, lanes, replied, stops>>

(* _run_agent_loop raises: the error is the reply. *)
Fail(m) ==
  /\ Free(m)
  /\ Move(m, "thinking", "ended")
  /\ replied' = replied \union {m}
  /\ TM!UpdateState(m, "ERROR")
  /\ UNCHANGED <<chat, parent, sub, lanes, stops>>

-----------------------------------------------------------------------------
(* SubagentManager *)

(* Not the code: spawn's default of origin_chat_id, for want of a context. *)
DefaultOrigin(m) == CHOOSE c \in Chats : TRUE

(* SpawnTool: the chat of the message under way (RequestContext). *)
Origin(m) == chat[m]

(* spawn, by the turn of m *)
Spawn(m, s) ==
  /\ at[m] = "thinking" /\ Free(m)
  /\ Advance(s, "new", "creating")
  /\ TM!CreateTask(Run(s), "subagent", m)
  /\ parent' = [parent EXCEPT ![s] = m]
  /\ chat' = [chat EXCEPT ![Run(s)] = Origin(m), ![Report(s)] = Origin(m)]
  /\ UNCHANGED <<at, lanes, replied, stops>>

SetDoing(s) ==
  /\ Advance(s, "creating", "starting")
  /\ TM!UpdateState(Run(s), "DOING")
  /\ UNCHANGED <<chat, parent, at, lanes, replied, stops>>

(* The asyncio task is created, and spawn returns. *)
Launch(s) ==
  /\ Advance(s, "starting", "running")
  /\ UNCHANGED <<taskVars, chat, parent, at, lanes, replied, stops>>

(* _run_subagent before its try: nobody hears of the exception. *)
RegistryFails(s) ==
  /\ Advance(s, "running", "stuck")
  /\ UNCHANGED <<taskVars, chat, parent, at, lanes, replied, stops>>

(* The loop ends, after 15 iterations if not before. *)
Finish(s) ==
  /\ Advance(s, "running", "reporting")
  /\ TM!UpdateState(Run(s), "DONE")
  /\ UNCHANGED <<chat, parent, at, lanes, replied, stops>>

(* It raises: this is not announced. *)
SubagentFails(s) ==
  /\ Advance(s, "running", "ended")
  /\ TM!UpdateState(Run(s), "ERROR")
  /\ UNCHANGED <<chat, parent, at, lanes, replied, stops>>

Announce(s) ==
  /\ Advance(s, "reporting", "ended")
  /\ Publish(Report(s))
  /\ UNCHANGED <<taskVars, chat, parent, replied, stops>>

-----------------------------------------------------------------------------
Turn(m) == Begin(m) \/ Make(m) \/ Reply(m) \/ Close(m) \/ Fail(m)
Subagent(s) == SetDoing(s) \/ Launch(s) \/ RegistryFails(s) \/ Finish(s) \/ SubagentFails(s) \/ Announce(s)

SubagentsNext ==
  \/ Boot \/ Requeue \/ StopProcess
  \/ TM!HourPasses(recent) /\ UNCHANGED <<chat, parent, at, sub, lanes, replied, stops>>
  \/ \E t \in Turns : Receive(t)
  \/ \E m \in Messages : Turn(m)
  \/ \E m \in Messages, s \in Subagents : Spawn(m, s)
  \/ \E s \in Subagents : Subagent(s)

(* The event loop runs what is ready, the model answers or fails, a stopped server is started. *)
SubagentsFairness ==
  /\ WF_subagentsVars(Boot) /\ WF_subagentsVars(Requeue)
  /\ \A m \in Messages : WF_subagentsVars(Turn(m))
  /\ \A s \in Subagents : WF_subagentsVars(Subagent(s))

SubagentsSpec == SubagentsInit /\ [][SubagentsNext]_subagentsVars
SubagentsFairSpec == SubagentsSpec /\ SubagentsFairness

-----------------------------------------------------------------------------
StateOf(i) == IF i \in TM!Known(tasks) THEN TM!Entry(tasks, i).state ELSE "none"

(***************************************************************************)
(* "Session history contains the original conversation" (docs/flow.md):    *)
(* when an announcement is being worked on, the turn that spawned the      *)
(* subagent has its reply on record, however soon the subagent was done    *)
(* and whatever was interrupted: both are of one lane.                     *)
(***************************************************************************)
AnnouncementFollowsReply ==
  \A s \in Subagents : at[Report(s)] \in InAgent => parent[s] \in replied

(* It waits for a message that is not on its way: its task was TODO for an hour at a restart. *)
Forgotten(i) == up /\ at[i] \notin {"lane"} \union InAgent /\ i \notin recent /\ StateOf(i) = "TODO"

(***************************************************************************)
(* The task of a subagent ends: by its run, by the restart after a stop    *)
(* (DOING becomes ERROR), or by running as a message (a task that was      *)
(* still TODO).  Exceptions are a registry that could not be built and the *)
(* one hour of _load.                                                      *)
(***************************************************************************)
SubagentEnds ==
  \A s \in Subagents :
    Run(s) \in issued ~>
      \/ up /\ StateOf(Run(s)) \in {"DONE", "ERROR"}
      \/ sub[s] = "stuck" \/ Forgotten(Run(s))

(* Its announcement was in memory only when the process was stopped. *)
Lost(s) ==
  \/ sub[s] = "gone"
  \/ at[Report(s)] = "gone" /\ Report(s) \notin issued

(***************************************************************************)
(* A subagent that was done is answered for in its chat, unless the stop   *)
(* of the server finds its announcement in memory only; one that has a     *)
(* task is taken up again.                                                 *)
(***************************************************************************)
DoneIsAnswered ==
  \A s \in Subagents :
    sub[s] = "reporting" ~> Report(s) \in replied \/ Lost(s) \/ Forgotten(Report(s))
=============================================================================
