--------------------------- MODULE MessagePipeline ---------------------------
(***************************************************************************)
(* The way of a chat message through the server and across its restarts:   *)
(* POST /chat (server/routes/chat.py) or a channel, the inbound queue, the *)
(* orchestrator, the lanes, AgentLoop.process_message, the outbound queue, *)
(* with the task table of TaskManager and the session files as the only    *)
(* things that outlive the process.                                        *)
(*                                                                         *)
(* A step is what runs between two awaits that really suspend: a broadcast *)
(* to the websockets, a call of the model.  Putting a message on a queue   *)
(* and saving a session do not suspend.  The messages are ordinary ones    *)
(* (no /new, no /help), nobody edits their tasks by hand, and a stop does  *)
(* not hit a file that is being rewritten (TaskManager covers that one).   *)
(***************************************************************************)
EXTENDS Naturals, Sequences, FiniteSets, SequencesExt

CONSTANTS
  Messages,    \* the messages sent, each with an id for the task it may get
  Chats,       \* the session keys
  MaxTotal,    \* max_concurrent of the orchestrator's command queue
  MaxCrashes,  \* bound: times the process is stopped
  BrokenMedia, \* the messages sent with an image that cannot be read
  NoTask       \* no parent

ASSUME NoTaskAssumption == NoTask \notin Messages

VARIABLES
  \* the task table (module TaskManager)
  up, tasks, file, recoveredIds, issued, recent, begun,
  \* fixed at the start
  chat,        \* the session key of each message
  source,      \* "http" (POST /chat) or "channel" (Telegram, cron, heartbeat)
  \* volatile
  serving,     \* the lifespan has yielded: HTTP requests are served
  at,          \* how far each message has come
  inbound,     \* MessageBus.inbound
  lanes,       \* the deques of the command queue
  outbound,    \* MessageBus.outbound
  noted,       \* message_saved in the metadata of the message under way
  media,       \* the message under way carries its images
  \* on disk
  transcript,  \* the messages of each session's file
  crashes      \* history: how often the process was stopped

TM == INSTANCE TaskManager WITH TaskIds <- Messages

taskVars == <<up, tasks, file, recoveredIds, issued, recent, begun>>
queueVars == <<inbound, lanes, outbound>>
vars == <<taskVars, chat, source, serving, at, queueVars, noted, media, transcript, crashes>>

(***************************************************************************)
(* "creating", "noting": in the POST handler, after create_task and after  *)
(* the session is saved.  "inbound", "routing", "lane": on its way to the  *)
(* agent.  "making" to "closing": in process_message, suspended after      *)
(* create_task, after DOING, in the model, after the reply is saved, after *)
(* ERROR, after DONE.  "gone": the process it was in has ended.            *)
(***************************************************************************)
Incoming == {"creating", "noting", "inbound", "routing", "lane", "making"}
InProgress == {"starting", "thinking", "replying"}
Ending == {"failing", "closing"}
InFlight == Incoming \cup InProgress \cup Ending
InAgent == {"making"} \cup InProgress \cup Ending

Init ==
  /\ TM!Init
  /\ chat \in [Messages -> Chats]
  /\ source \in [Messages -> {"http", "channel"}]
  /\ serving = FALSE
  /\ at = [m \in Messages |-> "unsent"]
  /\ inbound = <<>>
  /\ lanes = [c \in Chats |-> <<>>]
  /\ outbound = <<>>
  /\ noted = [m \in Messages |-> FALSE]
  /\ media = [m \in Messages |-> TRUE]
  /\ transcript = [c \in Chats |-> <<>>]
  /\ crashes = 0

Move(m, from, to) == at[m] = from /\ at' = [at EXCEPT ![m] = to]

(* Session.add_message and SessionManager.save, with nothing between them. *)
AddMessage(m, role) ==
  transcript' = [transcript EXCEPT ![chat[m]] = Append(@, [role |-> role, of |-> m])]

-----------------------------------------------------------------------------
(* Startup and stop *)

(* lifespan up to the point where the services are started. *)
Boot ==
  /\ TM!Load
  /\ UNCHANGED <<chat, source, serving, at, queueVars, noted, media, transcript, crashes>>

(* Not the code: recovered tasks are not published. *)
RequeueNone == <<>>

(* get_recovered_tasks: those of the table, in its order. *)
RequeuedMessages ==
  LET waiting == {k \in DOMAIN tasks : tasks[k].id \in recoveredIds}
      UpTo(k) == {i \in waiting : i <= k}
  IN  [n \in 1 .. Cardinality(waiting) |-> tasks[CHOOSE k \in waiting : Cardinality(UpTo(k)) = n].id]

(* lifespan: every recovered task is published again, without message_saved and media. *)
Requeue ==
  /\ ~ serving
  /\ TM!GetRecovered
  /\ serving' = TRUE
  /\ inbound' = inbound \o RequeuedMessages
  /\ at' = [m \in Messages |-> IF m \in ToSet(RequeuedMessages) THEN "inbound" ELSE at[m]]
  /\ noted' = [m \in Messages |-> noted[m] /\ m \notin ToSet(RequeuedMessages)]
  /\ media' = [m \in Messages |-> media[m] /\ m \notin ToSet(RequeuedMessages)]
  /\ UNCHANGED <<chat, source, lanes, outbound, transcript, crashes>>

(* The process ends; all that was in memory is gone. *)
Crash ==
  /\ crashes < MaxCrashes
  /\ TM!Crash
  /\ serving' = FALSE
  /\ at' = [m \in Messages |-> IF at[m] \in InFlight THEN "gone" ELSE at[m]]
  /\ inbound' = <<>>
  /\ lanes' = [c \in Chats |-> <<>>]
  /\ outbound' = <<>>
  /\ crashes' = crashes + 1
  /\ UNCHANGED <<chat, source, noted, media, transcript>>

-----------------------------------------------------------------------------
(* Sending *)

(* POST /chat: the task is created first. *)
Send(m) ==
  /\ serving
  /\ source[m] = "http"
  /\ Move(m, "unsent", "creating")
  /\ TM!CreateTask(m, "agent", NoTask)
  /\ UNCHANGED <<chat, source, serving, queueVars, noted, media, transcript, crashes>>

(* Then the message is saved in the session, before the agent sees it. *)
SaveSent(m) ==
  /\ Move(m, "creating", "noting")
  /\ AddMessage(m, "user")
  /\ UNCHANGED <<taskVars, chat, source, serving, queueVars, noted, media, crashes>>

(* Then it is published, and the request is answered. *)
Publish(m) ==
  /\ Move(m, "noting", "inbound")
  /\ inbound' = Append(inbound, m)
  /\ noted' = [noted EXCEPT ![m] = TRUE]
  /\ UNCHANGED <<taskVars, chat, source, serving, lanes, outbound, media, transcript, crashes>>

(* A channel, cron or the heartbeat publishes a message that has no task yet. *)
Receive(m) ==
  /\ up
  /\ source[m] = "channel"
  /\ Move(m, "unsent", "inbound")
  /\ inbound' = Append(inbound, m)
  /\ UNCHANGED <<taskVars, chat, source, serving, lanes, outbound, noted, media, transcript, crashes>>

-----------------------------------------------------------------------------
(* The orchestrator and the lanes *)

(* run: the next message is taken; _route may call the classifier's model. *)
Take(m) ==
  /\ up
  /\ \A n \in Messages : at[n] # "routing"
  /\ inbound # <<>> /\ m = Head(inbound)
  /\ inbound' = Tail(inbound)
  /\ Move(m, "inbound", "routing")
  /\ UNCHANGED <<taskVars, chat, source, serving, lanes, outbound, noted, media, transcript, crashes>>

(* enqueue_nowait on the lane of its session. *)
Dispatch(m) ==
  /\ Move(m, "routing", "lane")
  /\ lanes' = [lanes EXCEPT ![chat[m]] = Append(@, m)]
  /\ UNCHANGED <<taskVars, chat, source, serving, inbound, outbound, noted, media, transcript, crashes>>

(* The lanes as CommandQueue keeps them: in order, one at a time, MaxTotal in all. *)
MayBegin(m) ==
  /\ lanes[chat[m]] # <<>> /\ m = Head(lanes[chat[m]])
  /\ \A n \in Messages : at[n] \in InAgent => chat[n] # chat[m]
  /\ Cardinality({n \in Messages : at[n] \in InAgent}) < MaxTotal

-----------------------------------------------------------------------------
(* AgentLoop.process_message *)

(* The task is looked up, and moved to DOING or created first. *)
Begin(m) ==
  /\ MayBegin(m)
  /\ lanes' = [lanes EXCEPT ![chat[m]] = Tail(@)]
  /\ \/ m \in TM!Known(tasks) /\ TM!UpdateState(m, "DOING") /\ Move(m, "lane", "starting")
     \/ /\ m \notin TM!Known(tasks)
        /\ TM!CreateTask(m, "agent", NoTask)
        /\ Move(m, "lane", "making")
  /\ UNCHANGED <<chat, source, serving, inbound, outbound, noted, media, transcript, crashes>>

StartCreated(m) ==
  /\ Move(m, "making", "starting")
  /\ TM!UpdateState(m, "DOING")
  /\ UNCHANGED <<chat, source, serving, queueVars, noted, media, transcript, crashes>>

(* Not the code: the message is always taken for saved. *)
NeverNotes(m) == FALSE

(* The user's message is saved here unless the message says it was. *)
NotesMessage(m) == ~ noted[m]

(* _resolve_media reads the image, if the message still has it. *)
Readable(m) == ~ (media[m] /\ m \in BrokenMedia)

(* Up to the call of the model. *)
Think(m) ==
  /\ Readable(m)
  /\ Move(m, "starting", "thinking")
  /\ IF NotesMessage(m) THEN AddMessage(m, "user") ELSE UNCHANGED transcript
  /\ UNCHANGED <<taskVars, chat, source, serving, queueVars, noted, media, crashes>>

(***************************************************************************)
(* _resolve_media raises, outside the try of process_message: the command  *)
(* queue logs it, the lane goes on, the task keeps its state.              *)
(***************************************************************************)
FailOnMedia(m) ==
  /\ ~ Readable(m)
  /\ Move(m, "starting", "over")
  /\ UNCHANGED <<taskVars, chat, source, serving, queueVars, noted, media, transcript, crashes>>

(* Not the code: the reply is published and not saved. *)
UnsavedReply(m) == UNCHANGED transcript

(* The session is saved before the reply is published. *)
SaveReply(m) == AddMessage(m, "assistant")

(* The model has answered: the reply is saved. *)
Reply(m) ==
  /\ Move(m, "thinking", "replying")
  /\ SaveReply(m)
  /\ UNCHANGED <<taskVars, chat, source, serving, queueVars, noted, media, crashes>>

(* Then it is published and the task is DONE. *)
Close(m) ==
  /\ Move(m, "replying", "closing")
  /\ outbound' = Append(outbound, m)
  /\ TM!UpdateState(m, "DONE")
  /\ UNCHANGED <<chat, source, serving, inbound, lanes, noted, media, transcript, crashes>>

(* The error is the assistant's reply in the session. *)
SaveError(m) == AddMessage(m, "assistant")

(* The model has failed: the error is saved as the reply, the task is in ERROR. *)
Fail(m) ==
  /\ Move(m, "thinking", "failing")
  /\ SaveError(m)
  /\ TM!UpdateState(m, "ERROR")
  /\ UNCHANGED <<chat, source, serving, queueVars, noted, media, crashes>>

PublishError(m) ==
  /\ Move(m, "failing", "over")
  /\ outbound' = Append(outbound, m)
  /\ UNCHANGED <<taskVars, chat, source, serving, inbound, lanes, noted, media, transcript, crashes>>

(* The memory is consolidated, if need be, before the lane is free. *)
End(m) ==
  /\ Move(m, "closing", "over")
  /\ UNCHANGED <<taskVars, chat, source, serving, queueVars, noted, media, transcript, crashes>>

-----------------------------------------------------------------------------

(* The outbound dispatcher hands a reply to its channel. *)
Deliver ==
  /\ outbound # <<>>
  /\ outbound' = Tail(outbound)
  /\ UNCHANGED <<taskVars, chat, source, serving, at, inbound, lanes, noted, media, transcript, crashes>>

HourPasses ==
  /\ \E S \in SUBSET recent : TM!HourPasses(S)
  /\ UNCHANGED <<chat, source, serving, at, queueVars, noted, media, transcript, crashes>>

Next ==
  \/ Boot \/ Requeue \/ Crash \/ Deliver \/ HourPasses
  \/ \E m \in Messages :
       \/ Send(m) \/ SaveSent(m) \/ Publish(m) \/ Receive(m)
       \/ Take(m) \/ Dispatch(m) \/ Begin(m) \/ StartCreated(m)
       \/ Think(m) \/ FailOnMedia(m) \/ Reply(m) \/ Fail(m)
       \/ Close(m) \/ PublishError(m) \/ End(m)

Spec == Init /\ [][Next]_vars

(***************************************************************************)
(* The event loop runs what is ready, the model answers or fails (the      *)
(* provider's calls have a timeout), and the server is started again when  *)
(* it stopped (docker-compose: restart: unless-stopped).                   *)
(***************************************************************************)
Fairness ==
  /\ WF_vars(Boot) /\ WF_vars(Requeue)
  /\ \A m \in Messages :
       /\ WF_vars(SaveSent(m)) /\ WF_vars(Publish(m))
       /\ WF_vars(Take(m)) /\ WF_vars(Dispatch(m)) /\ WF_vars(Begin(m))
       /\ WF_vars(StartCreated(m)) /\ WF_vars(Think(m) \/ FailOnMedia(m))
       /\ WF_vars(Reply(m) \/ Fail(m))
       /\ WF_vars(Close(m)) /\ WF_vars(PublishError(m)) /\ WF_vars(End(m))

FairSpec == Spec /\ Fairness

-----------------------------------------------------------------------------
(* Properties *)

StateOf(table, m) == IF m \in TM!Known(table) THEN TM!Entry(table, m).state ELSE "none"
Answers(m) == {k \in DOMAIN transcript[chat[m]] : transcript[chat[m]][k] = [role |-> "assistant", of |-> m]}
Questions(m) == {k \in DOMAIN transcript[chat[m]] : transcript[chat[m]][k] = [role |-> "user", of |-> m]}

(***************************************************************************)
(* Nothing is left lying: a task that waits has its message on the way to  *)
(* the agent (or among those a starting server will publish), unless it is *)
(* past the hour of the cutoff, and a task in progress has an agent at     *)
(* work on it, unless its image could not be read.                         *)
(***************************************************************************)
Attended ==
  up => \A m \in TM!Known(tasks) :
          /\ StateOf(tasks, m) = "TODO" =>
               at[m] \in Incoming \/ m \in recoveredIds \/ m \notin recent
          /\ StateOf(tasks, m) = "DOING" => at[m] \in InProgress \/ (at[m] = "over" /\ m \in BrokenMedia)

(***************************************************************************)
(* The two files agree after any stop: a task that tasks.jsonl shows as    *)
(* DONE has its reply in the session's file.                               *)
(***************************************************************************)
DoneIsOnRecord ==
  \A m \in Messages : StateOf(file, m) = "DONE" => Answers(m) # {}

(* The user is never sent a reply that a page refresh would not show. *)
SentIsOnRecord == \A m \in ToSet(outbound) : Answers(m) # {}

(* So a reply or an error that somebody can know of is one that a restart shows. *)
OnRecord == DoneIsOnRecord /\ SentIsOnRecord

(* A reply follows its question in the transcript, also when it was interrupted and redone. *)
AnswerFollowsQuestion ==
  \A m \in Messages : \A k \in Answers(m) : \E q \in Questions(m) : q < k

(***************************************************************************)
(* A message that reached the inbound queue gets its task ended, through   *)
(* any number of stops, with three exceptions: it had no task yet when the *)
(* server stopped, its task was past the hour of the cutoff, or its image  *)
(* could not be read.                                                      *)
(***************************************************************************)
EachEnds ==
  \A m \in Messages :
    at[m] = "inbound" ~> \/ StateOf(file, m) \in {"DONE", "ERROR"}
                         \/ at[m] = "gone" /\ m \notin issued
                         \/ m \in issued \ recent
                         \/ at[m] = "over" /\ m \in BrokenMedia
=============================================================================
