----------------------------- MODULE TaskManager -----------------------------
(***************************************************************************)
(* The task table of src/openbotx/tasks: the tasks of a running server,    *)
(* the file tasks.jsonl that is rewritten after every change, and what     *)
(* TaskManager._load makes of that file when the server starts again,      *)
(* after a stop between two operations or in the middle of a rewrite.      *)
(*                                                                         *)
(* Every operation is synchronous up to its persist, so it is one step;    *)
(* the broadcast that follows changes nothing here.  Any caller may call   *)
(* any operation: the agent loop, a subagent, PATCH /tasks/{id}.           *)
(***************************************************************************)
EXTENDS Naturals, Sequences, FiniteSets, SequencesExt

CONSTANTS
  TaskIds,  \* the ids uuid4 hands out, each of them once
  NoTask    \* no parent

ASSUME NoTaskAssumption == NoTask \notin TaskIds

VARIABLES
  up,            \* the server runs
  tasks,         \* TaskManager._tasks, in the order of its insertions
  file,          \* the lines of tasks.jsonl that json.loads can read
  recoveredIds,  \* TaskManager._recovered_ids (a list in the order of the table)
  issued,        \* history: the ids given out
  recent,        \* the tasks created less than an hour ago
  begun          \* history: tasks this server has moved to DOING

storeVars == <<tasks, file, recoveredIds>>
vars == <<up, storeVars, issued, recent, begun>>

States == {"TODO", "DOING", "DONE", "ERROR"}
Kinds == {"agent", "subagent"}

Task == [id : TaskIds, kind : Kinds, parent : TaskIds \cup {NoTask}, state : States]

Known(table) == {table[k].id : k \in DOMAIN table}
Entry(table, i) == table[CHOOSE k \in DOMAIN table : table[k].id = i]

Init ==
  /\ up = FALSE
  /\ tasks = <<>>
  /\ file = <<>>
  /\ recoveredIds = {}
  /\ issued = {}
  /\ recent = {}
  /\ begun = {}

-----------------------------------------------------------------------------
(* Not the code: a state of its own for interrupted tasks, or interrupted subagents left as they are. *)
MarksRecovered(t) ==
  IF t.state # "DOING" THEN t
  ELSE [t EXCEPT !.state = IF t.kind = "subagent" THEN "ERROR" ELSE "RECOVERED"]
KeepsInterruptedSubagent(t) ==
  IF t.state = "DOING" /\ t.kind # "subagent" THEN [t EXCEPT !.state = "TODO"] ELSE t

(* What _load makes of a line. *)
Recovered(t) ==
  IF t.state # "DOING" THEN t
  ELSE [t EXCEPT !.state = IF t.kind = "subagent" THEN "ERROR" ELSE "TODO"]

(* Not the code: interrupted tasks forgotten, or the state not looked at. *)
RequeuesWaitingOnly(t) == t.state = "TODO" /\ t.id \in recent
RequeuesEnded(t) == t.id \in recent \/ t.state = "DOING"

(* The tasks of _recovered_ids: interrupted, or waiting and less than an hour old. *)
Requeued(t) ==
  \/ t.state = "DOING" /\ t.kind # "subagent"
  \/ t.state = "TODO" /\ t.id \in recent

(* Counted as recovered. *)
Touched(t) == t.state = "DOING" \/ Requeued(t)

LoadedTable == [k \in DOMAIN file |-> Recovered(file[k])]

(* Not the code: recovered in memory only. *)
LeavesFileAlone == file

(* _load persists only if it recovered something. *)
FileAfterLoad ==
  IF \E k \in DOMAIN file : Touched(file[k]) THEN LoadedTable ELSE file

(* TaskManager(): __init__ and _load. *)
Load ==
  /\ ~ up
  /\ up' = TRUE
  /\ tasks' = LoadedTable
  /\ recoveredIds' = {file[k].id : k \in {j \in DOMAIN file : Requeued(file[j])}}
  /\ file' = FileAfterLoad
  /\ begun' = {}
  /\ UNCHANGED <<issued, recent>>

(* get_recovered_tasks: the list is handed over and cleared. *)
GetRecovered ==
  /\ up
  /\ recoveredIds' = {}
  /\ UNCHANGED <<up, tasks, file, issued, recent, begun>>

NewTask(i, kind, parent) ==
  [id |-> i, kind |-> kind, parent |-> parent, state |-> "TODO"]

(* Not the code: the table in the order of list_tasks. *)
NewestFirst(i, kind, parent) == <<NewTask(i, kind, parent)>> \o tasks

(* A dict keeps the order of insertion. *)
WithTask(i, kind, parent) == Append(tasks, NewTask(i, kind, parent))

(* create_task: a new id, appended to the table. *)
CreateTask(i, kind, parent) ==
  /\ up
  /\ i \notin issued
  /\ tasks' = WithTask(i, kind, parent)
  /\ file' = tasks'
  /\ issued' = issued \cup {i}
  /\ recent' = recent \cup {i}
  /\ UNCHANGED <<up, recoveredIds, begun>>

WithState(i, s) ==
  [k \in DOMAIN tasks |->
    IF tasks[k].id = i THEN [tasks[k] EXCEPT !.state = s] ELSE tasks[k]]

(* update_state: from any state to any state; an unknown id changes nothing. *)
UpdateState(i, s) ==
  /\ up
  /\ i \in Known(tasks)
  /\ tasks' = WithState(i, s)
  /\ file' = tasks'
  /\ begun' = IF s = "DOING" THEN begun \cup {i} ELSE begun
  /\ UNCHANGED <<up, recoveredIds, issued, recent>>

(* The process ends: memory is gone, the file is what it was. *)
Crash ==
  /\ up
  /\ up' = FALSE
  /\ tasks' = <<>>
  /\ recoveredIds' = {}
  /\ begun' = {}
  /\ UNCHANGED <<file, issued, recent>>

(***************************************************************************)
(* The process ends inside _persist, which truncates the file and writes   *)
(* it again: the lines of table written so far are there.                  *)
(***************************************************************************)
CrashPersisting(table, newIds) ==
  /\ \E k \in 0 .. Len(table) : file' = SubSeq(table, 1, k)
  /\ up' = FALSE
  /\ tasks' = <<>>
  /\ recoveredIds' = {}
  /\ begun' = {}
  /\ issued' = issued \cup newIds
  /\ recent' = recent \cup newIds

CrashCreating(i, kind, parent) ==
  /\ up
  /\ i \notin issued
  /\ CrashPersisting(WithTask(i, kind, parent), {i})

CrashUpdating(i, s) ==
  /\ up
  /\ i \in Known(tasks)
  /\ CrashPersisting(WithState(i, s), {})

CrashLoading ==
  /\ ~ up
  /\ \E k \in DOMAIN file : Touched(file[k])
  /\ CrashPersisting(LoadedTable, {})

(* An hour passes for the tasks of S: the older ones leave the window first. *)
HourPasses(S) ==
  /\ S # {} /\ S \subseteq recent
  /\ recent' = recent \ S
  /\ UNCHANGED <<up, storeVars, issued, begun>>

(* A subagent is spawned by a task of this server. *)
Parents(kind) == IF kind = "subagent" THEN Known(tasks) ELSE {NoTask}

Next ==
  \/ Load \/ GetRecovered \/ Crash \/ CrashLoading
  \/ \E i \in TaskIds, kind \in Kinds : \E parent \in Parents(kind) :
        CreateTask(i, kind, parent) \/ CrashCreating(i, kind, parent)
  \/ \E i \in TaskIds, s \in States : UpdateState(i, s) \/ CrashUpdating(i, s)
  \/ \E S \in SUBSET recent : HourPasses(S)

Spec == Init /\ [][Next]_vars

-----------------------------------------------------------------------------
(* Properties *)

(* The tables are sequences of tasks and every id was given out. *)
TypeOK ==
  /\ up \in BOOLEAN
  /\ tasks \in Seq(Task) /\ file \in Seq(Task)
  /\ issued \subseteq TaskIds
  /\ recoveredIds \subseteq issued /\ recent \subseteq issued /\ begun \subseteq issued
  /\ Known(tasks) \subseteq issued /\ Known(file) \subseteq issued

(***************************************************************************)
(* A subagent's task never outlives its parent's: whatever a crash cut off *)
(* while the file was rewritten, a task in the table or the file has its   *)
(* parent there too, further up.                                           *)
(***************************************************************************)
ParentFirst ==
  \A table \in {tasks, file} : \A k \in DOMAIN table :
    table[k].parent # NoTask => \E j \in 1 .. k-1 : table[j].id = table[k].parent

(***************************************************************************)
(* While the server runs, a restart would find the tasks it has, in their  *)
(* states: no state change, no recovery of _load is only in memory.        *)
(***************************************************************************)
FileIsCurrent == up => file = tasks

(* No ghost at work: a task in DOING was moved there by this server, not by one that died. *)
DoingIsBegun == up => \A k \in DOMAIN tasks : tasks[k].state = "DOING" => tasks[k].id \in begun

(* A restart leaves ended tasks alone: same line, and not queued again. *)
LeavesEnded ==
  \A k \in DOMAIN file :
    file[k].state \in {"DONE", "ERROR"} =>
      /\ tasks'[k] = file[k]
      /\ file[k].id \notin recoveredIds'

EndedStaysEnded == [][Load => LeavesEnded]_vars
=============================================================================
