---------------------------- MODULE LaneScheduler ----------------------------
(***************************************************************************)
(* What src/openbotx/bus/command_queue.py promises its callers, with no    *)
(* queue, semaphore or task in it: commands submitted to a lane begin in   *)
(* the order in which they were submitted, each one begins at most once,   *)
(* no more than LaneCap commands of a lane and MaxTotal commands of all    *)
(* lanes are in progress together, and a command ends only after it began  *)
(* (or is dropped before it begins, when its task is cancelled).           *)
(***************************************************************************)
EXTENDS Naturals, FiniteSets

CONSTANTS
  Lanes,        \* the lane keys (session keys, "cron-..." keys)
  MaxCommands,  \* bound: commands submitted in a behaviour
  MaxTotal,     \* commands in progress over all lanes
  LaneCap       \* commands in progress in one lane

Commands == 1 .. MaxCommands

VARIABLES
  lane,   \* lane[c]: the lane the c-th submitted command is for
  phase   \* phase[c]: how far the command has come: "new", "pending", "running", "over"

vars == <<lane, phase>>

Init ==
  /\ lane \in [Commands -> Lanes]
  /\ phase = [c \in Commands |-> "new"]

InPhase(p) == {c \in Commands : phase[c] = p}

SameLane(c) == {b \in Commands : lane[b] = lane[c]}

Move(c, from, to) ==
  /\ phase[c] = from
  /\ phase' = [phase EXCEPT ![c] = to]
  /\ UNCHANGED lane

Submit(c) ==
  /\ \A b \in 1 .. c-1 : phase[b] # "new"
  /\ Move(c, "new", "pending")

(* The oldest command of its lane that has not begun may begin, below both caps. *)
Begin(c) ==
  /\ \A b \in SameLane(c) : b < c => phase[b] # "pending"
  /\ Cardinality(InPhase("running")) < MaxTotal
  /\ Cardinality(InPhase("running") \cap SameLane(c)) < LaneCap
  /\ Move(c, "pending", "running")

End(c) == Move(c, "running", "over")

Drop(c) == Move(c, "pending", "over")

Next == \E c \in Commands : Submit(c) \/ Begin(c) \/ End(c) \/ Drop(c)

Spec == Init /\ [][Next]_vars
==============================================================================
