----------------------------- MODULE AgentTurn -----------------------------
(***************************************************************************)
(* One message at work: the loop of _run_agent_loop (agent/loop.py) that   *)
(* asks the model, executes the tools it calls for and asks again, with    *)
(* what keeps its transcript within bounds and acceptable: trim_history    *)
(* (agent/context_window.py), compact_messages (agent/compaction.py) and   *)
(* _validate_transcript (providers/litellm_provider.py).                   *)
(*                                                                         *)
(* A message of the transcript is its role and what these functions look   *)
(* at.  What a model answers, whether a transcript is too long for it and  *)
(* whether a summary succeeds are free choices.  A signature stands for    *)
(* the hash of a set of tool calls; the results come in their order.       *)
(***************************************************************************)
EXTENDS Naturals, Sequences, FiniteSets, SequencesExt

CONSTANTS
  Signatures,     \* what the model may call for
  CallsOf,        \* per signature: how many calls it is
  Window,         \* how many signatures _recent_tool_hashes keeps
  BreakAt,        \* the count of one signature that ends the loop
  MaxIterations,  \* agent_params.max_iterations
  MaxHistory,     \* agent_params.max_history, 0 for no trimming
  MaxPast         \* bound: messages of the session's history

ASSUME LimitsAssumption ==
  /\ Window \in Nat /\ BreakAt \in Nat \ {0} /\ MaxIterations \in Nat \ {0}
  /\ MaxHistory \in Nat /\ MaxPast \in Nat
ASSUME CallsAssumption == CallsOf \in [Signatures -> Nat \ {0}]

VARIABLES
  messages,   \* the transcript
  sent,       \* history: what the provider was sent last
  phase,      \* where the loop is
  iteration,  \* its counter, from 1
  running,    \* how many calls of this iteration have been executed
  recent,     \* _recent_tool_hashes
  counts,     \* _tool_call_counts
  executed,   \* history: the signatures executed, in their order
  outcome     \* how the turn ended

turnVars == <<messages, sent, phase, iteration, running, recent, counts, executed, outcome>>
loopVars == <<iteration, running, recent, counts, executed>>

(***************************************************************************)
(* Roles; "calls" is how many calls an assistant's message makes, "turn"   *)
(* the iteration of it and of its results (call 1, 2, ...), and a user's   *)
(* content is text, or a list when it comes with images.                   *)
(***************************************************************************)
System == [role |-> "system"]
User(isText) == [role |-> "user", text |-> isText]
Says == [role |-> "assistant", turn |-> 0, calls |-> 0]
CallsFor(i, n) == [role |-> "assistant", turn |-> i, calls |-> n]
Result(i, k) == [role |-> "tool", turn |-> i, call |-> k]

Past == UNION {[1..n -> {User(TRUE), Says}] : n \in 0..MaxPast}

(* build_messages: the system prompt, the history, the message at hand. *)
TurnInit ==
  /\ \E past \in Past, isText \in BOOLEAN : messages = <<System>> \o past \o <<User(isText)>>
  /\ sent = <<>>
  /\ phase = "prepare"
  /\ iteration = 1
  /\ running = 0
  /\ recent = <<>>
  /\ counts = [s \in Signatures |-> 0]
  /\ executed = <<>>
  /\ outcome = "none"

-----------------------------------------------------------------------------
(* The messages of these roles, in their order. *)
OfRoles(ms, roles) ==
  LET chosen[k \in 0..Len(ms)] ==
        IF k = 0 THEN <<>>
        ELSE IF ms[k].role \in roles THEN Append(chosen[k - 1], ms[k])
        ELSE chosen[k - 1] IN
    chosen[Len(ms)]

SystemOf(ms) == OfRoles(ms, {"system"})
DialogueOf(ms) == OfRoles(ms, {"user", "assistant", "tool"})

(* Not the code: the window begins where it falls. *)
FromAnywhere(ms) == ms

(* Tool results whose call is cut off are skipped. *)
FromNoResult(ms) ==
  LET first == SelectInSeq(ms, LAMBDA m : m.role # "tool") IN
    IF first = 0 THEN <<>> ELSE SubSeq(ms, first, Len(ms))

(* trim_history *)
Trimmed(ms) ==
  LET conversation == DialogueOf(ms)
      window == SubSeq(conversation, Len(conversation) - MaxHistory + 1, Len(conversation)) IN
    IF MaxHistory = 0 \/ Len(conversation) <= MaxHistory THEN ms
    ELSE SystemOf(ms) \o FromNoResult(window)

(* compact_messages: the oldest 40 % become a summary and an acknowledgment. *)
Compacted(ms) ==
  LET conversation == DialogueOf(ms)
      share == (Len(conversation) * 2) \div 5
      cut == IF share > 2 THEN share ELSE 2
      keep == SubSeq(conversation, cut + 1, Len(conversation)) IN
    IF cut >= Len(conversation) THEN ms
    ELSE SystemOf(ms) \o <<User(TRUE), Says>> \o FromNoResult(keep)

(* _validate_transcript, one message after the other. *)
ResultMayFollow(validated) ==
  LET at == SelectLastInSeq(validated, LAMBDA v : v.role # "tool") IN
    at # 0 /\ validated[at].role = "assistant" /\ validated[at].calls > 0

MergesWith(previous, m) ==
  \/ previous.role = "user" /\ m.role = "user" /\ previous.text /\ m.text
  \/ /\ previous.role = "assistant" /\ m.role = "assistant"
     /\ previous.calls = 0 /\ m.calls = 0

Accept(validated, m) ==
  IF m.role = "tool" /\ ~ ResultMayFollow(validated) THEN validated
  ELSE IF validated # <<>> /\ MergesWith(Last(validated), m) THEN validated
  ELSE Append(validated, m)

Validated(ms) ==
  LET validated[k \in 0..Len(ms)] ==
        IF k = 0 THEN <<>> ELSE Accept(validated[k - 1], ms[k]) IN
    validated[Len(ms)]

-----------------------------------------------------------------------------
(* needs_compaction holds or not, and the summary may fail. *)
Prepare ==
  /\ phase = "prepare"
  /\ messages' \in {Trimmed(messages), Compacted(Trimmed(messages))}
  /\ sent' = Validated(messages')
  /\ phase' = "ask"
  /\ UNCHANGED <<loopVars, outcome>>

(* ContextOverflowError: compaction is forced, and the model asked once more. *)
Overflow ==
  /\ phase = "ask"
  /\ messages' \in {messages, Compacted(messages)}
  /\ sent' = Validated(messages')
  /\ phase' = "ask again"
  /\ UNCHANGED <<loopVars, outcome>>

Ends(how) ==
  /\ phase' = "ended"
  /\ outcome' = how
  /\ UNCHANGED <<messages, sent>>

Asked == phase \in {"ask", "ask again"}

(***************************************************************************)
(* The request raises what is no overflow, as a stream does that breaks    *)
(* off, or does not fit after the compaction either: process_message       *)
(* reports the error.                                                      *)
(***************************************************************************)
Fails ==
  /\ Asked
  /\ Ends("failed")
  /\ UNCHANGED loopVars

(* A plain answer, complete or cut off by the limit of tokens. *)
Answer ==
  /\ Asked
  /\ \E how \in {"answer", "length"} : Ends(how)
  /\ UNCHANGED loopVars

(* Not the code: the newest signature is forgotten, and not the oldest. *)
ForgetsNewest(s) == IF Len(recent) = Window THEN recent ELSE Append(recent, s)

(* _recent_tool_hashes *)
Remembered(s) ==
  LET all == Append(recent, s) IN IF Len(all) > Window THEN Tail(all) ELSE all

Repeats(s) == Contains(recent, s)

Breaks(s) == counts[s] + 1 >= BreakAt

(* The model calls for tools that it has just called, or too often. *)
Stopped(s) ==
  /\ Asked
  /\ Repeats(s) \/ Breaks(s)
  /\ counts' = [counts EXCEPT ![s] = @ + 1]
  /\ Ends(IF Repeats(s) THEN "repeat" ELSE "breaker")
  /\ UNCHANGED <<iteration, running, recent, executed>>

CallTools(s) ==
  /\ Asked
  /\ ~ Repeats(s) /\ ~ Breaks(s)
  /\ counts' = [counts EXCEPT ![s] = @ + 1]
  /\ recent' = Remembered(s)
  /\ executed' = Append(executed, s)
  /\ messages' = Append(messages, CallsFor(iteration, CallsOf[s]))
  /\ running' = 0
  /\ phase' = "tools"
  /\ UNCHANGED <<sent, iteration, outcome>>

Calls == CallsOf[Last(executed)]

(* registry.execute returns a text in any case; the result is appended. *)
RunTool ==
  /\ phase = "tools"
  /\ running < Calls
  /\ messages' = Append(messages, Result(iteration, running + 1))
  /\ running' = running + 1
  /\ UNCHANGED <<sent, phase, iteration, recent, counts, executed, outcome>>

(* The next iteration, if there is one. *)
NextIteration ==
  /\ phase = "tools"
  /\ running = Calls
  /\ iteration < MaxIterations
  /\ iteration' = iteration + 1
  /\ phase' = "prepare"
  /\ UNCHANGED <<messages, sent, running, recent, counts, executed, outcome>>

LastIteration ==
  /\ phase = "tools"
  /\ running = Calls
  /\ iteration = MaxIterations
  /\ Ends("limit")
  /\ UNCHANGED loopVars

TurnNext ==
  \/ Prepare
  \/ Overflow
  \/ Fails
  \/ Answer
  \/ \E s \in Signatures : Stopped(s) \/ CallTools(s)
  \/ RunTool
  \/ NextIteration
  \/ LastIteration

TurnSpec == TurnInit /\ [][TurnNext]_turnVars

-----------------------------------------------------------------------------
(***************************************************************************)
(* What the model is asked with is a transcript providers accept: every    *)
(* tool result stands behind the message that called for it, in its place, *)
(* and every call has its result, wherever the history is trimmed or cut   *)
(* for a summary, also in the middle of the results of one message.        *)
(* trim_history and compact_messages see to that themselves; dropping      *)
(* orphans in _validate_transcript changes nothing that came from them.    *)
(***************************************************************************)
HasItsCall(ms, i) ==
  LET j == i - ms[i].call IN
    j >= 1 /\ ms[j].role = "assistant" /\ ms[j].turn = ms[i].turn /\ ms[i].call <= ms[j].calls

HasItsResults(ms, i) ==
  i + ms[i].calls <= Len(ms) /\ \A k \in 1..ms[i].calls : ms[i + k] = Result(ms[i].turn, k)

WellFormed(ms) ==
  \A i \in 1..Len(ms) :
    /\ ms[i].role = "tool" => HasItsCall(ms, i)
    /\ ms[i].role = "assistant" => HasItsResults(ms, i)

TranscriptWellFormed == Asked => WellFormed(messages) /\ WellFormed(sent)

(***************************************************************************)
(* No set of tool calls is executed again within the window, nor as often  *)
(* as the circuit breaker allows at most (the two limits of the loop).     *)
(***************************************************************************)
ToolsNotRepeated ==
  /\ \A i, j \in 1..Len(executed) : i < j /\ executed[i] = executed[j] => j - i > Window
  /\ \A s \in Signatures : Cardinality({i \in 1..Len(executed) : executed[i] = s}) < BreakAt
=============================================================================
