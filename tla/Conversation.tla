---------------------------- MODULE Conversation ----------------------------
(***************************************************************************)
(* One chat session of src/openbotx/session/manager.py and everybody who   *)
(* uses it: POST /chat saves the user's message into it, the agent loop    *)
(* reads it, answers into it, clears it (/new) and consolidates it into    *)
(* the long-term memory, the session list deletes it, GET loads it.        *)
(*                                                                         *)
(* A Session is a Python object: the cache of the SessionManager has one,  *)
(* and the agent keeps the one it got for as long as it works on a         *)
(* message.  The lane lets the agent work on one message at a time; a step *)
(* is what runs between two awaits that really suspend.                    *)
(***************************************************************************)
EXTENDS Naturals, Sequences, FiniteSets, SequencesExt

CONSTANTS
  Messages,      \* the messages sent to this session
  MemoryWindow,  \* messages that make a consolidation due
  MaxMessages,   \* max_messages of get_history, 500 for every caller
  MaxDeletes,    \* bound: deletions of the session
  MaxStops,      \* bound: stops of the server
  NoFile         \* the session has no file

ASSUME MemoryWindowAssumption == MemoryWindow \in Nat \ {0}
ASSUME MaxMessagesAssumption == MaxMessages \in Nat \ {0}

(* A Session: its messages, each a role and the message it is of, and last_consolidated. *)
Entries == [role : {"user", "assistant"}, of : Messages]
Sessions == [messages : Seq(Entries), consolidated : Nat]

ASSUME NoFileAssumption == NoFile \notin Sessions

VARIABLES
  kind,      \* "chat" or "new" (the command /new), fixed at the start
  source,    \* "http" or "channel", fixed at the start
  at,        \* how far each message has come
  lane,      \* the messages published and not yet worked on, in order
  object,    \* the contents of the Session objects
  cached,    \* the object in SessionManager._cache, 0 if none
  held,      \* the object the agent has, 0 if none
  disk,      \* what is in the session's file
  agent,     \* where the agent is in process_message
  current,   \* the message it works on
  history,   \* what the model was given besides the current message
  total,     \* total of _check_consolidation
  memory,    \* what memory_save was ever called for
  deletes, stops,
  cut        \* history: a stop cut the session's file short

sessionVars == <<object, cached, held, disk>>
workVars == <<agent, current, history, total, memory>>
vars == <<kind, source, at, lane, sessionVars, workVars, deletes, stops, cut>>

(* The cache and the agent refer to at most two objects. *)
Objects == {1, 2}

(* A Session as it is created. *)
EmptySession == [messages |-> <<>>, consolidated |-> 0]

(***************************************************************************)
(* agent is "idle", or in process_message:                                 *)
(* "starting": the task becomes DOING.  "reading": the media are resolved. *)
(* "noting": the message was saved.  "thinking": the model works.          *)
(* "replying": the reply was saved.  "clearing": the session was cleared.  *)
(* "summarising", "marking": in _check_consolidation, before and after     *)
(* memory_save.                                                            *)
(***************************************************************************)

Init ==
  /\ kind \in [Messages -> {"chat", "new"}]
  /\ source \in [Messages -> {"http", "channel"}]
  /\ at = [m \in Messages |-> "unsent"]
  /\ lane = <<>>
  /\ object = [o \in Objects |-> EmptySession]
  /\ cached = 0 /\ held = 0
  /\ disk = NoFile
  /\ agent = "idle" /\ current \in Messages
  /\ history = <<>> /\ total = 0 /\ memory = {}
  /\ deletes = 0 /\ stops = 0 /\ cut = FALSE

-----------------------------------------------------------------------------
(* SessionManager *)

(* _load, or a new Session. *)
Loaded == IF disk = NoFile THEN EmptySession ELSE disk

(* Not the code: the file is read each time. *)
NeverHit == FALSE

(* if key in self._cache *)
CacheHit == cached # 0

(* get_or_create: the object it returns, and what that object holds. *)
Got == IF CacheHit THEN cached ELSE CHOOSE o \in Objects : o # held
Held(o) == IF CacheHit THEN object[o] ELSE Loaded

(* Not the code: _write without its last line. *)
CacheAsItWas(o) == IF cached = 0 THEN o ELSE cached

(* self._cache[session.key] = session *)
CacheAfterSave(o) == o

(* save: the object, changed to s before, is written, and cached. *)
Save(o, s) ==
  /\ object' = [object EXCEPT ![o] = s]
  /\ disk' = s
  /\ cached' = CacheAfterSave(o)

With(s, role, m) == [s EXCEPT !.messages = Append(@, [role |-> role, of |-> m])]

(* Session.clear *)
Cleared(s) == EmptySession

(* delete: the file and the cache entry go, whoever has the object keeps it. *)
Delete ==
  /\ deletes < MaxDeletes
  /\ disk # NoFile \/ cached # 0
  /\ disk' = NoFile
  /\ cached' = 0
  /\ deletes' = deletes + 1
  /\ UNCHANGED <<kind, source, at, lane, object, held, workVars, stops, cut>>

(* GET /sessions/{id}, and _route when there are several agents. *)
Read ==
  /\ cached = 0
  /\ cached' = Got
  /\ object' = [object EXCEPT ![Got] = Held(Got)]
  /\ UNCHANGED <<kind, source, at, lane, held, disk, workVars, deletes, stops, cut>>

-----------------------------------------------------------------------------
(* Sending *)

Move(m, from, to) == at[m] = from /\ at' = [at EXCEPT ![m] = to]

(* POST /chat: the message is saved in the session, then published. *)
SaveSent(m) ==
  /\ source[m] = "http"
  /\ Move(m, "unsent", "saved")
  /\ Save(Got, With(Held(Got), "user", m))
  /\ UNCHANGED <<kind, source, lane, held, workVars, deletes, stops, cut>>

Publish(m) ==
  /\ IF source[m] = "http" THEN Move(m, "saved", "sent") ELSE Move(m, "unsent", "sent")
  /\ lane' = Append(lane, m)
  /\ UNCHANGED <<kind, source, sessionVars, workVars, deletes, stops, cut>>

-----------------------------------------------------------------------------
(* AgentLoop.process_message, one message at a time *)

(* The lane's next message; its task is moved to DOING. *)
Begin ==
  /\ agent = "idle" /\ lane # <<>>
  /\ current' = Head(lane)
  /\ lane' = Tail(lane)
  /\ agent' = "starting"
  /\ UNCHANGED <<kind, source, at, sessionVars, history, total, memory, deletes, stops, cut>>

(* The session is got; /new clears it at once. *)
Open ==
  /\ agent = "starting"
  /\ held' = Got
  /\ IF kind[current] = "new"
     THEN Save(Got, Cleared(Held(Got))) /\ agent' = "clearing"
     ELSE /\ agent' = "reading"
          /\ cached' = Got
          /\ object' = [object EXCEPT ![Got] = Held(Got)]
          /\ UNCHANGED disk
  /\ UNCHANGED <<kind, source, at, lane, current, history, total, memory, deletes, stops, cut>>

(* Without message_saved the agent saves the user's message. *)
Note ==
  /\ agent = "reading" /\ source[current] # "http"
  /\ Save(held, With(object[held], "user", current))
  /\ agent' = "noting"
  /\ UNCHANGED <<kind, source, at, lane, held, current, history, total, memory, deletes, stops, cut>>

(* get_history: the last max_messages of a session's messages. *)
Recent(s) == SubSeq(s, IF Len(s) > MaxMessages THEN Len(s) - MaxMessages + 1 ELSE 1, Len(s))

(* Not the code: the last entry is always dropped. *)
DropsLast(s) == IF s # <<>> THEN Front(s) ELSE s

(* The last entry is taken for the current message if it is a user's. *)
HistoryFor(s) == IF s # <<>> /\ Last(s).role = "user" THEN Front(s) ELSE s

(* The model is called with the history and the current message. *)
Ask ==
  /\ agent = "noting" \/ (agent = "reading" /\ source[current] = "http")
  /\ history' = HistoryFor(Recent(object[held].messages))
  /\ agent' = "thinking"
  /\ UNCHANGED <<kind, source, at, lane, sessionVars, current, total, memory, deletes, stops, cut>>

(* The answer, or the error in its place, is saved. *)
Reply ==
  /\ agent = "thinking"
  /\ Save(held, With(object[held], "assistant", current))
  /\ agent' = "replying"
  /\ UNCHANGED <<kind, source, at, lane, held, current, history, total, memory, deletes, stops, cut>>

(* _check_consolidation: it is due, the model is called to summarise. *)
Consolidate ==
  /\ agent = "replying"
  /\ Len(object[held].messages) - object[held].consolidated >= MemoryWindow
  /\ total' = Len(object[held].messages)
  /\ agent' = "summarising"
  /\ UNCHANGED <<kind, source, at, lane, sessionVars, current, history, memory, deletes, stops, cut>>

(* The model calls memory_save for what it was given. *)
Summarise ==
  /\ agent = "summarising"
  /\ memory' = memory \cup
       ToSet(SubSeq(object[held].messages, object[held].consolidated + 1, total))
  /\ agent' = "marking"
  /\ UNCHANGED <<kind, source, at, lane, sessionVars, current, history, total, deletes, stops, cut>>

(* Not the code: the messages are counted when the model has answered. *)
CountedAfter == Len(object[held].messages)

(* The count from before the calls of the model. *)
CountedBefore == total

(* mark_consolidated, and the session is saved. *)
Mark ==
  /\ agent = "marking"
  /\ Save(held, [object[held] EXCEPT !.consolidated = CountedBefore])
  /\ agent' = "idle" /\ held' = 0
  /\ history' = <<>> /\ total' = 0
  /\ at' = [at EXCEPT ![current] = "over"]
  /\ UNCHANGED <<kind, source, lane, current, memory, deletes, stops, cut>>

(***************************************************************************)
(* process_message returns: after /new, after an error, when nothing is    *)
(* due to be consolidated, and when the model did not call memory_save or  *)
(* raised, also after it had called it.                                    *)
(***************************************************************************)
End ==
  /\ agent \in {"clearing", "replying", "summarising", "marking"}
  /\ agent' = "idle" /\ held' = 0
  /\ history' = <<>> /\ total' = 0
  /\ at' = [at EXCEPT ![current] = "over"]
  /\ UNCHANGED <<kind, source, lane, object, cached, disk, current, memory, deletes, stops, cut>>

(* The process ends and is started again. *)
Restart ==
  /\ stops < MaxStops
  /\ stops' = stops + 1
  /\ cached' = 0 /\ held' = 0
  /\ agent' = "idle" /\ history' = <<>> /\ total' = 0
  /\ lane' = <<>>
  /\ at' = [m \in Messages |-> IF at[m] = "unsent" THEN "unsent" ELSE "over"]
  /\ UNCHANGED <<kind, source, object, current, memory, deletes>>

(* The file and the memory are left. *)
Stop == Restart /\ UNCHANGED <<disk, cut>>

(***************************************************************************)
(* What a stop within _write leaves of s: the file without its last lines. *)
(* If a line is cut, or there is none, _load makes an empty session of it. *)
(***************************************************************************)
Cuts(s) ==
  {EmptySession} \cup
    {[s EXCEPT !.messages = SubSeq(@, 1, k)] : k \in 0 .. Len(s.messages) - 1}

(* The step before this one may have been a save. *)
Saving == agent \in {"noting", "replying", "clearing"} \/ \E m \in Messages : at[m] = "saved"

(* A stop within that save, or within the one that a consolidation ends with. *)
StopSaving ==
  /\ Restart
  /\ \/ Saving /\ disk # NoFile /\ disk' \in Cuts(disk)
     \/ agent = "marking" /\ disk' \in Cuts([object[held] EXCEPT !.consolidated = CountedBefore])
  /\ cut' = TRUE

Next ==
  \/ Delete \/ Read \/ Stop \/ StopSaving
  \/ \E m \in Messages : SaveSent(m) \/ Publish(m)
  \/ Begin \/ Open \/ Note \/ Ask \/ Reply \/ Consolidate \/ Summarise \/ Mark \/ End

Spec == Init /\ [][Next]_vars

-----------------------------------------------------------------------------
(* Properties *)

(***************************************************************************)
(* A page refresh and a restart show the same conversation: the cached     *)
(* object is what the file holds, also after a session was deleted under   *)
(* the agent, loaded anew by another request and saved again.              *)
(***************************************************************************)
CacheIsDisk == cached # 0 => object[cached] = Loaded

(***************************************************************************)
(* Messages on record are not lost: the file only grows, but for /new, for *)
(* a deletion, for the agent saving a session that was deleted under it,   *)
(* and for a stop within a save.  Two requests and the agent write through *)
(* one object.                                                             *)
(***************************************************************************)
RecordGrows ==
  [][\/ disk = NoFile
     \/ Delete
     \/ Open /\ kind[current] = "new"
     \/ held # 0 /\ held # cached /\ deletes > 0
     \/ StopSaving
     \/ disk' # NoFile /\ IsPrefix(disk.messages, disk'.messages)]_vars

(***************************************************************************)
(* Memory has no gap: the messages that a session counts as consolidated,  *)
(* and will never look at again, were summarised, although others can be   *)
(* added while the model summarises.  A file that was cut keeps the count  *)
(* of the longer one, and has what is written next skipped.                *)
(***************************************************************************)
NothingSkipped ==
  cut \/ \A s \in {object[o] : o \in {cached, held} \ {0}} \cup ({disk} \ {NoFile}) :
    \A k \in 1 .. s.consolidated : s.messages[k] \in memory

(***************************************************************************)
(* The model sees the exchanges there were: when the current message is    *)
(* left out of the history, no answer and no question that was answered    *)
(* goes with it, whoever wrote into the session since it was saved.  The   *)
(* exception is the cap of get_history: of a longer session the model sees *)
(* what is among the last max_messages, the current question counted.      *)
(***************************************************************************)
ContextComplete ==
  agent = "thinking" =>
    LET s == object[held].messages IN
      \A i \in DOMAIN s :
        [role |-> "assistant", of |-> s[i].of] \in ToSet(s) =>
          s[i] \in ToSet(history) \/ Len(s) - i >= MaxMessages

(* "The user message is already in session history, so exclude it": the model is given it once. *)
QuestionNotRepeated == [role |-> "user", of |-> current] \notin ToSet(history)
=============================================================================
