------------------------------ MODULE LiveView ------------------------------
(***************************************************************************)
(* What one browser shows of the conversations: the chat store of          *)
(* web_client/src/stores/chat.js, which merges histories loaded over HTTP  *)
(* with events from the websocket (stores/websocket.js), and what of the   *)
(* server they come from: POST and GET of routes/chat.py, process_message  *)
(* of agent/loop.py and the outbound dispatcher of channels/manager.py.    *)
(*                                                                         *)
(* A turn is a question and its reply.  Events reach the browser in their  *)
(* order; an HTTP response is computed and lands at any time.  What the    *)
(* agent shows while it works (streamed text, tools) is one event, a       *)
(* "tool"; media, sessions that are deleted and the question /new, which   *)
(* clears one, are left out.                                               *)
(***************************************************************************)
EXTENDS Naturals, Sequences, SequencesExt

CONSTANTS
  Turns,
  Sessions,     \* session keys
  WebSessions,  \* those of the channel "web"
  Home,         \* the session the browser begins with
  MaxMessages,  \* of a history: 500
  MaxLoads,     \* bound: histories that are asked for
  MaxDrops      \* bound: times the websocket is lost

ASSUME SessionsAssumption == WebSessions \subseteq Sessions /\ Home \in WebSessions
ASSUME MaxMessagesAssumption == MaxMessages \in Nat \ {0}
ASSUME BoundsAssumption == MaxLoads \in Nat /\ MaxDrops \in Nat
ASSUME TurnsAssumption == "thinking" \notin Turns

VARIABLES
  \* fixed at the start
  session,    \* the session of each turn
  local,      \* asked in this browser, or coming from a channel
  help,       \* the turns whose question is /help
  \* the server
  at,         \* how far each turn is
  lane,       \* per session: the turns that wait for the agent
  record,     \* per session: its messages
  live,       \* per session: live_state, as the turns whose tools it lists
  outbound,   \* the outbound queue
  \* the websocket
  connected,
  events,     \* on their way to the browser
  drops,      \* how often it was lost
  \* the chat store
  current,    \* currentSessionId
  view,       \* messages
  cache,      \* _liveCache, per session
  shown,      \* liveMessage
  token,      \* _loadToken
  loads,      \* calls of loadHistory that wait for their response
  \* history
  known,      \* messages the browser has sent or been told of
  overtaken,  \* those of them the last load was too old for
  wiped,      \* those of them on no record, when the last load came
  unloaded    \* the view is not of the current session's own load

serverVars == <<at, lane, record, live, outbound>>
linkVars == <<connected, events, drops>>
storeVars == <<current, view, cache, shown, token, loads>>
historyVars == <<known, overtaken, wiped, unloaded>>
vars == <<session, local, help, serverVars, linkVars, storeVars, historyVars>>

(***************************************************************************)
(* "posting": POST /chat is on its way.  "begun" to "worked": in the       *)
(* agent.  "replied": the reply is on the outbound queue.                  *)
(***************************************************************************)
InAgent == {"begun", "working", "using", "worked"}

(* A live message: the agent thinks, and has used the tools of these turns. *)
NoLive == {}
Thinking == {"thinking"}

(* A message shown or recorded; tagged if it carries its task_id. *)
Question(t) == [turn |-> t, role |-> "user", tagged |-> FALSE]
Reply(t, tagged) == [turn |-> t, role |-> "assistant", tagged |-> tagged]

(* Not the code's: "recorded", what was on record when the answer was computed. *)
Load == [token : 1..MaxLoads, session : Sessions, answered : BOOLEAN,
         data : Seq([turn : Turns, role : {"user", "assistant"}, tagged : BOOLEAN]),
         live : SUBSET Turns,
         recorded : SUBSET [turn : Turns, role : {"user", "assistant"}]]

Init ==
  /\ session \in [Turns -> Sessions]
  /\ local \in [Turns -> BOOLEAN]
  /\ \A t \in Turns : local[t] \/ session[t] \notin WebSessions
  /\ help \in SUBSET Turns
  /\ at = [t \in Turns |-> "new"]
  /\ lane = [s \in Sessions |-> <<>>]
  /\ record = [s \in Sessions |-> <<>>]
  /\ live = [s \in Sessions |-> {}]
  /\ outbound = <<>>
  /\ connected = TRUE
  /\ events = <<>>
  /\ drops = 0
  /\ current = Home
  /\ view = <<>>
  /\ cache = [s \in Sessions |-> NoLive]
  /\ shown = NoLive
  /\ token = 0
  /\ loads = {}
  /\ known = {}
  /\ overtaken = {}
  /\ wiped = {}
  /\ unloaded = FALSE

-----------------------------------------------------------------------------
Move(t, from, to) == at[t] \in from /\ at' = [at EXCEPT ![t] = to]

(* A message, wherever it is shown or recorded. *)
Key(t, role) == [turn |-> t, role |-> role]

Of(messages) == {Key(m.turn, m.role) : m \in ToSet(messages)}

Record(t, message) == record' = [record EXCEPT ![session[t]] = Append(@, message)]

(* WebSocketManager.broadcast, as this browser sees it. *)
Broadcast(kind, t) ==
  events' = IF connected THEN Append(events, [kind |-> kind, turn |-> t]) ELSE events

(* _ensureLive *)
Ensured(s) == cache[s] \union Thinking

(* sendMessage: the question is shown before it is sent. *)
Send(t) ==
  /\ local[t]
  /\ session[t] = current
  /\ Move(t, {"new"}, "posting")
  /\ view' = Append(view, Question(t))
  /\ cache' = [cache EXCEPT ![current] = Ensured(current)]
  /\ shown' = cache'[current]
  /\ known' = known \union {Key(t, "user")}
  /\ UNCHANGED <<session, local, help, lane, record, live, outbound, linkVars, current, token, loads,
                 overtaken, wiped, unloaded>>

(* send_message: it is saved and published. *)
Post(t) ==
  /\ Move(t, {"posting"}, "queued")
  /\ Record(t, Question(t))
  /\ lane' = [lane EXCEPT ![session[t]] = Append(@, t)]
  /\ UNCHANGED <<session, local, help, live, outbound, linkVars, storeVars, historyVars>>

(* The request does not reach the server; sendMessage takes it back. *)
PostFails(t) ==
  /\ Move(t, {"posting"}, "failed")
  /\ view' = RemoveFirst(view, Question(t))
  /\ cache' = [cache EXCEPT ![session[t]] = NoLive]
  /\ shown' = IF session[t] = current THEN NoLive ELSE shown
  /\ known' = known \ {Key(t, "user")}
  /\ overtaken' = overtaken \ {Key(t, "user")}
  /\ UNCHANGED <<session, local, help, lane, record, live, outbound, linkVars, current, token, loads, wiped,
                 unloaded>>

(* A message of a channel is published. *)
Arrive(t) ==
  /\ ~ local[t]
  /\ Move(t, {"new"}, "queued")
  /\ lane' = [lane EXCEPT ![session[t]] = Append(@, t)]
  /\ UNCHANGED <<session, local, help, record, live, outbound, linkVars, storeVars, historyVars>>

(***************************************************************************)
(* process_message, one per session: a question that is not of the channel *)
(* "web" is broadcast ...                                                  *)
(***************************************************************************)
Begin(t) ==
  LET s == session[t] IN
  /\ lane[s] # <<>> /\ Head(lane[s]) = t
  /\ \A u \in Turns : session[u] = s => at[u] \notin InAgent
  /\ Move(t, {"queued"}, "begun")
  /\ lane' = [lane EXCEPT ![s] = Tail(@)]
  /\ IF s \in WebSessions THEN UNCHANGED events ELSE Broadcast("question", t)
  /\ UNCHANGED <<session, local, help, record, live, outbound, connected, drops, storeVars, historyVars>>

(***************************************************************************)
(* ... /help is answered at once: neither this question, if it is not yet  *)
(* saved, nor the reply is put on record ...                               *)
(***************************************************************************)
Help(t) ==
  /\ t \in help
  /\ Move(t, {"begun"}, "replied")
  /\ live' = [live EXCEPT ![session[t]] = {}]
  /\ outbound' = Append(outbound, t)
  /\ UNCHANGED <<session, local, help, lane, record, linkVars, storeVars, historyVars>>

(* ... and another one is saved, unless the request did it (message_saved). *)
Work(t) ==
  /\ t \notin help
  /\ Move(t, {"begun"}, "working")
  /\ live' = [live EXCEPT ![session[t]] = {}]
  /\ IF local[t] THEN UNCHANGED record ELSE Record(t, Question(t))
  /\ UNCHANGED <<session, local, help, lane, outbound, linkVars, storeVars, historyVars>>

(* _run_agent_loop: a tool is broadcast ... *)
UseTool(t) ==
  /\ Move(t, {"working"}, "using")
  /\ Broadcast("tool", t)
  /\ UNCHANGED <<session, local, help, lane, record, live, outbound, connected, drops, storeVars,
                 historyVars>>

(* ... and then noted in live_state. *)
NoteTool(t) ==
  /\ Move(t, {"using"}, "worked")
  /\ live' = [live EXCEPT ![session[t]] = @ \union {t}]
  /\ UNCHANGED <<session, local, help, lane, record, outbound, linkVars, storeVars, historyVars>>

(* The reply is saved, and published; history entries carry no task_id. *)
Answer(t) ==
  /\ Move(t, {"working", "worked"}, "replied")
  /\ live' = [live EXCEPT ![session[t]] = {}]
  /\ Record(t, Reply(t, FALSE))
  /\ outbound' = Append(outbound, t)
  /\ UNCHANGED <<session, local, help, lane, linkVars, storeVars, historyVars>>

(* _route_message *)
Deliver ==
  /\ outbound # <<>>
  /\ Move(Head(outbound), {"replied"}, "ended")
  /\ outbound' = Tail(outbound)
  /\ Broadcast("reply", Head(outbound))
  /\ UNCHANGED <<session, local, help, lane, record, live, connected, drops, storeVars, historyVars>>

-----------------------------------------------------------------------------
(* Not the code: every event is of the current session. *)
AnySession(s) == TRUE

(***************************************************************************)
(* _isCurrent.  It and _liveCache go by the chat id, without the channel:  *)
(* the chat ids of two sessions differ (a uuid, a Telegram number, a name  *)
(* of the code's own).                                                     *)
(***************************************************************************)
IsCurrent(s) == s = current

Receive(kind) ==
  /\ events # <<>>
  /\ Head(events).kind = kind
  /\ events' = Tail(events)
  /\ UNCHANGED <<session, local, help, serverVars, connected, drops, current, token, loads, overtaken, wiped,
                 unloaded>>

(* onUserMessage *)
OnUserMessage ==
  /\ Receive("question")
  /\ LET t == Head(events).turn
         s == session[t] IN
       /\ cache' = [cache EXCEPT ![s] = Ensured(s)]
       /\ IF IsCurrent(s)
          THEN view' = Append(view, Question(t)) /\ shown' = cache'[s]
          ELSE UNCHANGED <<view, shown>>
       /\ known' = known \union {Key(t, "user")}

(* onToolUse; onStream, onTyping and onThinking likewise *)
OnToolUse ==
  /\ Receive("tool")
  /\ LET t == Head(events).turn
         s == session[t] IN
       /\ cache' = [cache EXCEPT ![s] = Ensured(s) \union {t}]
       /\ shown' = IF IsCurrent(s) THEN cache'[s] ELSE shown
       /\ UNCHANGED <<view, known>>

(* onMessage: shown, unless a message with its task_id is. *)
OnMessage ==
  /\ Receive("reply")
  /\ LET t == Head(events).turn
         s == session[t] IN
       /\ cache' = [cache EXCEPT ![s] = NoLive]
       /\ IF IsCurrent(s)
          THEN /\ shown' = NoLive
               /\ view' = IF Contains(view, Reply(t, TRUE)) THEN view ELSE Append(view, Reply(t, TRUE))
          ELSE UNCHANGED <<view, shown>>
       /\ known' = known \union {Key(t, "assistant")}

-----------------------------------------------------------------------------
(* ++_loadToken *)
NextToken == token + 1

(* loadHistory, up to its await. *)
AskFor(s) ==
  /\ token < MaxLoads
  /\ token' = token + 1
  /\ current' = s
  /\ loads' = loads \union
       {[token |-> NextToken, session |-> s, answered |-> FALSE, data |-> <<>>, live |-> {},
         recorded |-> {}]}
  /\ UNCHANGED <<view, cache, shown>>

(* switchSession, or the page is opened. *)
Switch(s) ==
  /\ AskFor(s)
  /\ UNCHANGED <<session, local, help, serverVars, linkVars, historyVars>>

(* get_history: the last ones. *)
Recent(messages) ==
  SubSeq(messages, IF Len(messages) > MaxMessages THEN Len(messages) - MaxMessages + 1 ELSE 1, Len(messages))

(* get_session *)
Serve(l) ==
  /\ ~ l.answered
  /\ loads' = (loads \ {l}) \union
       {[l EXCEPT !.answered = TRUE, !.data = Recent(record[l.session]), !.live = live[l.session],
                  !.recorded = Of(record[l.session])]}
  /\ UNCHANGED <<session, local, help, serverVars, linkVars, current, view, cache, shown, token, historyVars>>

(* token === _loadToken *)
Wanted(l) == l.token = token

(* Not the code: the live message is left as it is. *)
LiveKept(l) == [cache |-> cache, shown |-> shown]

(* The client's own live content comes before the server's, which says whether there is any. *)
LiveRestored(l) ==
  CASE l.live = {} ->
         [cache |-> [cache EXCEPT ![l.session] = NoLive], shown |-> NoLive]
    [] l.live # {} /\ cache[l.session] # NoLive ->
         [cache |-> cache, shown |-> cache[l.session]]
    [] OTHER ->
         [cache |-> cache, shown |-> Thinking \union l.live]

(* Not the code's: this message is on record, or will be. *)
OnRecord(m) == m.turn \notin help \/ (m.role = "user" /\ local[m.turn])

(* loadHistory, after its await. *)
Land(l) ==
  /\ l.answered
  /\ Wanted(l)
  /\ loads' = loads \ {l}
  /\ view' = l.data
  /\ cache' = LiveRestored(l).cache
  /\ shown' = LiveRestored(l).shown
  /\ overtaken' = {m \in known : session[m.turn] = l.session /\ OnRecord(m)} \ l.recorded
  /\ wiped' = {m \in known : session[m.turn] = l.session /\ ~ OnRecord(m)}
  /\ unloaded' = (unloaded /\ l.session # current)
  /\ UNCHANGED <<session, local, help, serverVars, linkVars, current, token, known>>

(* A later one was asked for. *)
Discard(l) ==
  /\ l.answered
  /\ ~ Wanted(l)
  /\ loads' = loads \ {l}
  /\ UNCHANGED <<session, local, help, serverVars, linkVars, current, view, cache, shown, token, historyVars>>

(* The request fails, and loadHistory with it. *)
LoadFails(l) ==
  /\ loads' = loads \ {l}
  /\ unloaded' = (unloaded \/ Wanted(l))
  /\ UNCHANGED <<session, local, help, serverVars, linkVars, current, view, cache, shown, token, known,
                 overtaken, wiped>>

(* newSession: its key is a new one. *)
NewSession(s) ==
  /\ s \in WebSessions \ {current}
  /\ \A t \in Turns : session[t] = s => at[t] = "new"
  /\ \A l \in loads : l.session # s
  /\ current' = s
  /\ view' = <<>>
  /\ shown' = NoLive
  /\ overtaken' = {}
  /\ wiped' = {}
  /\ unloaded' = (\E l \in loads : Wanted(l))
  /\ UNCHANGED <<session, local, help, serverVars, linkVars, cache, token, loads, known>>

-----------------------------------------------------------------------------
(* What was on its way is lost. *)
Disconnect ==
  /\ connected
  /\ drops < MaxDrops
  /\ drops' = drops + 1
  /\ connected' = FALSE
  /\ events' = <<>>
  /\ UNCHANGED <<session, local, help, serverVars, storeVars, historyVars>>

(* Not the code: after a reconnect the client waits for new events. *)
NoSync == UNCHANGED storeVars

(* syncAfterReconnect *)
SyncAfterReconnect == AskFor(current)

(* onopen *)
Reconnect ==
  /\ ~ connected
  /\ connected' = TRUE
  /\ SyncAfterReconnect
  /\ UNCHANGED <<session, local, help, serverVars, events, drops, historyVars>>

Next ==
  \/ \E t \in Turns :
       \/ Send(t) \/ Post(t) \/ PostFails(t) \/ Arrive(t)
       \/ Begin(t) \/ Help(t) \/ Work(t) \/ UseTool(t) \/ NoteTool(t) \/ Answer(t)
  \/ Deliver
  \/ OnUserMessage
  \/ OnToolUse
  \/ OnMessage
  \/ \E s \in Sessions : Switch(s) \/ NewSession(s)
  \/ \E l \in loads : Serve(l) \/ Land(l) \/ Discard(l) \/ LoadFails(l)
  \/ Disconnect
  \/ Reconnect

Spec == Init /\ [][Next]_vars

-----------------------------------------------------------------------------
(***************************************************************************)
(* No message of one session is shown in another once the history that was *)
(* asked for last has come, whatever responses come late (_loadToken,      *)
(* _isCurrent): except that a session begun while a history is on its way  *)
(* gets that history, and that a history that does not come leaves the     *)
(* view as it was.                                                         *)
(***************************************************************************)
ViewIsOfSession ==
  loads = {} /\ ~ unloaded => \A i \in 1..Len(view) : session[view[i].turn] = current

(* All events and histories have come. *)
Settled == connected /\ events = <<>> /\ loads = {} /\ ~ unloaded

(* What is on record, but not among the last that get_history answers. *)
Beyond(messages) == {Key(messages[i].turn, messages[i].role) : i \in 1..(Len(messages) - MaxMessages)}

(***************************************************************************)
(* Whatever the order of events, responses and lost connections, the       *)
(* client ends up showing every question asked in it and every reply that  *)
(* is on record in its session, but for two ways to lose one: a history    *)
(* computed before the message was on record and landing after the browser *)
(* had it (loadHistory replaces what it finds), and MaxMessages later ones *)
(* on record.  The reply to /help is on no record (process_message): lost  *)
(* with the connection it does not come back, but once received it stays   *)
(* until a history is loaded.                                              *)
(***************************************************************************)
NothingMissing ==
  Settled =>
    \A t \in Turns : session[t] = current =>
      LET question == Key(t, "user")
          reply == Key(t, "assistant")
          held == Of(view) \union overtaken \union Beyond(record[current])
      IN /\ at[t] = "ended" /\ t \notin help => reply \in held
         /\ local[t] /\ at[t] \notin {"new", "failed"} => question \in held
         /\ t \in help /\ reply \in known => reply \in Of(view) \union wiped

(***************************************************************************)
(* An agent that has answered is not shown at work: neither a lost event   *)
(* nor a change of sessions leaves a live message behind (onMessage,       *)
(* _clearLive, loadHistory), but for that of a turn whose reply a history  *)
(* overtook.                                                               *)
(***************************************************************************)
Resting(s) == \A t \in Turns : session[t] = s => at[t] \in {"new", "ended", "failed"}

LiveEnds ==
  Settled /\ Resting(current) =>
    shown = NoLive \/ \E t \in shown : Key(t, "assistant") \in overtaken
=============================================================================
