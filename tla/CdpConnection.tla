--------------------------- MODULE CdpConnection ---------------------------
(***************************************************************************)
(* The Chrome DevTools client of src/openbotx/cdp/connection.py: one       *)
(* websocket, one reader task, and on it the root session (CDPConnection)  *)
(* with one CDPSession per attached tab.  Every session numbers its        *)
(* commands from its own counter and keeps a table of those it waits for;  *)
(* the reader finds the session by sessionId and the command by its id.    *)
(*                                                                         *)
(* A caller waits for one command at a time.  A command is a record of its *)
(* owner (the session), its id there, who waits for it and its kind: only  *)
(* the answer to an "attach" carries something, a new session.  Chrome is  *)
(* external: it may answer in any order, with a result or an error, drop a *)
(* session, or die.                                                        *)
(***************************************************************************)
EXTENDS Naturals, FiniteSets

CONSTANTS
  Callers,      \* tasks that execute commands
  MaxSessions   \* bound: sessions Chrome hands out

ASSUME MaxSessionsAssumption == MaxSessions \in Nat

VARIABLES
  alive,     \* Chrome runs and holds its end of the websocket
  wsOpen,    \* not _ws.closed
  reading,   \* the task of _run
  current,   \* sessions made on the websocket there is now
  attached,  \* those Chrome knows
  sessions,  \* CDPConnection._sessions
  opened,    \* how many sessions Chrome has handed out
  count,     \* per session: _id_iter
  inflight,  \* the entries of every session's _inflight_cmd
  sent,      \* commands Chrome holds and answers sooner or later, or not
  cmd,       \* per caller: the command it sent last
  future,    \* per caller: the state of that command's future
  got,       \* history: the command whose answer set the future
  granted    \* per caller: the session an answer to its "attach" carried

connVars == <<alive, wsOpen, reading, current, attached, sessions, opened,
              count, inflight, sent, cmd, future, got, granted>>
linkVars == <<alive, wsOpen, reading, current, attached, sessions, opened>>

Root == 0
Sessions == 1..MaxSessions
Owners == {Root} \union Sessions
Kinds == {"create", "attach", "act"}
Command == [owner : Owners, id : Nat, by : Callers, kind : Kinds]

(* "closed": CDPSessionClosed or CDPConnectionClosed; "error": CDPBrowserError. *)
Futures == {"none", "pending", "cancelled", "result", "error", "closed"}

(* Before its first command. *)
NoCommand(c) == [owner |-> Root, id |-> 0, by |-> c, kind |-> "act"]

ConnInit ==
  /\ alive = FALSE
  /\ wsOpen = FALSE
  /\ reading = FALSE
  /\ current = {}
  /\ attached = {}
  /\ sessions = {}
  /\ opened = 0
  /\ count = [o \in Owners |-> 0]
  /\ inflight = {}
  /\ sent = {}
  /\ cmd = [c \in Callers |-> NoCommand(c)]
  /\ future = [c \in Callers |-> "none"]
  /\ got = [c \in Callers |-> NoCommand(c)]
  /\ granted = [c \in Callers |-> Root]

-----------------------------------------------------------------------------
(* A caller has nothing under way. *)
Free(c) == future[c] \notin {"pending", "cancelled"}

(* The websocket a session writes to: a tab of an earlier one keeps that. *)
Writable(o) == wsOpen /\ (o = Root \/ o \in current)

(* cmd_id = next(self._id_iter) *)
NextId(o) == count[o]

(***************************************************************************)
(* execute: the command is entered in the table and written.  Chrome reads *)
(* it unless it is dying or no longer knows the session.                   *)
(***************************************************************************)
Execute(c, o, kind) ==
  LET new == [owner |-> o, id |-> NextId(o), by |-> c, kind |-> kind] IN
  /\ Free(c)
  /\ Writable(o)
  /\ cmd' = [cmd EXCEPT ![c] = new]
  /\ count' = [count EXCEPT ![o] = @ + 1]
  /\ inflight' = inflight \union {new}
  /\ sent' = IF alive /\ (o = Root \/ o \in attached) THEN sent \union {new} ELSE sent
  /\ future' = [future EXCEPT ![c] = "pending"]
  /\ UNCHANGED <<linkVars, got, granted>>

(* execute has returned or raised. *)
Forgets(c) ==
  /\ future' = [future EXCEPT ![c] = "none"]
  /\ cmd' = [cmd EXCEPT ![c] = NoCommand(c)]
  /\ got' = [got EXCEPT ![c] = NoCommand(c)]
  /\ granted' = [granted EXCEPT ![c] = Root]

(* execute: ConnectionResetError from the websocket; the entry is deleted. *)
ExecuteFails(c, o) ==
  /\ Free(c)
  /\ ~ (alive /\ Writable(o))
  /\ count' = [count EXCEPT ![o] = @ + 1]
  /\ Forgets(c)
  /\ UNCHANGED <<linkVars, inflight, sent>>

(* Not the code: the table of whichever session is found. *)
EntryOfAny(q) == {e \in inflight : e.id = q.id}

(* Answers of unknown sessions and to unknown ids find nothing. *)
Entry(q) ==
  {e \in inflight : e.owner = q.owner /\ e.id = q.id /\ e.owner \in {Root} \union sessions}

(* Chrome attaches to a target: the answer carries a new session. *)
Grants(q, outcome) == q.kind = "attach" /\ outcome = "result"

(***************************************************************************)
(* _handle_cmd_response: the entry is popped and its future settled.  When *)
(* the future was cancelled in the same turn of the event loop, settling   *)
(* it raises InvalidStateError, which ends the reader; the websocket stays *)
(* open.                                                                   *)
(***************************************************************************)
Answer(q, outcome) ==
  /\ reading
  /\ q \in sent
  /\ sent' = sent \ {q}
  /\ Grants(q, outcome) => opened < MaxSessions
  /\ LET grants == Grants(q, outcome)
         settled == {e \in Entry(q) : future[e.by] = "pending"}
         touched == {e.by : e \in settled} IN
       /\ inflight' = inflight \ Entry(q)
       /\ future' = [c \in Callers |-> IF c \in touched THEN outcome ELSE future[c]]
       /\ got' = [c \in Callers |-> IF c \in touched THEN q ELSE got[c]]
       /\ reading' = (Entry(q) = settled)
       /\ opened' = IF grants THEN opened + 1 ELSE opened
       /\ attached' = IF grants /\ alive THEN attached \union {opened + 1} ELSE attached
       /\ granted' = [c \in Callers |-> IF grants /\ c \in touched THEN opened + 1 ELSE granted[c]]
  /\ UNCHANGED <<alive, wsOpen, current, sessions, count, cmd>>

(* connect_session, after its execute: the session is made and registered. *)
Register(c) ==
  /\ future[c] = "result"
  /\ cmd[c].kind = "attach"
  /\ granted[c] \in Sessions
  /\ current' = current \union {granted[c]}
  /\ sessions' = sessions \union {granted[c]}
  /\ Forgets(c)
  /\ UNCHANGED <<alive, wsOpen, reading, attached, opened, count, inflight, sent>>

(* execute returns or raises what the future holds. *)
Return(c) ==
  /\ future[c] \in {"result", "error", "closed"}
  /\ Forgets(c)
  /\ UNCHANGED <<linkVars, count, inflight, sent>>

(* A timeout, or the caller's own cancellation, cancels the future ... *)
Cancel(c) ==
  /\ future[c] = "pending"
  /\ future' = [future EXCEPT ![c] = "cancelled"]
  /\ UNCHANGED <<linkVars, count, inflight, sent, cmd, got, granted>>

(* ... and the caller removes the entry when it runs next. *)
Unwind(c) ==
  /\ future[c] = "cancelled"
  /\ Forgets(c)
  /\ inflight' = inflight \ {cmd[c]}
  /\ UNCHANGED <<linkVars, count, sent>>

(* CDPSession.close of every session of a set. *)
FutureAfterClosing(closing) ==
  [c \in Callers |->
     IF future[c] = "pending" /\ (\E e \in inflight : e.by = c /\ e.owner \in closing)
     THEN "closed" ELSE future[c]]

InflightAfterClosing(closing) == {e \in inflight : e.owner \notin closing}

(***************************************************************************)
(* DetachedFromTarget or TargetDestroyed: Chrome has dropped the session.  *)
(* One that is not registered yet (its answer and this event came          *)
(* together) is not closed, and is registered afterwards all the same.     *)
(***************************************************************************)
Detach(s) ==
  /\ reading
  /\ s \in attached
  /\ attached' = attached \ {s}
  /\ sessions' = sessions \ {s}
  /\ sent' = {q \in sent : q.owner # s}
  /\ future' = FutureAfterClosing({s} \intersect sessions)
  /\ inflight' = InflightAfterClosing({s} \intersect sessions)
  /\ UNCHANGED <<alive, wsOpen, reading, current, opened, count, cmd, got, granted>>

(* Chrome dies; the answers it wrote before may still be read. *)
Dies ==
  /\ alive
  /\ alive' = FALSE
  /\ attached' = {}
  /\ UNCHANGED <<wsOpen, reading, current, sessions, opened, count, inflight, sent,
                 cmd, future, got, granted>>

(* _run returns at the end of the stream: nobody is told. *)
ReaderEnds ==
  /\ reading
  /\ ~ alive
  /\ reading' = FALSE
  /\ wsOpen' = FALSE
  /\ sent' = {}
  /\ UNCHANGED <<alive, current, attached, sessions, opened, count, inflight,
                 cmd, future, got, granted>>

(* The last connection is forgotten and the launcher has started a Chrome. *)
Launch ==
  /\ ~ wsOpen
  /\ alive' = TRUE
  /\ sessions' = {}
  /\ UNCHANGED <<wsOpen, reading, current, attached, opened, count, inflight,
                 sent, cmd, future, got, granted>>

(* connect_cdp: a new CDPConnection, with its own counter and tables. *)
Connect ==
  /\ alive
  /\ wsOpen' = TRUE
  /\ reading' = TRUE
  /\ current' = {}
  /\ attached' = {}
  /\ sessions' = {}
  /\ sent' = {}
  /\ count' = [count EXCEPT ![Root] = 0]
  /\ inflight' = InflightAfterClosing({Root})
  /\ UNCHANGED <<alive, opened, cmd, future, got, granted>>

(* CDPConnection._close, of an open websocket or a closed one: the reader  *)
(* is cancelled and the sessions closed; what waits on the root session is *)
(* not told.  Without a connection there is nothing to close.              *)
CloseConnection ==
  /\ wsOpen' = FALSE
  /\ reading' = FALSE
  /\ attached' = {}
  /\ sessions' = {}
  /\ sent' = {}
  /\ future' = FutureAfterClosing(sessions)
  /\ inflight' = InflightAfterClosing(sessions)
  /\ UNCHANGED <<alive, current, opened, count, cmd, got, granted>>

Reads ==
  \/ \E q \in sent, outcome \in {"result", "error"} : Answer(q, outcome)
  \/ \E s \in attached : Detach(s)
  \/ ReaderEnds

Calls(c) ==
  \/ \E o \in Owners, kind \in Kinds : Execute(c, o, kind)
  \/ \E o \in Owners : ExecuteFails(c, o)
  \/ Register(c)
  \/ Return(c)
  \/ Cancel(c)
  \/ Unwind(c)

ConnNext ==
  \/ Reads
  \/ \E c \in Callers : Calls(c)
  \/ Dies
  \/ Launch
  \/ Connect
  \/ CloseConnection

ConnSpec == ConnInit /\ [][ConnNext]_connVars

-----------------------------------------------------------------------------
(* Types; only a caller that is waiting has an entry in a table. *)
ConnTypeOK ==
  /\ alive \in BOOLEAN /\ wsOpen \in BOOLEAN /\ reading \in BOOLEAN
  /\ opened \in 0..MaxSessions
  /\ current \subseteq Sessions /\ attached \subseteq Sessions /\ sessions \subseteq Sessions
  /\ count \in [Owners -> Nat]
  /\ inflight \subseteq Command /\ sent \subseteq Command
  /\ cmd \in [Callers -> Command] /\ got \in [Callers -> Command]
  /\ future \in [Callers -> Futures]
  /\ granted \in [Callers -> Owners]
  /\ \A e \in inflight : ~ Free(e.by) /\ e = cmd[e.by]

(***************************************************************************)
(* A result is the answer to the command its caller waits for: never to    *)
(* the command of another session that has the same id, nor to one the     *)
(* caller gave up (execute, _run, _handle_cmd_response).                   *)
(***************************************************************************)
AnswersMatch ==
  \A c \in Callers : future[c] \in {"result", "error"} => got[c] = cmd[c]
=============================================================================
