------------------------- MODULE BrowserToolProofs -------------------------
(***************************************************************************)
(* Theorems about BrowserTool and the connection that it extends.  The     *)
(* connection by itself comes first: a step of it is a lemma, for every    *)
(* set of callers and number of sessions.  Then, for every set of requests *)
(* and of tools: the browser tool uses the connection only as              *)
(* CdpConnection says, its two locks exclude, and one launch is under way  *)
(* at a time.                                                              *)
(***************************************************************************)
EXTENDS BrowserTool, FiniteSetTheorems, TLAPS

(* The connection. *)

(* An id is given once: the counter is above those in use. *)
IdsBelowCount == \A e \in inflight \union sent : e.id < count[e.owner]

(* Chrome's answer names one command: what it holds and what is waited for agree. *)
IdsTellApart ==
  \A q \in sent, e \in inflight : q.owner = e.owner /\ q.id = e.id => q = e

ConnInv == ConnTypeOK /\ IdsBelowCount /\ IdsTellApart /\ AnswersMatch

-----------------------------------------------------------------------------
(* The record before a first command is one of a command. *)
LEMMA NoCommandType == ASSUME NEW c \in Callers PROVE NoCommand(c) \in Command
BY MaxSessionsAssumption DEF NoCommand, Command, Owners, Kinds, Root

(* Before a connection nothing is waited for. *)
LEMMA ConnInitInv == ConnInit => ConnInv
<1> SUFFICES ASSUME ConnInit PROVE ConnInv
  OBVIOUS
<1>1. cmd \in [Callers -> Command] /\ got \in [Callers -> Command]
  BY NoCommandType DEF ConnInit
<1>2. count \in [Owners -> Nat] /\ granted \in [Callers -> Owners]
  BY DEF ConnInit, Owners
<1>3. future \in [Callers -> Futures] /\ opened \in 0..MaxSessions
  BY MaxSessionsAssumption DEF ConnInit, Futures
<1>4. ConnTypeOK
  BY <1>1, <1>2, <1>3 DEF ConnInit, ConnTypeOK
<1>5. IdsBelowCount /\ IdsTellApart /\ AnswersMatch
  BY DEF ConnInit, IdsBelowCount, IdsTellApart, AnswersMatch
<1> QED
  BY <1>4, <1>5 DEF ConnInv

(* execute: a new entry under a new id. *)
LEMMA ExecuteInv ==
  ASSUME ConnInv, NEW c \in Callers, NEW o \in Owners, NEW kind \in Kinds, Execute(c, o, kind)
  PROVE ConnInv'
<1> DEFINE new == [owner |-> o, id |-> NextId(o), by |-> c, kind |-> kind]
<1>1. new \in Command /\ new.owner = o /\ new.id = count[o] /\ new.by = c
  BY DEF ConnInv, ConnTypeOK, Command, NextId
<1>2. /\ Free(c) /\ cmd' = [cmd EXCEPT ![c] = new]
      /\ count' = [count EXCEPT ![o] = @ + 1]
      /\ inflight' = inflight \union {new}
      /\ sent' \in {sent, sent \union {new}}
      /\ future' = [future EXCEPT ![c] = "pending"]
      /\ UNCHANGED <<linkVars, got, granted>>
  BY DEF Execute
<1> HIDE DEF new
<1>3. ConnTypeOK'
  <2>1. count' \in [Owners -> Nat]
    BY <1>2 DEF ConnInv, ConnTypeOK
  <2>2. inflight' \subseteq Command /\ sent' \subseteq Command
    BY <1>1, <1>2 DEF ConnInv, ConnTypeOK
  <2>3. cmd' \in [Callers -> Command] /\ future' \in [Callers -> Futures]
    BY <1>1, <1>2 DEF ConnInv, ConnTypeOK, Futures
  <2>4. ASSUME NEW e \in inflight' PROVE ~ Free(e.by)' /\ e = cmd'[e.by]
    <3>1. CASE e = new
      BY <1>1, <1>2, <3>1 DEF ConnInv, ConnTypeOK, Free
    <3>2. CASE e \in inflight
      BY <1>1, <1>2, <3>2 DEF ConnInv, ConnTypeOK, Free, Command
    <3> QED
      BY <1>2, <3>1, <3>2
  <2> QED
    BY <1>2, <2>1, <2>2, <2>3, <2>4 DEF ConnInv, ConnTypeOK, linkVars
<1>4. \A e \in inflight \union sent : e \in Command /\ e.id < count[e.owner]
  BY DEF ConnInv, ConnTypeOK, IdsBelowCount
<1>5. IdsBelowCount'
  <2> SUFFICES ASSUME NEW e \in inflight' \union sent' PROVE e.id < count'[e.owner]
    BY DEF IdsBelowCount
  <2>1. CASE e = new
    BY <1>1, <1>2, <2>1 DEF ConnInv, ConnTypeOK
  <2>2. CASE e \in inflight \union sent
    BY <1>2, <1>4, <2>2 DEF ConnInv, ConnTypeOK, Command
  <2> QED
    BY <1>2, <2>1, <2>2
<1>6. IdsTellApart'
  <2> SUFFICES ASSUME NEW q \in sent', NEW e \in inflight', q.owner = e.owner, q.id = e.id
               PROVE q = e
    BY DEF IdsTellApart
  <2>1. CASE q \in sent /\ e \in inflight
    BY <2>1 DEF ConnInv, IdsTellApart
  <2>2. CASE q = new /\ e \in inflight
    BY <1>1, <1>4, <2>2 DEF ConnInv, ConnTypeOK
  <2>3. CASE q \in sent /\ e = new
    BY <1>1, <1>4, <2>3 DEF ConnInv, ConnTypeOK
  <2> QED
    BY <1>2, <2>1, <2>2, <2>3
<1>7. AnswersMatch'
  BY <1>2 DEF ConnInv, ConnTypeOK, AnswersMatch, linkVars
<1> QED
  BY <1>3, <1>5, <1>6, <1>7 DEF ConnInv

(* A caller with nothing under way, or about to remove its entry, forgets its command. *)
LEMMA ForgetInv ==
  ASSUME ConnInv, NEW c \in Callers, Forgets(c),
         inflight' \subseteq inflight \ {e \in inflight : e.by = c},
         sent' = sent, alive' \in BOOLEAN, wsOpen' \in BOOLEAN, reading' \in BOOLEAN,
         opened' \in 0..MaxSessions, current' \subseteq Sessions, attached' \subseteq Sessions,
         sessions' \subseteq Sessions,
         count' \in [Owners -> Nat], \A o \in Owners : count[o] <= count'[o]
  PROVE ConnInv'
<1>1. /\ future' = [future EXCEPT ![c] = "none"]
      /\ cmd' = [cmd EXCEPT ![c] = NoCommand(c)]
      /\ got' = [got EXCEPT ![c] = NoCommand(c)]
      /\ granted' = [granted EXCEPT ![c] = Root]
  BY DEF Forgets
<1>2. ConnTypeOK'
  <2>1. future' \in [Callers -> Futures] /\ granted' \in [Callers -> Owners]
    BY <1>1 DEF ConnInv, ConnTypeOK, Futures, Owners
  <2>2. cmd' \in [Callers -> Command] /\ got' \in [Callers -> Command]
    BY <1>1, NoCommandType DEF ConnInv, ConnTypeOK
  <2>3. ASSUME NEW e \in inflight' PROVE ~ Free(e.by)' /\ e = cmd'[e.by]
    BY <1>1 DEF ConnInv, ConnTypeOK, Free, Command
  <2> QED
    BY <2>1, <2>2, <2>3 DEF ConnInv, ConnTypeOK
<1>3. IdsBelowCount'
  <2> SUFFICES ASSUME NEW e \in inflight' \union sent' PROVE e.id < count'[e.owner]
    BY DEF IdsBelowCount
  <2>1. e \in Command /\ e.id < count[e.owner]
    BY DEF ConnInv, ConnTypeOK, IdsBelowCount
  <2> QED
    BY <2>1 DEF ConnInv, ConnTypeOK, Command
<1>4. IdsTellApart'
  BY DEF ConnInv, IdsTellApart
<1>5. AnswersMatch'
  BY <1>1 DEF ConnInv, ConnTypeOK, AnswersMatch
<1> QED
  BY <1>2, <1>3, <1>4, <1>5 DEF ConnInv

(* A caller that is free has no entry. *)
LEMMA FreeHasNone ==
  ASSUME ConnInv, NEW c \in Callers, Free(c)
  PROVE {e \in inflight : e.by = c} = {}
BY DEF ConnInv, ConnTypeOK

(* A write that fails leaves a gap in the numbers and nothing else. *)
LEMMA ExecuteFailsInv ==
  ASSUME ConnInv, NEW c \in Callers, NEW o \in Owners, ExecuteFails(c, o)
  PROVE  ConnInv'
<1>1. /\ Forgets(c) /\ inflight' = inflight /\ sent' = sent
      /\ count' = [count EXCEPT ![o] = @ + 1] /\ UNCHANGED linkVars
  BY DEF ExecuteFails
<1>2. inflight' = inflight \ {e \in inflight : e.by = c}
  BY <1>1, FreeHasNone DEF ExecuteFails
<1>3. count' \in [Owners -> Nat] /\ \A x \in Owners : count[x] <= count'[x]
  BY <1>1 DEF ConnInv, ConnTypeOK
<1>4. UNCHANGED <<alive, wsOpen, reading, current, attached, sessions, opened>>
  BY <1>1 DEF linkVars
<1> QED
  BY <1>1, <1>2, <1>3, <1>4, ForgetInv DEF ConnInv, ConnTypeOK

(* execute returns, or the session of an answered "attach" is registered. *)
LEMMA ReturnInv ==
  ASSUME ConnInv, NEW c \in Callers, Register(c) \/ Return(c)
  PROVE  ConnInv'
<1>1. /\ Forgets(c) /\ inflight' = inflight /\ sent' = sent /\ count' = count
      /\ UNCHANGED <<alive, wsOpen, reading, attached, opened>>
      /\ future[c] \in {"result", "error", "closed"}
  BY DEF Register, Return, linkVars
<1>2. current' \subseteq Sessions /\ sessions' \subseteq Sessions
  BY DEF Register, Return, linkVars, ConnInv, ConnTypeOK
<1>3. inflight' = inflight \ {e \in inflight : e.by = c}
  BY <1>1, FreeHasNone DEF Free
<1>4. \A x \in Owners : count[x] <= count'[x]
  BY <1>1 DEF ConnInv, ConnTypeOK
<1> QED
  BY <1>1, <1>2, <1>3, <1>4, ForgetInv DEF ConnInv, ConnTypeOK

(* A cancelled caller takes its own entry out, and no other. *)
LEMMA UnwindInv ==
  ASSUME ConnInv, NEW c \in Callers, Unwind(c)
  PROVE  ConnInv'
<1>1. /\ Forgets(c) /\ inflight' = inflight \ {cmd[c]} /\ sent' = sent /\ count' = count
      /\ UNCHANGED <<alive, wsOpen, reading, current, attached, sessions, opened>>
  BY DEF Unwind, linkVars
<1>2. \A e \in inflight : e = cmd[e.by]
  BY DEF ConnInv, ConnTypeOK
<1>3. inflight' \subseteq inflight \ {e \in inflight : e.by = c}
  BY <1>1, <1>2
<1>4. \A x \in Owners : count[x] <= count'[x]
  BY <1>1 DEF ConnInv, ConnTypeOK
<1> QED
  BY <1>1, <1>3, <1>4, ForgetInv DEF ConnInv, ConnTypeOK

(* A cancellation leaves the entry in the table until its caller runs. *)
LEMMA CancelInv ==
  ASSUME ConnInv, NEW c \in Callers, Cancel(c)
  PROVE  ConnInv'
<1>1. /\ future[c] = "pending" /\ future' = [future EXCEPT ![c] = "cancelled"]
      /\ UNCHANGED <<alive, wsOpen, reading, current, attached, sessions, opened>>
      /\ UNCHANGED <<count, inflight, sent, cmd, got, granted>>
  BY DEF Cancel, linkVars
<1>2. future' \in [Callers -> Futures]
  BY <1>1 DEF ConnInv, ConnTypeOK, Futures
<1>3. \A e \in inflight' : ~ Free(e.by)' /\ e = cmd'[e.by]
  BY <1>1 DEF ConnInv, ConnTypeOK, Free, Command
<1>4. ConnTypeOK'
  BY <1>1, <1>2, <1>3 DEF ConnInv, ConnTypeOK
<1>5. AnswersMatch'
  BY <1>1 DEF ConnInv, ConnTypeOK, AnswersMatch
<1> QED
  BY <1>1, <1>4, <1>5 DEF ConnInv, IdsBelowCount, IdsTellApart

-----------------------------------------------------------------------------
(* _handle_cmd_response: the entry an answer finds is the command it answers. *)
LEMMA AnswerInv ==
  ASSUME ConnInv, NEW q \in sent, NEW outcome \in {"result", "error"}, Answer(q, outcome)
  PROVE  ConnInv'
<1> DEFINE grants == Grants(q, outcome)
           settled == {e \in Entry(q) : future[e.by] = "pending"}
           touched == {e.by : e \in settled}
<1>1. /\ sent' = sent \ {q}
      /\ grants => opened < MaxSessions
      /\ inflight' = inflight \ Entry(q)
      /\ future' = [c \in Callers |-> IF c \in touched THEN outcome ELSE future[c]]
      /\ got' = [c \in Callers |-> IF c \in touched THEN q ELSE got[c]]
      /\ reading' = (Entry(q) = settled)
      /\ opened' = IF grants THEN opened + 1 ELSE opened
      /\ attached' = IF grants /\ alive THEN attached \union {opened + 1} ELSE attached
      /\ granted' = [c \in Callers |-> IF grants /\ c \in touched THEN opened + 1 ELSE granted[c]]
      /\ UNCHANGED <<alive, wsOpen, current, sessions, count, cmd>>
  BY DEF Answer
<1>2. \A e \in Entry(q) : e = q /\ e \in inflight
  BY DEF Entry, ConnInv, IdsTellApart
<1>3. \A c \in touched : cmd[c] = q
  BY <1>2 DEF ConnInv, ConnTypeOK
<1>4. \A e \in inflight : e.by \in touched => e \in Entry(q)
  <2> SUFFICES ASSUME NEW e \in inflight, e.by \in touched PROVE e \in Entry(q)
    OBVIOUS
  <2>1. PICK d \in settled : d.by = e.by
    OBVIOUS
  <2>2. d \in inflight /\ d = cmd[d.by] /\ e = cmd[e.by]
    BY <1>2, <2>1 DEF ConnInv, ConnTypeOK
  <2> QED
    BY <2>1, <2>2
<1> HIDE DEF grants, settled, touched
<1>5. opened \in 0..MaxSessions /\ q \in Command
  BY DEF ConnInv, ConnTypeOK
<1>6. grants => opened + 1 \in Sessions
  BY <1>1, <1>5, MaxSessionsAssumption DEF Sessions
<1>7. ConnTypeOK'
  <2>1. reading' \in BOOLEAN /\ UNCHANGED <<alive, wsOpen, current, sessions, count, cmd>>
    BY <1>1
  <2>2. opened' \in 0..MaxSessions
    BY <1>1, <1>5, MaxSessionsAssumption
  <2>3. attached' \subseteq Sessions
    BY <1>1, <1>6 DEF ConnInv, ConnTypeOK
  <2>4. granted' \in [Callers -> Owners]
    BY <1>1, <1>6 DEF ConnInv, ConnTypeOK, Owners
  <2>5. future' \in [Callers -> Futures] /\ got' \in [Callers -> Command]
    BY <1>1, <1>5 DEF ConnInv, ConnTypeOK, Futures
  <2>6. inflight' \subseteq Command /\ sent' \subseteq Command
    BY <1>1 DEF ConnInv, ConnTypeOK
  <2>7. ASSUME NEW e \in inflight' PROVE ~ Free(e.by)' /\ e = cmd'[e.by]
    <3>1. e \in inflight /\ e.by \notin touched /\ e.by \in Callers
      BY <1>1, <1>4 DEF ConnInv, ConnTypeOK, Command
    <3>2. future'[e.by] = future[e.by]
      BY <1>1, <3>1
    <3> QED
      BY <1>1, <3>1, <3>2 DEF ConnInv, ConnTypeOK, Free
  <2> QED
    BY <2>1, <2>2, <2>3, <2>4, <2>5, <2>6, <2>7 DEF ConnInv, ConnTypeOK
<1>8. IdsBelowCount' /\ IdsTellApart'
  BY <1>1 DEF ConnInv, IdsBelowCount, IdsTellApart
<1>9. AnswersMatch'
  <2> SUFFICES ASSUME NEW c \in Callers, future'[c] \in {"result", "error"} PROVE got'[c] = cmd'[c]
    BY DEF AnswersMatch
  <2>1. CASE c \in touched
    BY <1>1, <1>3, <2>1
  <2>2. CASE c \notin touched
    BY <1>1, <2>2 DEF ConnInv, AnswersMatch
  <2> QED
    BY <2>1, <2>2
<1> QED
  BY <1>7, <1>8, <1>9 DEF ConnInv

(* Sessions are closed: who waits on one is told, and its entries are gone. *)
LEMMA ClosingInv ==
  ASSUME ConnInv, NEW closing, 
         future' = FutureAfterClosing(closing), inflight' = InflightAfterClosing(closing),
         sent' \subseteq sent, alive' \in BOOLEAN, wsOpen' \in BOOLEAN, reading' \in BOOLEAN,
         attached' \subseteq Sessions, sessions' \subseteq Sessions,
         UNCHANGED <<current, opened, count, cmd, got, granted>>
  PROVE  ConnInv'
<1>1. future' \in [Callers -> Futures]
  BY DEF FutureAfterClosing, ConnInv, ConnTypeOK, Futures
<1>2. \A c \in Callers : future'[c] = future[c] \/ future'[c] = "closed"
  BY DEF FutureAfterClosing
<1>3. inflight' \subseteq inflight
  BY DEF InflightAfterClosing
<1>4. ASSUME NEW e \in inflight' PROVE ~ Free(e.by)' /\ e = cmd'[e.by]
  <2>1. e \in inflight /\ e.owner \notin closing /\ e = cmd[e.by] /\ e.by \in Callers
    BY DEF InflightAfterClosing, ConnInv, ConnTypeOK, Command
  <2>2. \A d \in inflight : d.by = e.by => d = e
    BY <2>1 DEF ConnInv, ConnTypeOK
  <2>3. future'[e.by] = future[e.by]
    BY <2>1, <2>2 DEF FutureAfterClosing
  <2> QED
    BY <2>1, <2>3 DEF ConnInv, ConnTypeOK, Free
<1>5. ConnTypeOK'
  BY <1>1, <1>3, <1>4 DEF ConnInv, ConnTypeOK
<1>6. IdsBelowCount' /\ IdsTellApart'
  BY <1>3 DEF ConnInv, IdsBelowCount, IdsTellApart
<1>7. AnswersMatch'
  BY <1>2 DEF ConnInv, AnswersMatch
<1> QED
  BY <1>5, <1>6, <1>7 DEF ConnInv

(* Chrome drops a session. *)
LEMMA DetachInv ==
  ASSUME ConnInv, NEW s, Detach(s)
  PROVE  ConnInv'
BY ClosingInv DEF Detach, ConnInv, ConnTypeOK

(* close() of the connection. *)
LEMMA CloseInv ==
  ASSUME ConnInv, CloseConnection
  PROVE  ConnInv'
BY ClosingInv DEF CloseConnection, ConnInv, ConnTypeOK

(* A new connection counts from 0, and has no entries of the last one. *)
LEMMA ConnectInv ==
  ASSUME ConnInv, Connect
  PROVE  ConnInv'
<1>1. /\ wsOpen' = TRUE /\ reading' = TRUE /\ current' = {} /\ attached' = {}
      /\ sessions' = {} /\ sent' = {} /\ count' = [count EXCEPT ![Root] = 0]
      /\ inflight' = {e \in inflight : e.owner # Root}
      /\ UNCHANGED <<alive, opened, cmd, future, got, granted>>
  BY DEF Connect, InflightAfterClosing
<1>2. count' \in [Owners -> Nat]
  BY <1>1 DEF ConnInv, ConnTypeOK, Owners
<1>3. ConnTypeOK'
  BY <1>1, <1>2 DEF ConnInv, ConnTypeOK, Free
<1>4. IdsBelowCount'
  BY <1>1 DEF ConnInv, ConnTypeOK, IdsBelowCount, Command
<1>5. IdsTellApart' /\ AnswersMatch'
  BY <1>1 DEF ConnInv, IdsTellApart, AnswersMatch
<1> QED
  BY <1>3, <1>4, <1>5 DEF ConnInv

(* Chrome starts, dies, and the end of the stream: no entry is touched. *)
LEMMA ChromeInv ==
  ASSUME ConnInv, Launch \/ Dies \/ ReaderEnds
  PROVE  ConnInv'
<1>1. /\ sent' \subseteq sent /\ alive' \in BOOLEAN /\ wsOpen' \in BOOLEAN /\ reading' \in BOOLEAN
      /\ attached' \subseteq Sessions /\ sessions' \subseteq Sessions
      /\ UNCHANGED <<current, opened, count, inflight, cmd, future, got, granted>>
  BY DEF Launch, Dies, ReaderEnds, ConnInv, ConnTypeOK
<1>2. ConnTypeOK'
  BY <1>1 DEF ConnInv, ConnTypeOK, Free
<1> QED
  BY <1>1, <1>2 DEF ConnInv, IdsBelowCount, IdsTellApart, AnswersMatch

-----------------------------------------------------------------------------
(* Every step of a caller, of the reader and of Chrome. *)
LEMMA ConnStep == ConnInv /\ [ConnNext]_connVars => ConnInv'
<1> SUFFICES ASSUME ConnInv, [ConnNext]_connVars PROVE ConnInv'
  OBVIOUS
<1>1. CASE Reads
  BY <1>1, AnswerInv, DetachInv, ChromeInv DEF Reads
<1>2. ASSUME NEW c \in Callers, Calls(c) PROVE ConnInv'
  BY <1>2, ExecuteInv, ExecuteFailsInv, ReturnInv, CancelInv, UnwindInv DEF Calls
<1>3. CASE Dies \/ Launch
  BY <1>3, ChromeInv
<1>4. CASE Connect
  BY <1>4, ConnectInv
<1>5. CASE CloseConnection
  BY <1>5, CloseInv
<1>6. CASE UNCHANGED connVars
  <2>1. /\ UNCHANGED <<alive, wsOpen, reading, current, attached, sessions, opened>>
        /\ UNCHANGED <<count, inflight, sent, cmd, future, got, granted>>
    BY <1>6 DEF connVars
  <2> QED
    BY <2>1 DEF ConnInv, ConnTypeOK, IdsBelowCount, IdsTellApart, AnswersMatch, Free
<1> QED
  BY <1>1, <1>2, <1>3, <1>4, <1>5, <1>6 DEF ConnNext

(* The bookkeeping of the client is an invariant of the connection alone. *)
THEOREM ConnInvariant == ConnSpec => []ConnInv
<1> QED
  BY ConnInitInv, ConnStep, PTL DEF ConnSpec

(***************************************************************************)
(* The tables are well-typed, and only a caller that waits has an entry    *)
(* (execute, _handle_cmd_response, close).                                 *)
(***************************************************************************)
THEOREM ConnTypeCorrectness == ConnSpec => []ConnTypeOK
<1>1. ConnInv => ConnTypeOK
  BY DEF ConnInv
<1> QED
  BY <1>1, ConnInvariant, PTL

(***************************************************************************)
(* A result is the answer to the command its caller waits for, whatever is *)
(* answered late, cancelled, closed or connected again (_run,              *)
(* _handle_cmd_response).                                                  *)
(***************************************************************************)
THEOREM AnswersReachTheirCommand == ConnSpec => []AnswersMatch
<1>1. ConnInv => AnswersMatch
  BY DEF ConnInv
<1> QED
  BY <1>1, ConnInvariant, PTL

-----------------------------------------------------------------------------
(* The browser tool. *)

(* The first two parts of TypeOK, and that an action under way has steps left. *)
RequestInv ==
  /\ tool \in [Requests -> Tools]
  /\ pc \in [Requests -> PC]
  /\ attempt \in [Requests -> 1..2]
  /\ left \in [Requests -> 0..Steps]
  /\ tab \in [Tools -> Sessions \union {NoTab}]
  /\ stopAt \in {"serving", "agents", "closing", "down"}
  /\ awaited \subseteq Requests
  /\ cleaned \subseteq Tools
  /\ faults \in 0..MaxFaults
  /\ stopAt = "closing" => cleaned # Tools
  /\ stopAt # "down" => \A r \in Requests : pc[r] = "expired" <=> future[r] = "cancelled"
  /\ \A r \in Requests : pc[r] # "ended" => left[r] # 0

(* Chrome's lock has one holder, and who launches Chrome has no connection. *)
OneChrome == \A r, s \in Requests : pc[r] \in HoldsChrome /\ pc[s] \in HoldsChrome => r = s
LaunchDown == \A r \in Requests : pc[r] = "launch" => ~ wsOpen

IInv == ConnInv /\ RequestInv /\ OneChrome /\ LaunchDown

-----------------------------------------------------------------------------
(* Every step does to the connection what a step of CdpConnection does, or nothing. *)
LEMMA StepOfConnection ==
  ASSUME RequestInv, [Next]_vars
  PROVE  [ConnNext]_connVars
<1> USE DEF Requests
<1>1. ASSUME NEW r \in Requests, Start(r) \/ Step(r) PROVE [ConnNext]_connVars
  <2>1. CASE \/ Start(r) \/ EnsureTab(r) \/ OpenConnected(r) \/ LaunchFails(r) \/ ActOnNone(r)
    BY <2>1 DEF Start, EnsureTab, OpenConnected, LaunchFails, ActOnNone
  <2>2. CASE OpenLaunching(r) \/ Launched(r)
    BY <2>2 DEF OpenLaunching, Launched, ConnNext
  <2>3. CASE Create(r) \/ Attach(r)
    <3>1. PICK kind \in {"create", "attach"} : AskRoot(r, kind)
      BY <2>3 DEF Create, Attach
    <3>2. kind \in Kinds /\ Root \in Owners
      BY DEF Kinds, Owners
    <3> QED
      BY <3>1, <3>2 DEF AskRoot, ConnNext, Calls
  <2>4. CASE Act(r)
    <3>1. tab[tool[r]] \in Owners /\ "act" \in Kinds
      BY <2>4 DEF Act, RequestInv, Owners, Kinds
    <3> QED
      BY <2>4, <3>1 DEF Act, ConnNext, Calls
  <2>5. CASE TabOpened(r)
    BY <2>5 DEF TabOpened, ConnNext, Calls
  <2>6. CASE Refused(r) \/ Acted(r) \/ ActClosed(r)
    BY <2>6 DEF Refused, Acted, ActClosed, ConnNext, Calls
  <2>7. CASE TimeOut(r)
    BY <2>7 DEF TimeOut, ConnNext, Calls
  <2>8. CASE Expired(r)
    BY <2>8 DEF Expired, ConnNext, Calls
  <2> QED
    BY <1>1, <2>1, <2>2, <2>3, <2>4, <2>5, <2>6, <2>7, <2>8 DEF Step
<1>2. ASSUME NEW q \in sent, ReadAnswer(q) \/ ReadError(q) PROVE [ConnNext]_connVars
  BY <1>2 DEF ReadAnswer, ReadError, ConnNext, Reads
<1>3. ASSUME NEW s \in attached, TabDropped(s) PROVE [ConnNext]_connVars
  BY <1>3 DEF TabDropped, ConnNext, Reads
<1>4. CASE ChromeDies \/ EndOfStream
  BY <1>4 DEF ChromeDies, EndOfStream, ConnNext, Reads
<1>5. CASE Stop \/ Down
  BY <1>5 DEF Stop, Down
<1>6. CASE Cleanup \/ Killed
  BY <1>6 DEF Cleanup, Killed, ConnNext
<1>7. CASE UNCHANGED vars
  BY <1>7 DEF vars
<1> QED
  BY <1>1, <1>2, <1>3, <1>4, <1>5, <1>6, <1>7 DEF Next

-----------------------------------------------------------------------------
(* One request moves to p; what it must see to for the invariants. *)
LEMMA Moves ==
  ASSUME RequestInv, OneChrome, LaunchDown, NEW r \in Requests, NEW p \in PC,
         Goto(r, p), UNCHANGED <<tool, stopVars, faults>>,
         attempt' \in [Requests -> 1..2],
         tab' \in [Tools -> Sessions \union {NoTab}],
         left' \in [Requests -> 0..Steps],
         p # "ended" => left'[r] # 0,
         \A o \in Requests \ {r} : left'[o] = left[o],
         p = "expired" <=> future'[r] = "cancelled",
         \A o \in Requests \ {r} : future'[o] = future[o],
         p \in HoldsChrome => pc[r] \in HoldsChrome \/ ChromeFree,
         p = "launch" => ~ wsOpen',
         wsOpen' => wsOpen \/ pc[r] \in HoldsChrome
  PROVE  RequestInv' /\ OneChrome' /\ LaunchDown'
<1>1. /\ pc' = [pc EXCEPT ![r] = p] /\ pc \in [Requests -> PC]
      /\ UNCHANGED <<tool, stopAt, awaited, cleaned, faults>>
  BY DEF Goto, RequestInv, stopVars
<1>2. pc' \in [Requests -> PC] /\ pc'[r] = p /\ \A o \in Requests \ {r} : pc'[o] = pc[o]
  BY <1>1
<1>3. RequestInv'
  BY <1>1, <1>2 DEF RequestInv
<1>4. OneChrome'
  BY <1>1, <1>2 DEF OneChrome, ChromeFree
<1>5. LaunchDown'
  <2> SUFFICES ASSUME NEW o \in Requests, pc'[o] = "launch" PROVE ~ wsOpen'
    BY DEF LaunchDown
  <2>1. CASE o = r
    BY <1>2, <2>1
  <2>2. CASE o # r
    <3>1. pc[o] = "launch" /\ pc[o] \in HoldsChrome
      BY <1>2, <2>2 DEF HoldsChrome
    <3> QED
      BY <2>2, <3>1 DEF LaunchDown, OneChrome
  <2> QED
    BY <2>1, <2>2
<1> QED
  BY <1>3, <1>4, <1>5

(* No request moves: a step of the reader, of Chrome, or of the shutdown. *)
LEMMA Unmoved ==
  ASSUME RequestInv, OneChrome, LaunchDown, UNCHANGED <<tool, pc, attempt, left>>,
         tab' \in [Tools -> Sessions \union {NoTab}],
         stopAt' \in {"serving", "agents", "closing", "down"}, stopAt = "down" => stopAt' = "down",
         awaited' \subseteq Requests, cleaned' \subseteq Tools, faults' \in 0..MaxFaults,
         stopAt' = "closing" => cleaned' # Tools,
         \A c \in Requests : future'[c] = "cancelled" <=> future[c] = "cancelled",
         wsOpen' => wsOpen
  PROVE  RequestInv' /\ OneChrome' /\ LaunchDown'
<1>1. RequestInv'
  BY DEF RequestInv
<1>2. OneChrome' /\ LaunchDown'
  BY DEF OneChrome, LaunchDown
<1> QED
  BY <1>1, <1>2

(* The tab that is lost: attempt, tab and steps stay well-typed, whichever attempt it was. *)
LEMMA LostTypes ==
  ASSUME RequestInv, NEW r \in Requests, Lost(r), pc[r] # "ended"
  PROVE  \E p \in {"ensure", "ended"} :
           /\ Goto(r, p)
           /\ attempt' \in [Requests -> 1..2]
           /\ tab' \in [Tools -> Sessions \union {NoTab}]
           /\ left' \in [Requests -> 0..Steps]
           /\ left'[r] # 0
           /\ \A o \in Requests \ {r} : left'[o] = left[o]
<1>1. CASE attempt[r] = 1
  BY <1>1, BoundsAssumption DEF Lost, RequestInv
<1>2. CASE attempt[r] # 1
  BY <1>2 DEF Lost, RequestInv
<1> QED
  BY <1>1, <1>2

(* A request's step keeps the locks and what each place stands for. *)
LEMMA RequestStep ==
  ASSUME IInv, Up, NEW r \in Requests, Start(r) \/ Step(r)
  PROVE  RequestInv' /\ OneChrome' /\ LaunchDown'
<1> USE DEF Requests
<1>1. /\ RequestInv /\ OneChrome /\ LaunchDown
      /\ future \in [Callers -> Futures]
      /\ \A o \in Requests : pc[o] = "expired" <=> future[o] = "cancelled"
      /\ pc[r] # "ended" => left[r] # 0
      /\ left \in [Requests -> 0..Steps] /\ attempt \in [Requests -> 1..2]
      /\ tab \in [Tools -> Sessions \union {NoTab}] /\ tool[r] \in Tools
  BY DEF IInv, ConnInv, ConnTypeOK, RequestInv, Up
<1>2. /\ {"ensure", "open", "launch", "connected", "create", "attach",
          "dispatch", "act", "expired", "ended"} \subseteq PC
      /\ {"launch", "connected", "create", "attach"} = HoldsChrome
  BY DEF PC, Active, HoldsTab, HoldsChrome
<1>3. CASE Start(r) \/ EnsureTab(r) \/ OpenConnected(r) \/ LaunchFails(r) \/ ActOnNone(r)
  <2>1. /\ UNCHANGED <<future, wsOpen, tool, attempt, left, tab, stopVars, faults>>
        /\ pc[r] \notin {"expired", "ended"}
    BY <1>3 DEF Start, EnsureTab, OpenConnected, LaunchFails, ActOnNone, connVars
  <2>2. CASE OpenConnected(r)
    BY <1>1, <1>2, <2>1, <2>2, Moves DEF OpenConnected
  <2>3. CASE ~ OpenConnected(r)
    <3>1. \E p \in {"ensure", "open", "dispatch", "ended"} : Goto(r, p)
      BY <1>3, <2>3 DEF Start, EnsureTab, LaunchFails, ActOnNone
    <3> QED
      BY <1>1, <1>2, <2>1, <3>1, Moves
  <2> QED
    BY <2>2, <2>3
<1>4. CASE OpenLaunching(r)
  <2>1. /\ UNCHANGED <<future, wsOpen, tool, attempt, left, tab, stopVars, faults>>
        /\ pc[r] = "open" /\ ChromeFree /\ ~ wsOpen /\ Goto(r, "launch")
    BY <1>4 DEF OpenLaunching, Launch
  <2> QED
    BY <1>1, <1>2, <2>1, Moves
<1>5. CASE Launched(r)
  <2>1. /\ UNCHANGED <<future, tool, attempt, left, tab, stopVars, faults>>
        /\ pc[r] = "launch" /\ Goto(r, "connected")
    BY <1>5 DEF Launched, Connect
  <2> QED
    BY <1>1, <1>2, <2>1, Moves
<1>6. CASE Create(r) \/ Attach(r)
  <2>1. PICK kind \in {"create", "attach"} : AskRoot(r, kind)
    BY <1>6 DEF Create, Attach
  <2>2. /\ UNCHANGED <<tool, attempt, left, tab, stopVars, faults>>
        /\ pc[r] \in {"connected", "create"}
    BY <1>6 DEF Create, Attach
  <2>3. CASE Execute(r, Root, kind) /\ Goto(r, kind)
    <3>1. /\ future' = [future EXCEPT ![r] = "pending"] /\ wsOpen' = wsOpen
          /\ Goto(r, kind)
      BY <2>3 DEF Execute, linkVars
    <3> QED
      BY <1>1, <1>2, <2>2, <3>1, Moves
  <2>4. CASE ExecuteFails(r, Root) /\ Goto(r, "ended")
    <3>1. /\ future' = [future EXCEPT ![r] = "none"] /\ wsOpen' = wsOpen
          /\ Goto(r, "ended")
      BY <2>4 DEF ExecuteFails, Forgets, linkVars
    <3> QED
      BY <1>1, <1>2, <2>2, <3>1, Moves
  <2> QED
    BY <2>1, <2>3, <2>4 DEF AskRoot
<1>7. CASE TabOpened(r)
  <2>1. /\ future' = [future EXCEPT ![r] = "none"] /\ wsOpen' = wsOpen
        /\ UNCHANGED <<tool, attempt, left, stopVars, faults>>
        /\ pc[r] = "attach" /\ Goto(r, "dispatch")
        /\ granted[r] \in Sessions /\ tab' = [tab EXCEPT ![tool[r]] = granted[r]]
    BY <1>7 DEF TabOpened, Register, Forgets
  <2>2. tab' \in [Tools -> Sessions \union {NoTab}]
    BY <1>1, <2>1
  <2> QED
    BY <1>1, <1>2, <2>1, <2>2, Moves
<1>8. CASE Refused(r)
  <2>1. /\ future' = [future EXCEPT ![r] = "none"] /\ wsOpen' = wsOpen
        /\ UNCHANGED <<tool, attempt, left, tab, stopVars, faults>>
        /\ Goto(r, "ended")
    BY <1>8 DEF Refused, Return, Forgets, linkVars
  <2> QED
    BY <1>1, <1>2, <2>1, Moves
<1>9. CASE Acted(r)
  <2>1. /\ future' = [future EXCEPT ![r] = "none"] /\ wsOpen' = wsOpen
        /\ UNCHANGED <<tool, attempt, tab, stopVars, faults>>
        /\ pc[r] = "act" /\ left' = [left EXCEPT ![r] = @ - 1]
        /\ Goto(r, IF left[r] = 1 THEN "ended" ELSE "dispatch")
    BY <1>9 DEF Acted, Return, Forgets, linkVars
  <2>2. left[r] \in 1..Steps
    BY <1>1, <2>1, BoundsAssumption
  <2>3. left' \in [Requests -> 0..Steps] /\ left'[r] = left[r] - 1
    BY <1>1, <2>1, <2>2, BoundsAssumption
  <2>4. \A o \in Requests \ {r} : left'[o] = left[o]
    BY <1>1, <2>1
  <2>5. CASE left[r] = 1
    BY <1>1, <1>2, <2>1, <2>3, <2>4, <2>5, Moves
  <2>6. CASE left[r] # 1
    <3>1. left'[r] # 0 /\ Goto(r, "dispatch")
      BY <2>1, <2>2, <2>3, <2>6, BoundsAssumption
    <3> QED
      BY <1>1, <1>2, <2>1, <2>3, <2>4, <3>1, Moves
  <2> QED
    BY <2>5, <2>6
<1>10. CASE Act(r)
  <2>1. UNCHANGED <<tool, stopVars, faults>> /\ pc[r] = "dispatch"
    BY <1>10 DEF Act
  <2>2. CASE /\ Execute(r, tab[tool[r]], "act") /\ Goto(r, "act")
             /\ UNCHANGED <<attempt, left, tab>>
    <3>1. future' = [future EXCEPT ![r] = "pending"] /\ wsOpen' = wsOpen
      BY <2>2 DEF Execute, linkVars
    <3> QED
      BY <1>1, <1>2, <2>1, <2>2, <3>1, Moves
  <2>3. CASE ExecuteFails(r, tab[tool[r]]) /\ Lost(r)
    <3>1. future' = [future EXCEPT ![r] = "none"] /\ wsOpen' = wsOpen
      BY <2>3 DEF ExecuteFails, Forgets, linkVars
    <3> QED
      BY <1>1, <1>2, <2>1, <2>3, <3>1, LostTypes, Moves
  <2> QED
    BY <1>10, <2>2, <2>3 DEF Act
<1>11. CASE ActClosed(r) \/ Expired(r)
  <2>1. /\ future' = [future EXCEPT ![r] = "none"] /\ wsOpen' = wsOpen
        /\ UNCHANGED <<tool, stopVars, faults>>
        /\ pc[r] \in {"act", "expired"} /\ Lost(r)
    BY <1>11 DEF ActClosed, Expired, Return, Unwind, Forgets, linkVars
  <2> QED
    BY <1>1, <1>2, <2>1, LostTypes, Moves
<1>12. CASE TimeOut(r)
  <2>1. /\ future' = [future EXCEPT ![r] = "cancelled"] /\ wsOpen' = wsOpen
        /\ UNCHANGED <<tool, attempt, left, tab, stopVars, faults>>
        /\ pc[r] = "act" /\ Goto(r, "expired")
    BY <1>12 DEF TimeOut, TimesOut, Cancel, linkVars
  <2> QED
    BY <1>1, <1>2, <2>1, Moves
<1> QED
  BY <1>3, <1>4, <1>5, <1>6, <1>7, <1>8, <1>9, <1>10, <1>11, <1>12 DEF Step

(* The reader, Chrome and the shutdown move no request before the end. *)
LEMMA OtherStep ==
  ASSUME IInv, Up,
         \/ \E q \in sent : ReadAnswer(q) \/ ReadError(q)
         \/ \E s \in attached : TabDropped(s)
         \/ ChromeDies \/ EndOfStream \/ Stop \/ Cleanup \/ Killed \/ Down
  PROVE  RequestInv' /\ OneChrome' /\ LaunchDown'
<1> USE DEF Requests
<1>1. /\ RequestInv /\ OneChrome /\ LaunchDown /\ future \in [Callers -> Futures]
  BY DEF IInv, ConnInv, ConnTypeOK
<1>2. ASSUME NEW q \in sent, ReadAnswer(q) \/ ReadError(q)
      PROVE  RequestInv' /\ OneChrome' /\ LaunchDown'
  <2>1. PICK outcome \in {"result", "error"} : Answer(q, outcome)
    BY <1>2 DEF ReadAnswer, ReadError
  <2>2. wsOpen' = wsOpen /\ \A c \in Requests : future'[c] = "cancelled" <=> future[c] = "cancelled"
    BY <1>1, <2>1 DEF Answer
  <2>3. faults' \in 0..MaxFaults /\ UNCHANGED <<toolVars, stopVars>>
    BY <1>1, <1>2, BoundsAssumption DEF ReadAnswer, ReadError, RequestInv
  <2> QED
    BY <1>1, <2>2, <2>3, Unmoved DEF RequestInv, toolVars, stopVars
<1>3. ASSUME NEW s \in attached, TabDropped(s)
      PROVE  RequestInv' /\ OneChrome' /\ LaunchDown'
  <2>1. wsOpen' = wsOpen /\ \A c \in Requests : future'[c] = "cancelled" <=> future[c] = "cancelled"
    BY <1>1, <1>3 DEF TabDropped, Detach, FutureAfterClosing
  <2>2. faults' \in 0..MaxFaults /\ UNCHANGED <<toolVars, stopVars>>
    BY <1>1, <1>3, BoundsAssumption DEF TabDropped, RequestInv
  <2> QED
    BY <1>1, <2>1, <2>2, Unmoved DEF RequestInv, toolVars, stopVars
<1>4. CASE ChromeDies \/ EndOfStream
  <2>1. future' = future /\ (wsOpen' => wsOpen) /\ UNCHANGED <<toolVars, stopVars>>
    BY <1>4 DEF ChromeDies, EndOfStream, Dies, ReaderEnds
  <2>2. faults' \in 0..MaxFaults
    BY <1>1, <1>4, BoundsAssumption DEF ChromeDies, EndOfStream, RequestInv
  <2> QED
    BY <1>1, <2>1, <2>2, Unmoved DEF RequestInv, toolVars, stopVars
<1>5. CASE Stop
  <2>1. UNCHANGED <<connVars, toolVars, cleaned, faults>> /\ stopAt' = "agents" /\ awaited' \subseteq Requests
    BY <1>5 DEF Stop
  <2> QED
    BY <1>1, <2>1, Unmoved DEF RequestInv, toolVars, connVars, Up
<1>6. CASE Cleanup
  <2>1. /\ UNCHANGED <<toolVars, awaited, cleaned, faults>> /\ stopAt' = "closing" /\ wsOpen' = FALSE
        /\ \A c \in Requests : future'[c] = "cancelled" <=> future[c] = "cancelled"
    BY <1>6, <1>1 DEF Cleanup, CloseConnection, FutureAfterClosing
  <2>2. cleaned # Tools
    BY <1>6 DEF Cleanup
  <2> QED
    BY <1>1, <2>1, <2>2, Unmoved DEF RequestInv, toolVars, Up
<1>7. CASE Killed
  <2>1. UNCHANGED <<tool, pc, attempt, left, awaited, faults, future, wsOpen>> /\ stopAt' = "agents"
    BY <1>7 DEF Killed, Dies, connVars
  <2>2. cleaned' \subseteq Tools /\ tab' \in [Tools -> Sessions \union {NoTab}]
    <3> DEFINE t == CHOOSE t \in Tools \ cleaned : TRUE
    <3>1. cleaned' = cleaned \union {t} /\ tab' = [tab EXCEPT ![t] = NoTab]
      BY <1>7 DEF Killed
    <3>2. Tools \ cleaned # {}
      BY <1>1, <1>7 DEF Killed, RequestInv
    <3>3. t \in Tools
      BY <3>2
    <3> HIDE DEF t
    <3> QED
      BY <1>1, <3>1, <3>3 DEF RequestInv
  <2> QED
    BY <1>1, <2>1, <2>2, Unmoved DEF RequestInv, Up
<1>8. CASE Down
  <2>1. /\ stopAt' = "down" /\ UNCHANGED <<connVars, tool, attempt, left, tab, awaited, cleaned, faults>>
        /\ pc' = [r \in Requests |-> IF pc[r] \in Active THEN "ended" ELSE pc[r]]
    BY <1>8 DEF Down
  <2>2. \A r \in Requests : pc'[r] \in {"idle", "ended"} /\ (pc'[r] # "ended" => pc'[r] = pc[r])
    BY <1>1, <2>1 DEF RequestInv, PC
  <2>3. RequestInv'
    BY <1>1, <2>1, <2>2 DEF RequestInv, PC
  <2>4. OneChrome' /\ LaunchDown'
    BY <2>2 DEF OneChrome, LaunchDown, HoldsChrome
  <2> QED
    BY <2>3, <2>4
<1> QED
  BY <1>2, <1>3, <1>4, <1>5, <1>6, <1>7, <1>8

(* At the start nobody is anywhere, and Chrome is not running. *)
LEMMA InitIInv == Init => IInv
<1> SUFFICES ASSUME Init PROVE IInv
  OBVIOUS
<1>1. ConnInv
  BY ConnInitInv DEF Init
<1>2. RequestInv
  <2>1. pc \in [Requests -> PC] /\ stopAt \in {"serving", "agents", "closing", "down"}
    BY DEF Init, PC
  <2>2. attempt \in [Requests -> 1..2]
    BY DEF Init
  <2>3. left \in [Requests -> 0..Steps] /\ \A r \in Requests : left[r] # 0
    BY BoundsAssumption DEF Init
  <2>4. faults \in 0..MaxFaults
    BY BoundsAssumption DEF Init
  <2>5. \A r \in Requests : pc[r] = "expired" <=> future[r] = "cancelled"
    BY DEF Init, ConnInit, Requests
  <2> QED
    BY <2>1, <2>2, <2>3, <2>4, <2>5 DEF Init, RequestInv
<1>3. OneChrome /\ LaunchDown
  BY DEF Init, OneChrome, LaunchDown, HoldsChrome
<1> QED
  BY <1>1, <1>2, <1>3 DEF IInv

(* Every step keeps the inductive invariant. *)
LEMMA NextIInv == IInv /\ [Next]_vars => IInv'
<1> SUFFICES ASSUME IInv, [Next]_vars PROVE IInv'
  OBVIOUS
<1>1. ConnInv'
  BY StepOfConnection, ConnStep DEF IInv
<1>2. RequestInv' /\ OneChrome' /\ LaunchDown'
  <2>1. CASE Next
    <3>1. CASE \E r \in Requests : Start(r) \/ Step(r)
      BY <2>1, <3>1, RequestStep DEF Next
    <3>2. CASE ~ \E r \in Requests : Start(r) \/ Step(r)
      BY <2>1, <3>2, OtherStep DEF Next
    <3> QED
      BY <3>1, <3>2
  <2>2. CASE UNCHANGED vars
    BY <2>2 DEF vars, connVars, toolVars, stopVars, IInv, RequestInv, OneChrome, LaunchDown
  <2> QED
    BY <2>1, <2>2
<1> QED
  BY <1>1, <1>2 DEF IInv

(* The invariant of the tool, its locks and its connection. *)
THEOREM Invariant == Spec => []IInv
<1> QED
  BY InitIInv, NextIInv, PTL DEF Spec

(***************************************************************************)
(* The types of the tool's state, futures that agree with where a request  *)
(* stands, and one holder of Chrome's lock (open_tab, cleanup).            *)
(***************************************************************************)
THEOREM TypeCorrectness == Spec => []TypeOK
<1>1. IInv => TypeOK
  <2> SUFFICES ASSUME IInv PROVE TypeOK
    OBVIOUS
  <2> DEFINE holders == {r \in Requests : pc[r] \in HoldsChrome}
  <2>1. Cardinality(holders) <= 1
    <3>1. CASE holders = {}
      <4> HIDE DEF holders
      <4> QED
        BY <3>1, FS_EmptySet
    <3>2. CASE holders # {}
      <4>1. PICK r \in holders : TRUE
        BY <3>2
      <4>2. holders = {r}
        BY <4>1 DEF IInv, OneChrome
      <4>3. Cardinality({r}) = 1
        BY FS_Singleton
      <4> HIDE DEF holders
      <4> QED
        BY <4>2, <4>3
    <3> QED
      BY <3>1, <3>2
  <2> QED
    BY <2>1 DEF IInv, ConnInv, RequestInv, TypeOK
<1> QED
  BY <1>1, Invariant, PTL

(***************************************************************************)
(* The browser tool, with its locks, timeouts, retries and shutdown, does  *)
(* to the connection only what the client's own operations do: it          *)
(* implements the specification of the connection alone.                   *)
(***************************************************************************)
THEOREM ImplementsConnection == Spec => ConnSpec
<1>1. Init => ConnInit
  BY DEF Init
<1>2. IInv /\ [Next]_vars => [ConnNext]_connVars
  BY StepOfConnection DEF IInv
<1> QED
  BY <1>1, <1>2, Invariant, PTL DEF Spec, ConnSpec

(***************************************************************************)
(* Whatever times out, is retried or shut down, a result reaches the       *)
(* command it answers (_run, _handle_cmd_response under execute).          *)
(***************************************************************************)
THEOREM AnswersMatchRequests == Spec => []AnswersMatch
<1> QED
  BY ImplementsConnection, AnswersReachTheirCommand, PTL

(***************************************************************************)
(* No request connects while a connection is there: launches exclude one   *)
(* another, whatever is awaited in them (_ensure_running).                 *)
(***************************************************************************)
THEOREM OneLaunchAtATime == Spec => ConnectsOnlyWhenDown
<1>1. IInv => \A r \in Requests : Launched(r) => ~ wsOpen
  BY DEF IInv, LaunchDown, Launched
<1>2. IInv /\ [Next]_vars => [\A r \in Requests : Launched(r) => ~ wsOpen]_vars
  BY <1>1
<1> QED
  BY <1>2, Invariant, PTL DEF Spec, ConnectsOnlyWhenDown
=============================================================================
