---------------------------- MODULE BrowserTool ----------------------------
(***************************************************************************)
(* The browser tool of src/openbotx/tools/browser.py on the connection of  *)
(* module CdpConnection.  Every agent has one BrowserTool with one tab,    *)
(* opened when first needed; its chats (requests) share that tab, and all  *)
(* tools share one Chrome behind a lock.  A request of the model is one    *)
(* call of BrowserTool.execute that reaches the tab.                       *)
(*                                                                         *)
(* The two locks are not variables: a lock is held by who is at a place    *)
(* inside its async with.                                                  *)
(***************************************************************************)
EXTENDS CdpConnection

CONSTANTS
  Tools,       \* one BrowserTool per agent
  NoTab,       \* _session is None
  Steps,       \* bound: commands an action sends to its tab
  MaxFaults    \* bound: deaths of Chrome, tabs it drops, errors it answers

VARIABLES
  tool,        \* per request: the tool it calls, its agent's
  pc,          \* per request: where execute() is
  attempt,     \* per request: 1, or 2 after the tab was lost
  left,        \* per request: commands its action still has to send
  tab,         \* per tool: _session
  stopAt,      \* where the shutdown is
  awaited,     \* the requests drain() waits for
  cleaned,     \* the tools the shutdown has cleaned up
  faults       \* how many of them there were

toolVars == <<tool, pc, attempt, left, tab>>
stopVars == <<stopAt, awaited, cleaned>>
vars == <<connVars, toolVars, stopVars, faults>>

Requests == Callers

(***************************************************************************)
(* "ensure" waits for the tab's lock, "open" for Chrome's; "launch" waits  *)
(* for connect_cdp; "connected" has both locks and a connection; "create"  *)
(* and "attach" wait for these commands; "dispatch" is inside _dispatch,   *)
(* between two commands, and "act" waits for one; "expired" has had its    *)
(* command cancelled by the timeout.                                       *)
(***************************************************************************)
HoldsChrome == {"launch", "connected", "create", "attach"}
HoldsTab == {"open"} \union HoldsChrome
Active == {"ensure", "dispatch", "act", "expired"} \union HoldsTab
PC == {"idle", "ended"} \union Active

ASSUME BoundsAssumption == Steps \in Nat \ {0} /\ MaxFaults \in Nat
ASSUME TabAssumption == NoTab \notin Sessions

Init ==
  /\ ConnInit
  /\ tool \in [Requests -> Tools]
  /\ pc = [r \in Requests |-> "idle"]
  /\ attempt = [r \in Requests |-> 1]
  /\ left = [r \in Requests |-> Steps]
  /\ tab = [t \in Tools |-> NoTab]
  /\ stopAt = "serving"
  /\ awaited = {}
  /\ cleaned = {}
  /\ faults = 0

-----------------------------------------------------------------------------
Goto(r, place) == pc' = [pc EXCEPT ![r] = place]

TabFree(t) == \A r \in Requests : tool[r] = t => pc[r] \notin HoldsTab

(* Not the code: _ensure_running without the lock of _ChromeInstance. *)
NoChromeLock == TRUE

(* async with self._lock: not held by a request nor by a cleanup. *)
ChromeFree == stopAt # "closing" /\ \A r \in Requests : pc[r] \notin HoldsChrome

(* process_message calls the tool; late messages are still worked on. *)
Start(r) ==
  /\ pc[r] = "idle"
  /\ stopAt # "down"
  /\ Goto(r, "ensure")
  /\ UNCHANGED <<connVars, tool, attempt, left, tab, stopVars, faults>>

(* _ensure_tab: the tab there is, or, with the lock, a new one. *)
EnsureTab(r) ==
  /\ pc[r] = "ensure"
  /\ TabFree(tool[r])
  /\ Goto(r, IF tab[tool[r]] = NoTab THEN "open" ELSE "dispatch")
  /\ UNCHANGED <<connVars, tool, attempt, left, tab, stopVars, faults>>

(* open_tab: Chrome is connected already ... *)
OpenConnected(r) ==
  /\ pc[r] = "open"
  /\ ChromeFree
  /\ wsOpen
  /\ Goto(r, "connected")
  /\ UNCHANGED <<connVars, tool, attempt, left, tab, stopVars, faults>>

(* ... or has to be launched. *)
OpenLaunching(r) ==
  /\ pc[r] = "open"
  /\ ChromeFree
  /\ ~ wsOpen
  /\ Launch
  /\ Goto(r, "launch")
  /\ UNCHANGED <<tool, attempt, left, tab, stopVars, faults>>

(* connect_cdp has connected. *)
Launched(r) ==
  /\ pc[r] = "launch"
  /\ Connect
  /\ Goto(r, "connected")
  /\ UNCHANGED <<tool, attempt, left, tab, stopVars, faults>>

(* connect_cdp has given up: the tool fails and both locks are free. *)
LaunchFails(r) ==
  /\ pc[r] = "launch"
  /\ ~ alive
  /\ Goto(r, "ended")
  /\ UNCHANGED <<connVars, tool, attempt, left, tab, stopVars, faults>>

(* A command of open_tab: without a timeout. *)
AskRoot(r, kind) ==
  \/ Execute(r, Root, kind) /\ Goto(r, kind)
  \/ ExecuteFails(r, Root) /\ Goto(r, "ended")

Create(r) ==
  /\ pc[r] = "connected"
  /\ AskRoot(r, "create")
  /\ UNCHANGED <<tool, attempt, left, tab, stopVars, faults>>

(* connect_session *)
Attach(r) ==
  /\ pc[r] = "create"
  /\ future[r] = "result"
  /\ AskRoot(r, "attach")
  /\ UNCHANGED <<tool, attempt, left, tab, stopVars, faults>>

(* _ensure_tab sets _session and both locks are released. *)
TabOpened(r) ==
  /\ pc[r] = "attach"
  /\ Register(r)
  /\ tab' = [tab EXCEPT ![tool[r]] = granted[r]]
  /\ Goto(r, "dispatch")
  /\ UNCHANGED <<tool, attempt, left, stopVars, faults>>

(* CDPBrowserError: nothing catches it, the call of the tool fails. *)
Refused(r) ==
  /\ pc[r] \in {"create", "attach", "act"}
  /\ future[r] = "error"
  /\ Goto(r, "ended")
  /\ Return(r)
  /\ UNCHANGED <<tool, attempt, left, tab, stopVars, faults>>

(***************************************************************************)
(* The handler of execute(): TimeoutError, CDPSessionClosed or             *)
(* CDPConnectionClosed in the first attempt drops the tool's tab, whoever  *)
(* opened it, and begins again; in the second the call fails.              *)
(***************************************************************************)
Lost(r) ==
  IF attempt[r] = 1
  THEN /\ Goto(r, "ensure")
       /\ tab' = [tab EXCEPT ![tool[r]] = NoTab]
       /\ attempt' = [attempt EXCEPT ![r] = 2]
       /\ left' = [left EXCEPT ![r] = Steps]
  ELSE Goto(r, "ended") /\ UNCHANGED <<attempt, left, tab>>

(* _dispatch: the next command to the tab the tool has at this moment. *)
Act(r) ==
  /\ pc[r] = "dispatch"
  /\ tab[tool[r]] # NoTab
  /\ \/ /\ Execute(r, tab[tool[r]], "act")
        /\ Goto(r, "act")
        /\ UNCHANGED <<attempt, left, tab>>
     \/ ExecuteFails(r, tab[tool[r]]) /\ Lost(r)
  /\ UNCHANGED <<tool, stopVars, faults>>

(* Another request of the tool has dropped the tab: AttributeError. *)
ActOnNone(r) ==
  /\ pc[r] = "dispatch"
  /\ tab[tool[r]] = NoTab
  /\ Goto(r, "ended")
  /\ UNCHANGED <<connVars, tool, attempt, left, tab, stopVars, faults>>

(* The command is answered: the action goes on or returns. *)
Acted(r) ==
  /\ pc[r] = "act"
  /\ future[r] = "result"
  /\ left' = [left EXCEPT ![r] = @ - 1]
  /\ Goto(r, IF left[r] = 1 THEN "ended" ELSE "dispatch")
  /\ Return(r)
  /\ UNCHANGED <<tool, attempt, tab, stopVars, faults>>

(* The tab was closed under the action. *)
ActClosed(r) ==
  /\ pc[r] = "act"
  /\ future[r] = "closed"
  /\ Return(r)
  /\ Lost(r)
  /\ UNCHANGED <<tool, stopVars, faults>>

(* Not the code: the tab's commands wait without a limit. *)
NoTimeout(r) == FALSE

(* wait_for(_dispatch, 30 s), while it waits for a command. *)
TimesOut(r) == pc[r] = "act"

TimeOut(r) ==
  /\ TimesOut(r)
  /\ Cancel(r)
  /\ Goto(r, "expired")
  /\ UNCHANGED <<tool, attempt, left, tab, stopVars, faults>>

(* The cancelled _dispatch unwinds and wait_for raises TimeoutError. *)
Expired(r) ==
  /\ pc[r] = "expired"
  /\ Unwind(r)
  /\ Lost(r)
  /\ UNCHANGED <<tool, stopVars, faults>>

-----------------------------------------------------------------------------
(* The reader and Chrome. *)
ReadAnswer(q) ==
  /\ Answer(q, "result")
  /\ UNCHANGED <<toolVars, stopVars, faults>>

(* At the bound on sessions Chrome refuses another one. *)
ReadError(q) ==
  /\ faults < MaxFaults \/ (q.kind = "attach" /\ opened = MaxSessions)
  /\ Answer(q, "error")
  /\ faults' = IF faults < MaxFaults THEN faults + 1 ELSE faults
  /\ UNCHANGED <<toolVars, stopVars>>

TabDropped(s) ==
  /\ faults < MaxFaults
  /\ Detach(s)
  /\ faults' = faults + 1
  /\ UNCHANGED <<toolVars, stopVars>>

ChromeDies ==
  /\ faults < MaxFaults
  /\ Dies
  /\ faults' = faults + 1
  /\ UNCHANGED <<toolVars, stopVars>>

EndOfStream ==
  /\ ReaderEnds
  /\ UNCHANGED <<toolVars, stopVars, faults>>

-----------------------------------------------------------------------------
(* Orchestrator.stop: drain() waits for the calls there are ... *)
Stop ==
  /\ stopAt = "serving"
  /\ stopAt' = "agents"
  /\ awaited' = {r \in Requests : pc[r] \in Active}
  /\ UNCHANGED <<connVars, toolVars, cleaned, faults>>

(* ... then every agent cleans up: the connection is closed ... *)
Cleanup ==
  /\ stopAt = "agents"
  /\ cleaned # Tools
  /\ \A r \in awaited : pc[r] = "ended"
  /\ ChromeFree
  /\ CloseConnection
  /\ stopAt' = "closing"
  /\ UNCHANGED <<toolVars, awaited, cleaned, faults>>

(* ... and Chrome is killed; the tool forgets its tab. Agents have an order. *)
Killed ==
  /\ stopAt = "closing"
  /\ IF alive THEN Dies ELSE UNCHANGED connVars
  /\ stopAt' = "agents"
  /\ LET t == CHOOSE t \in Tools \ cleaned : TRUE IN
       /\ cleaned' = cleaned \union {t}
       /\ tab' = [tab EXCEPT ![t] = NoTab]
  /\ UNCHANGED <<tool, pc, attempt, left, awaited, faults>>

(* The task of run() is cancelled, and with it the late messages' work. *)
Down ==
  /\ stopAt = "agents"
  /\ cleaned = Tools
  /\ stopAt' = "down"
  /\ pc' = [r \in Requests |-> IF pc[r] \in Active THEN "ended" ELSE pc[r]]
  /\ UNCHANGED <<connVars, tool, attempt, left, tab, awaited, cleaned, faults>>

Step(r) ==
  \/ EnsureTab(r)
  \/ OpenConnected(r)
  \/ OpenLaunching(r)
  \/ Launched(r)
  \/ LaunchFails(r)
  \/ Create(r)
  \/ Attach(r)
  \/ TabOpened(r)
  \/ Refused(r)
  \/ Act(r)
  \/ ActOnNone(r)
  \/ Acted(r)
  \/ ActClosed(r)
  \/ TimeOut(r)
  \/ Expired(r)

(* After the shutdown the process is gone. *)
Up == stopAt # "down"

Next ==
  /\ Up
  /\ \/ \E r \in Requests : Start(r) \/ Step(r)
     \/ \E q \in sent : ReadAnswer(q) \/ ReadError(q)
     \/ \E s \in attached : TabDropped(s)
     \/ ChromeDies
     \/ EndOfStream
     \/ Stop
     \/ Cleanup
     \/ Killed
     \/ Down

Spec == Init /\ [][Next]_vars

(***************************************************************************)
(* The event loop runs what is ready; the tab's timer fires; a Chrome that *)
(* lives answers what open_tab asks it.  Nothing says that a page answers. *)
(***************************************************************************)
Fairness ==
  /\ \A r \in Requests : WF_vars(Up /\ Step(r))
  /\ WF_vars(Up /\ \E q \in sent : q.owner = Root /\ (ReadAnswer(q) \/ ReadError(q)))
  /\ WF_vars(Up /\ EndOfStream)
  /\ WF_vars(Killed)

FairSpec == Spec /\ Fairness

-----------------------------------------------------------------------------
(* Types, where futures stand, and the two locks: one holder each. *)
TypeOK ==
  /\ ConnTypeOK
  /\ tool \in [Requests -> Tools]
  /\ pc \in [Requests -> PC]
  /\ attempt \in [Requests -> 1..2]
  /\ left \in [Requests -> 0..Steps]
  /\ tab \in [Tools -> Sessions \union {NoTab}]
  /\ stopAt \in {"serving", "agents", "closing", "down"}
  /\ awaited \subseteq Requests
  /\ cleaned \subseteq Tools
  /\ faults \in 0..MaxFaults
  /\ stopAt # "down" => \A r \in Requests : pc[r] = "expired" <=> future[r] = "cancelled"
  /\ Cardinality({r \in Requests : pc[r] \in HoldsChrome}) <= 1

(***************************************************************************)
(* A connection is made only when the last one is down, however long the   *)
(* launch takes and whoever else wants a tab meanwhile: no request loses   *)
(* its tab to another one's launch (_ensure_running).                      *)
(***************************************************************************)
ConnectsOnlyWhenDown ==
  [][\A r \in Requests : Launched(r) => ~ wsOpen]_vars

(***************************************************************************)
(* A call of the tool ends, with a page that never answers, a Chrome that  *)
(* dies, tabs that are dropped, unless the holder of Chrome's lock waits   *)
(* for an answer on a connection nobody reads any more: open_tab has no    *)
(* timeout and the root session's commands are never failed.               *)
(***************************************************************************)
Wedged ==
  /\ ~ reading
  /\ \E r \in Requests : pc[r] \in {"create", "attach"} /\ future[r] = "pending"

EndsUnlessWedged ==
  \A r \in Requests : pc[r] \in Active ~> (pc[r] \notin Active \/ Wedged)
=============================================================================
