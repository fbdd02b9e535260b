------------------------------ MODULE Channels -------------------------------
(***************************************************************************)
(* The ChannelManager of channels/manager.py with its one channel,         *)
(* Telegram (channels/telegram.py): started with the server, started and   *)
(* stopped from the settings page, stopped with the server; and the        *)
(* dispatcher that sends the agents' messages through it and mirrors them  *)
(* to the browsers.                                                        *)
(*                                                                         *)
(* Each start makes a new TelegramChannel.  What Telegram does is a free   *)
(* choice: a start or a send succeeds or raises, and a send that raises    *)
(* may have arrived.  The texts of parts, typing notices and what comes in *)
(* are left out.  Requests are over before the server stops (uvicorn).     *)
(***************************************************************************)
EXTENDS Naturals, Sequences, FiniteSets, SequencesExt

CONSTANTS
  Calls,       \* bound: requests from the settings page
  Messages,    \* bound: messages published
  MaxParts,    \* bound: parts of a message
  None

ASSUME PartsAssumption == MaxParts \in Nat \ {0} /\ None \notin Calls \union {"server"}

(* A channel object is known by who made it. *)
Objects == Calls \union {"server"}

VARIABLES
  life,        \* of the server
  channel,     \* _channels["telegram"], or None
  phase,       \* of each TelegramChannel
  call,        \* how far each request is
  target,      \* the object each request awaits
  shape,       \* of each message: its parts, its media, forwarded_input
  outbound,    \* the outbound queue
  job,         \* what _dispatch_outbound awaits
  told,        \* the last channel:status
  \* history
  arrived,     \* what Telegram's user sees: messages and parts
  mirrored,    \* messages the browsers were told of
  published,   \* in their order
  overlapped   \* two starts have been under way at once

callVars == <<call, target, overlapped>>
sendVars == <<shape, outbound, job, arrived, mirrored, published>>
channelsVars == <<life, channel, phase, told, callVars, sendVars>>

(* is_running; with its _app *)
Running(o) == o # None /\ phase[o] = "up"
Gone(o) == phase[o] = "down"

Idle == [at |-> "idle", of |-> None, part |-> 0, by |-> None]
InFlight == {"media", "note", "html", "plain", "mirror"}

ChannelsInit ==
  /\ life = "booting"
  /\ phase \in {[o \in Objects |-> "none"], [o \in Objects |-> IF o = "server" THEN "starting" ELSE "none"]}
  /\ channel = IF phase["server"] = "starting" THEN "server" ELSE None
  /\ call = [c \in Calls |-> "none"]
  /\ target = [c \in Calls |-> None]
  /\ shape \in [Messages -> [parts : 1..MaxParts, media : BOOLEAN, forwarded : BOOLEAN]]
  /\ outbound = <<>>
  /\ job = Idle
  /\ told = FALSE
  /\ arrived = <<>>
  /\ mirrored = {}
  /\ published = <<>>
  /\ overlapped = FALSE

-----------------------------------------------------------------------------
(* TelegramChannel: its start ends, or raises, or finds no token. *)
Starts(o) ==
  /\ phase[o] = "starting"
  /\ phase' = [phase EXCEPT ![o] = "up"]
DoesNotStart(o) ==
  /\ phase[o] = "starting"
  /\ phase' = [phase EXCEPT ![o] = "down"]

Stopped(o) ==
  /\ phase[o] = "stopping"
  /\ phase' = [phase EXCEPT ![o] = "down"]

(* ChannelManager.start; after it the server serves. *)
Serve ==
  /\ life = "booting"
  /\ \/ channel = None /\ UNCHANGED phase
     \/ channel # None /\ (Starts(channel) \/ DoesNotStart(channel))
  /\ life' = "serving"
  /\ told' = (channel # None /\ phase'[channel] = "up")
  /\ UNCHANGED <<channel, callVars, sendVars>>

-----------------------------------------------------------------------------
(* start_channel and stop_channel *)

StartCalls == {"restarting", "starting"}
Busy == {c \in Calls : call[c] \in StartCalls \union {"stopping"}}

(* Not the code: the running channel is left to itself. *)
LeavesRunning == FALSE

(* existing and existing.is_running *)
StopsFirst == Running(channel)

(* The new object is made, put in the place of the old one, and started. *)
Create(c) ==
  /\ channel' = c
  /\ target' = [target EXCEPT ![c] = c]
  /\ call' = [call EXCEPT ![c] = "starting"]

(* _create_channel returns None: its credential is gone. *)
CannotCreate(c) ==
  /\ channel' = None
  /\ told' = FALSE
  /\ call' = [call EXCEPT ![c] = "ended"]
  /\ UNCHANGED target

NoteOverlap == overlapped' = (overlapped \/ \E d \in Calls : call[d] \in StartCalls)

StartChannel(c) ==
  /\ life = "serving"
  /\ call[c] = "none"
  /\ NoteOverlap
  /\ \/ /\ StopsFirst
        /\ phase' = [phase EXCEPT ![channel] = "stopping"]
        /\ target' = [target EXCEPT ![c] = channel]
        /\ call' = [call EXCEPT ![c] = "restarting"]
        /\ UNCHANGED <<channel, told>>
     \/ /\ ~ StopsFirst
        /\ \/ Create(c) /\ phase' = [phase EXCEPT ![c] = "starting"] /\ UNCHANGED told
           \/ CannotCreate(c) /\ UNCHANGED phase
  /\ UNCHANGED <<life, sendVars>>

Restart(c) ==
  /\ call[c] = "restarting"
  /\ phase[target[c]] = "stopping"
  /\ \/ /\ Create(c)
        /\ phase' = [phase EXCEPT ![target[c]] = "down", ![c] = "starting"]
        /\ UNCHANGED told
     \/ /\ CannotCreate(c)
        /\ Stopped(target[c])
  /\ UNCHANGED <<life, overlapped, sendVars>>

(* An exception goes to the caller; without a token there is none. *)
StartEnds(c) ==
  /\ call[c] = "starting"
  /\ \/ Starts(c) /\ told' = TRUE
     \/ DoesNotStart(c) /\ told' \in {told, FALSE}
  /\ call' = [call EXCEPT ![c] = "ended"]
  /\ UNCHANGED <<life, channel, target, overlapped, sendVars>>

(* A channel that is not running is not stopped (409). *)
StopChannel(c) ==
  /\ life = "serving"
  /\ call[c] = "none"
  /\ Running(channel)
  /\ phase' = [phase EXCEPT ![channel] = "stopping"]
  /\ target' = [target EXCEPT ![c] = channel]
  /\ call' = [call EXCEPT ![c] = "stopping"]
  /\ UNCHANGED <<life, channel, told, overlapped, sendVars>>

StopEnds(c) ==
  /\ call[c] = "stopping"
  /\ Stopped(target[c])
  /\ told' = FALSE
  /\ call' = [call EXCEPT ![c] = "ended"]
  /\ UNCHANGED <<life, channel, target, overlapped, sendVars>>

-----------------------------------------------------------------------------
(* _dispatch_outbound *)

Publish(m) ==
  /\ life = "serving"
  /\ ~ Contains(published, m)
  /\ outbound' = Append(outbound, m)
  /\ published' = Append(published, m)
  /\ UNCHANGED <<life, channel, phase, told, callVars, shape, job, arrived, mirrored>>

(* After send: the broadcast, but for a forwarded question. *)
Mirror == IF shape[job.of].forwarded THEN Idle ELSE [job EXCEPT !.at = "mirror"]

(* Not the code: a send that raises ends the message. *)
NoMirror == Idle

(* _route_message catches it. *)
AfterError == Mirror

(* Not the code: after a part that failed the message is sent again. *)
FromTheStart(k) == [job EXCEPT !.at = "html", !.part = IF k > shape[job.of].parts THEN 1 ELSE k]

(* The next part; when _app is gone meanwhile, every other part raises. *)
PartFrom(k) ==
  IF k > shape[job.of].parts \/ Gone(job.by) THEN Mirror
  ELSE [job EXCEPT !.at = "html", !.part = k]

DispatchUnchanged == UNCHANGED <<life, channel, phase, told, callVars, shape, published>>

(***************************************************************************)
(* consume_outbound, and send if the channel is running.  (_route_message  *)
(* would drop what is marked as progress or as a tool hint when they are   *)
(* switched off: nothing publishes a message with either mark.)            *)
(***************************************************************************)
Take ==
  /\ life = "serving"
  /\ job = Idle /\ outbound # <<>>
  /\ LET m == Head(outbound)
         first == IF shape[m].media THEN "media" ELSE "html"
     IN  \/ Running(channel) /\ job' = [at |-> first, of |-> m, part |-> 1, by |-> channel]
         \/ ~ Running(channel) /\ shape[m].forwarded /\ UNCHANGED job
         \/ /\ ~ Running(channel) /\ ~ shape[m].forwarded
            /\ job' = [at |-> "mirror", of |-> m, part |-> 1, by |-> None]
  /\ outbound' = Tail(outbound)
  /\ UNCHANGED <<arrived, mirrored>>
  /\ DispatchUnchanged

(* An image; if it cannot be sent, a note that says so, and if that raises, nothing. *)
SendMedia ==
  /\ job.at = "media"
  /\ job' \in {PartFrom(1), IF Gone(job.by) THEN AfterError ELSE [job EXCEPT !.at = "note"]}
  /\ UNCHANGED <<outbound, arrived, mirrored>>
  /\ DispatchUnchanged

SendNote ==
  /\ job.at = "note"
  /\ job' \in {PartFrom(1), AfterError}
  /\ UNCHANGED <<outbound, arrived, mirrored>>
  /\ DispatchUnchanged

Arrives == arrived' = Append(arrived, [of |-> job.of, part |-> job.part])

(* A part, as HTML, and as it is if that raises. *)
SendPart ==
  /\ job.at = "html"
  /\ \/ Arrives /\ job' = PartFrom(job.part + 1)
     \/ /\ Arrives \/ UNCHANGED arrived
        /\ job' = IF Gone(job.by) THEN PartFrom(job.part + 1) ELSE [job EXCEPT !.at = "plain"]
  /\ UNCHANGED <<outbound, mirrored>>
  /\ DispatchUnchanged

(* The second exception is logged, and the next part is sent. *)
SendPlain ==
  /\ job.at = "plain"
  /\ Arrives \/ UNCHANGED arrived
  /\ job' = PartFrom(job.part + 1)
  /\ UNCHANGED <<outbound, mirrored>>
  /\ DispatchUnchanged

Broadcast ==
  /\ job.at = "mirror"
  /\ job' = Idle
  /\ mirrored' = mirrored \union {job.of}
  /\ UNCHANGED <<outbound, arrived>>
  /\ DispatchUnchanged

-----------------------------------------------------------------------------
(* ChannelManager.stop: the dispatcher is cancelled, then the channel is stopped. *)
Shutdown ==
  /\ life = "serving"
  /\ Busy = {}
  /\ life' = "stopping"
  /\ job' = Idle
  /\ phase' = IF Running(channel) THEN [phase EXCEPT ![channel] = "stopping"] ELSE phase
  /\ UNCHANGED <<channel, told, callVars, shape, outbound, arrived, mirrored, published>>

(* It has stopped, or ten seconds have passed. *)
ShutdownEnds ==
  /\ life = "stopping"
  /\ life' = "down"
  /\ \/ channel # None /\ Stopped(channel)
     \/ UNCHANGED phase
  /\ UNCHANGED <<channel, told, callVars, sendVars>>

Send == Take \/ SendMedia \/ SendNote \/ SendPart \/ SendPlain \/ Broadcast

ChannelsNext ==
  \/ Serve \/ Shutdown \/ ShutdownEnds
  \/ \E c \in Calls :
       StartChannel(c) \/ Restart(c) \/ StartEnds(c) \/ StopChannel(c) \/ StopEnds(c)
  \/ \E m \in Messages : Publish(m)
  \/ Send

(* A send comes to an end (Telegram's client has timeouts), and the loop goes on. *)
ChannelsSpec == ChannelsInit /\ [][ChannelsNext]_channelsVars
ChannelsFairSpec == ChannelsSpec /\ WF_channelsVars(Send)

-----------------------------------------------------------------------------
(***************************************************************************)
(* The bot polls as the one that is registered, or is being stopped: no    *)
(* order of starts, stops, failures and the shutdown leaves one behind     *)
(* that no later stop would reach.  Starts that overlap do (start_channel  *)
(* looks, awaits, and registers what it has made).                         *)
(***************************************************************************)
NoOrphan ==
  overlapped \/ \A o \in Objects : phase[o] = "up" => o = channel /\ life # "down"

(***************************************************************************)
(* Telegram's user sees the messages in the order they were published and  *)
(* the parts of each in theirs, whatever sends fail or are repeated and    *)
(* however often the channel is replaced on the way.                       *)
(***************************************************************************)
Position(m) == CHOOSE k \in DOMAIN published : published[k] = m

InOrder ==
  \A i, j \in DOMAIN arrived :
    i < j => \/ Position(arrived[i].of) < Position(arrived[j].of)
             \/ arrived[i].of = arrived[j].of /\ arrived[i].part <= arrived[j].part

(***************************************************************************)
(* "always broadcast to WebSocket so the web UI mirrors all sessions":     *)
(* what is published reaches the browsers, whatever Telegram does, while   *)
(* the server is not stopped.                                              *)
(***************************************************************************)
EachIsMirrored ==
  \A m \in Messages :
    Contains(published, m) ~> m \in mirrored \/ shape[m].forwarded \/ life # "serving"
=============================================================================
