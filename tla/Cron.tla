-------------------------------- MODULE Cron --------------------------------
(***************************************************************************)
(* The scheduler of src/openbotx/cron/service.py: jobs in memory and in    *)
(* cron_jobs.json, added and removed by the cron tool and the HTTP routes  *)
(* while a tick, every five seconds, calls back for those that are due.    *)
(*                                                                         *)
(* The callback is a parameter of CronService.  It is taken to publish at  *)
(* its start, and then to return, to suspend or to fail; the one the       *)
(* server installs (app.py, create_cron_callback) puts a message on an     *)
(* unbounded queue, and does the first.  The list of jobs is a function    *)
(* from their ids: a tick takes them in any order.                         *)
(***************************************************************************)
EXTENDS Integers

CONSTANTS
  Jobs,      \* ids
  Schedules, \* records of kind "at", "every", "cron" and a time
  MaxClock,  \* bound: readings of the clock
  MaxStops,  \* bound: times the server stops
  MaxFails   \* bound: times the callback fails

VARIABLES
  up,        \* the server runs
  clock,     \* time.time()
  jobs,      \* _store.jobs
  file,      \* the jobs _load finds in cron_jobs.json
  at,        \* where run() is
  snapshot,  \* _tick: jobs not looked at yet
  now,       \* _tick: now_ms
  toDelete,  \* _tick: to_delete
  dirty,     \* _tick: dirty
  calling,   \* the job whose callback is awaited
  stops,     \* how often the server has stopped
  fails,     \* how often the callback has failed
  added,     \* history: ids that were given
  gone,      \* history: ids removed by somebody, or deleted after their run
  fired,     \* history: per id, now_ms of its last call since the start, or 0
  raised,    \* history: the ids whose last call has raised
  torn       \* history: a stop has cut the file short

diskVars == <<jobs, file>>
tickVars == <<at, snapshot, now, toDelete, dirty, calling>>
boundVars == <<stops, fails>>
historyVars == <<added, gone, fired, raised, torn>>
vars == <<up, clock, diskVars, tickVars, boundVars, historyVars>>

(* No callback is awaited. *)
NoJob == "no job"

ASSUME BoundsAssumption == MaxClock \in Nat /\ MaxStops \in Nat /\ MaxFails \in Nat
ASSUME JobsAssumption == NoJob \notin Jobs
ASSUME ScheduleAssumption ==
  Schedules \subseteq [kind : {"at", "every", "cron"}, time : Int]

Job == [schedule : Schedules, next : Int]
Empty == [j \in {} |-> NoJob]

(* A file cut short is not JSON: _load warns, and finds nothing. *)
CutShort == Empty

Init ==
  /\ up = TRUE
  /\ clock = 1
  /\ jobs = Empty
  /\ file = Empty
  /\ at = "asleep"
  /\ snapshot = Empty
  /\ now = 0
  /\ toDelete = {}
  /\ dirty = FALSE
  /\ calling = NoJob
  /\ stops = 0
  /\ fails = 0
  /\ added = {}
  /\ gone = {}
  /\ fired = [j \in Jobs |-> 0]
  /\ raised = {}
  /\ torn = FALSE

-----------------------------------------------------------------------------
Without(table, ids) == [j \in DOMAIN table \ ids |-> table[j]]

(* The id is new, or its entry is replaced. *)
With(table, j, job) == [i \in DOMAIN table \union {j} |-> IF i = j THEN job ELSE table[i]]

(***************************************************************************)
(* _compute_next_run_ms, at a reading of the clock.  croniter's next time  *)
(* is later than now; an expression or a zone it cannot use gives a minute *)
(* from now.  every_ms can be zero (POST /jobs without a schedule) and     *)
(* negative (the cron tool looks at every_seconds for its truth only).     *)
(***************************************************************************)
NextRuns(s, reading) ==
  CASE s.kind = "at" -> {s.time}
    [] s.kind = "every" -> {reading + s.time}
    [] s.kind = "cron" -> {reading + 1, reading + 2}

(* run() is suspended: in its sleep, or in a callback. *)
Suspended == up /\ at \in {"asleep", "calling"}

(* add_job, from the tool or POST /jobs. *)
AddJob(j, s) ==
  /\ Suspended
  /\ j \notin added
  /\ \E n \in NextRuns(s, clock) : jobs' = With(jobs, j, [schedule |-> s, next |-> n])
  /\ file' = jobs'
  /\ added' = added \union {j}
  /\ UNCHANGED <<up, clock, tickVars, boundVars, gone, fired, raised, torn>>

(* remove_job, from the tool or DELETE /jobs/{id}. *)
RemoveJob(j) ==
  /\ Suspended
  /\ j \in DOMAIN jobs
  /\ jobs' = Without(jobs, {j})
  /\ file' = jobs'
  /\ gone' = gone \union {j}
  /\ UNCHANGED <<up, clock, tickVars, boundVars, added, fired, raised, torn>>

-----------------------------------------------------------------------------
(* run: five seconds are over. *)
TickStart ==
  /\ up
  /\ at = "asleep"
  /\ at' = "ticking"
  /\ snapshot' = jobs
  /\ now' = clock
  /\ toDelete' = {}
  /\ dirty' = FALSE
  /\ UNCHANGED <<up, clock, diskVars, calling, boundVars, historyVars>>

(* Not the code: the snapshot is trusted. *)
InSnapshot(j) == j \in DOMAIN snapshot

(* job.id in self._active_job_ids() *)
IsActive(j) == j \in DOMAIN jobs

(* The jobs of the snapshot the tick still has to call back for. *)
DueInTick == {j \in DOMAIN snapshot : IsActive(j) /\ snapshot[j].next <= now}

Call(j) ==
  /\ up
  /\ at = "ticking"
  /\ j \in DueInTick
  /\ at' = "calling"
  /\ calling' = j
  /\ snapshot' = Without(snapshot, {j})
  /\ fired' = [fired EXCEPT ![j] = now]
  /\ raised' = raised \ {j}
  /\ UNCHANGED <<up, clock, diskVars, now, toDelete, dirty, boundVars, added, gone, torn>>

(* Not the code: only delete_after_run is looked at, and it was not set. *)
NeverDone(s) == FALSE

(* job.delete_after_run or job.schedule.kind == "at"; both callers of      *)
(* add_job set the first for "at" and for nothing else.                    *)
RunsOnce(s) == s.kind = "at"

(* The callback has returned, and the job is still there. *)
Ran ==
  /\ up
  /\ at = "calling"
  /\ calling \in DOMAIN jobs
  /\ at' = "ticking"
  /\ calling' = NoJob
  /\ dirty' = TRUE
  /\ LET s == jobs[calling].schedule IN
       IF RunsOnce(s)
       THEN toDelete' = toDelete \union {calling} /\ UNCHANGED jobs
       ELSE /\ \E n \in NextRuns(s, clock) : jobs' = [jobs EXCEPT ![calling].next = n]
            /\ UNCHANGED toDelete
  /\ UNCHANGED <<up, clock, file, snapshot, now, boundVars, historyVars>>

(* It has returned, and the job was removed meanwhile. *)
RanRemoved ==
  /\ up
  /\ at = "calling"
  /\ calling \notin DOMAIN jobs
  /\ at' = "ticking"
  /\ calling' = NoJob
  /\ UNCHANGED <<up, clock, diskVars, snapshot, now, toDelete, dirty, boundVars, historyVars>>

(* It has raised, maybe after publishing: errors is counted, the job stays due. *)
Failed ==
  /\ up
  /\ at = "calling"
  /\ fails < MaxFails
  /\ fails' = fails + 1
  /\ at' = "ticking"
  /\ dirty' = TRUE
  /\ raised' = raised \union {calling}
  /\ calling' = NoJob
  /\ UNCHANGED <<up, clock, diskVars, snapshot, now, toDelete, stops, added, gone, fired, torn>>

(* Not the code: the file is written when a job was deleted. *)
DeletesOnly == toDelete # {}

(* if dirty or to_delete *)
Persists == dirty \/ toDelete # {}

TickEnd ==
  /\ up
  /\ at = "ticking"
  /\ DueInTick = {}
  /\ at' = "asleep"
  /\ jobs' = Without(jobs, toDelete)
  /\ file' = IF Persists THEN jobs' ELSE file
  /\ gone' = gone \union toDelete
  /\ snapshot' = Empty
  /\ now' = 0
  /\ toDelete' = {}
  /\ dirty' = FALSE
  /\ UNCHANGED <<up, clock, calling, boundVars, added, fired, raised, torn>>

-----------------------------------------------------------------------------
TimePasses ==
  /\ clock < MaxClock
  /\ clock' = clock + 1
  /\ UNCHANGED <<up, diskVars, tickVars, boundVars, historyVars>>

(***************************************************************************)
(* The server stops: in order (stop() and the cancellation of run(), which *)
(* leaves _tick without its _persist), or killed, maybe between the        *)
(* truncation of the file and its writing.                                 *)
(***************************************************************************)
Stop ==
  /\ up
  /\ stops < MaxStops
  /\ stops' = stops + 1
  /\ up' = FALSE
  /\ \/ UNCHANGED <<file, torn>>
     \/ file' = CutShort /\ torn' = TRUE
  /\ jobs' = Empty
  /\ at' = "asleep"
  /\ snapshot' = Empty
  /\ now' = 0
  /\ toDelete' = {}
  /\ dirty' = FALSE
  /\ calling' = NoJob
  /\ fired' = [j \in Jobs |-> 0]
  /\ raised' = {}
  /\ UNCHANGED <<clock, fails, added, gone>>

(* CronService.__init__ *)
Boot ==
  /\ ~ up
  /\ up' = TRUE
  /\ jobs' = file
  /\ UNCHANGED <<clock, file, tickVars, boundVars, historyVars>>

Next ==
  \/ \E j \in Jobs, s \in Schedules : AddJob(j, s)
  \/ \E j \in Jobs : RemoveJob(j) \/ Call(j)
  \/ TickStart
  \/ Ran
  \/ RanRemoved
  \/ Failed
  \/ TickEnd
  \/ TimePasses
  \/ Stop
  \/ Boot

Spec == Init /\ [][Next]_vars

(* The loop ticks, callbacks return, a stopped server is started again. *)
Fairness ==
  /\ WF_vars(TickStart)
  /\ WF_vars(\E j \in Jobs : Call(j))
  /\ WF_vars(Ran \/ RanRemoved)
  /\ WF_vars(TickEnd)
  /\ WF_vars(Boot)

FairSpec == Spec /\ Fairness

-----------------------------------------------------------------------------
Table(f) == DOMAIN f \subseteq Jobs /\ f \in [DOMAIN f -> Job]

(* Types; a callback is awaited exactly while run() is in it. *)
TypeOK ==
  /\ up \in BOOLEAN
  /\ clock \in Nat
  /\ Table(jobs) /\ Table(snapshot)
  /\ Table(file)
  /\ at \in {"asleep", "ticking", "calling"}
  /\ now \in Nat
  /\ toDelete \subseteq Jobs
  /\ dirty \in BOOLEAN
  /\ calling \in Jobs \union {NoJob}
  /\ stops \in 0..MaxStops /\ fails \in 0..MaxFails
  /\ added \subseteq Jobs /\ gone \subseteq Jobs
  /\ fired \in [Jobs -> Nat]
  /\ raised \subseteq Jobs
  /\ torn \in BOOLEAN
  /\ at = "calling" <=> calling # NoJob

(***************************************************************************)
(* Whatever callbacks do, is added or removed under them and stops on the  *)
(* way: with no tick under way a restart finds the jobs the server has,    *)
(* with their next runs; a removed job never comes back; and none is lost  *)
(* unless a stop has cut the file short.                                   *)
(***************************************************************************)
Scheduled == IF up THEN jobs ELSE file

JobsKept ==
  /\ up /\ at = "asleep" => file = jobs
  /\ gone \intersect (DOMAIN jobs \union DOMAIN file) = {}
  /\ torn \/ added \ gone \subseteq DOMAIN Scheduled

(***************************************************************************)
(* A job is called back for only while it is scheduled and once its time   *)
(* has come: an "at" job not again, one at intervals not before its        *)
(* interval since the last call is over, one by an expression at a later   *)
(* time only.  The exceptions: a callback that raised, maybe after it had  *)
(* published, leaves the job due, and it is called again; so it is after a *)
(* stop, which can come before the tick has written what ran.              *)
(***************************************************************************)
AgainAt(s, last) ==
  /\ ~ RunsOnce(s)
  /\ s.kind = "every" => last + s.time <= now
  /\ s.kind = "cron" => last < now

MayCall(j) ==
  /\ j \in added \ gone
  /\ j \in DOMAIN jobs
  /\ jobs[j].next <= now
  /\ jobs[j].schedule.kind = "at" => jobs[j].schedule.time <= now
  /\ fired[j] # 0 /\ j \notin raised => AgainAt(jobs[j].schedule, fired[j])

CallsAsScheduled == [][\A j \in Jobs : Call(j) => MayCall(j)]_vars

(***************************************************************************)
(* A job that is due is called back for, or removed, or lost with the file *)
(* (_load), whatever fails, is removed or is restarted on the way.  A job  *)
(* whose interval is zero or less is always due, and holds up no other.    *)
(***************************************************************************)
AlwaysDue(s) == s.kind = "every" /\ s.time <= 0

Due(j) ==
  /\ j \in DOMAIN Scheduled
  /\ Scheduled[j].next <= clock
  /\ ~ AlwaysDue(Scheduled[j].schedule)

DueRuns == \A j \in Jobs : Due(j) ~> ~ Due(j)
=============================================================================
