--------------------------- MODULE ServicesProofs ---------------------------
(***************************************************************************)
(* Theorems about the two services of the server that run beside the       *)
(* agents, and share nothing: Cron, for every set of jobs and of schedules *)
(* (the schedule and its file keep the jobs, a job is called back for as   *)
(* it is scheduled), and Channels, for every set of requests and messages  *)
(* (no channel is left polling, what is sent is in order).                 *)
(***************************************************************************)
EXTENDS Cron, Channels, TLAPS

(* The scheduler. *)

(* Between two ticks nothing is pending; a stopped server has no memory. *)
Quiet ==
  /\ at = "asleep" => snapshot = Empty /\ toDelete = {} /\ dirty = FALSE
  /\ ~ up => at = "asleep" /\ jobs = Empty /\ fired = [j \in Jobs |-> 0]

(* Every id there is anywhere was given by add_job. *)
GivenIds ==
  /\ DOMAIN jobs \subseteq added /\ DOMAIN file \subseteq added
  /\ DOMAIN snapshot \subseteq added /\ toDelete \subseteq added
  /\ gone \subseteq added
  /\ \A j \in Jobs : fired[j] # 0 => j \in added

(* The file is behind the table only after a callback of this tick; neither loses a job. *)
OnFile ==
  /\ up /\ dirty = FALSE => file = jobs
  /\ gone \intersect (DOMAIN jobs \union DOMAIN file) = {}
  /\ torn \/ added \ gone \subseteq DOMAIN file
  /\ up => torn \/ added \ gone \subseteq DOMAIN jobs

(* What the tick has still to look at is as it was, and not called back for yet. *)
Ahead ==
  /\ \A j \in DOMAIN snapshot : j \notin toDelete /\ j # calling
  /\ \A j \in DOMAIN snapshot \intersect DOMAIN jobs : snapshot[j] = jobs[j]

(* A job that was called has its next run after that, unless the tick deletes it or it raised. *)
RunLater(j) ==
  /\ ~ RunsOnce(jobs[j].schedule)
  /\ jobs[j].schedule.kind = "every" => fired[j] + jobs[j].schedule.time <= jobs[j].next
  /\ jobs[j].schedule.kind = "cron" => fired[j] < jobs[j].next

CalledLater ==
  /\ now <= clock
  /\ \A j \in Jobs : fired[j] <= clock
  /\ \A j \in DOMAIN jobs :
       fired[j] # 0 /\ j # calling /\ j \notin toDelete /\ j \notin raised => RunLater(j)

(* What runs once has its time for its next run. *)
OnTime(table) ==
  \A j \in DOMAIN table : table[j].schedule.kind = "at" => table[j].next = table[j].schedule.time

IInv == /\ TypeOK /\ Quiet /\ GivenIds /\ OnFile /\ Ahead /\ CalledLater
        /\ OnTime(jobs) /\ OnTime(file)

-----------------------------------------------------------------------------
(* Facts about tables *)

(* The table without a job. *)
LEMMA EmptyTable == Table(Empty) /\ DOMAIN Empty = {}
BY DEF Table, Empty

(* Removing leaves the other jobs as they are (remove_job, the end of _tick). *)
LEMMA WithoutTable ==
  ASSUME NEW t, Table(t), NEW ids
  PROVE  /\ Table(Without(t, ids))
         /\ DOMAIN Without(t, ids) = DOMAIN t \ ids
         /\ \A j \in DOMAIN t \ ids : Without(t, ids)[j] = t[j]
BY DEF Table, Without

(* To remove no job changes nothing. *)
LEMMA WithoutNone ==
  ASSUME NEW t, Table(t)
  PROVE  Without(t, {}) = t
BY DEF Table, Without

(* _compute_next_run_ms: the time itself, an interval from now, or a later time. *)
LEMMA NextRunsLater ==
  ASSUME NEW s \in Schedules, NEW reading \in Nat, NEW n \in NextRuns(s, reading)
  PROVE  /\ n \in Int /\ s.time \in Int
         /\ s.kind = "at" => n = s.time
         /\ s.kind = "every" => n = reading + s.time
         /\ s.kind = "cron" => n > reading
<1>1. s.kind \in {"at", "every", "cron"} /\ s.time \in Int
  BY ScheduleAssumption
<1>2. CASE s.kind = "at"
  BY <1>1, <1>2 DEF NextRuns
<1>3. CASE s.kind = "every"
  BY <1>1, <1>3 DEF NextRuns
<1>4. CASE s.kind = "cron"
  BY <1>1, <1>4 DEF NextRuns
<1> QED
  BY <1>1, <1>2, <1>3, <1>4

-----------------------------------------------------------------------------
(* It holds at the start. *)
LEMMA InitIInv == Init => IInv
<1> SUFFICES ASSUME Init PROVE IInv
  OBVIOUS
<1>1. TypeOK
  <2>1. Table(jobs) /\ Table(file) /\ Table(snapshot)
    BY EmptyTable DEF Init
  <2>2. stops \in 0..MaxStops /\ fails \in 0..MaxFails /\ clock \in Nat /\ now \in Nat
    BY BoundsAssumption DEF Init
  <2>3. fired \in [Jobs -> Nat]
    BY DEF Init
  <2> QED
    BY <2>1, <2>2, <2>3 DEF Init, TypeOK
<1>2. Quiet /\ GivenIds /\ OnFile /\ Ahead
  BY EmptyTable DEF Init, Quiet, GivenIds, OnFile, Ahead
<1>3. CalledLater /\ OnTime(jobs) /\ OnTime(file)
  BY EmptyTable DEF Init, CalledLater, OnTime
<1> QED
  BY <1>1, <1>2, <1>3 DEF IInv

(* add_job *)
LEMMA AddJobIInv ==
  ASSUME IInv, NEW j \in Jobs, NEW s \in Schedules, AddJob(j, s)
  PROVE  IInv'
<1>1. PICK n \in NextRuns(s, clock) : jobs' = With(jobs, j, [schedule |-> s, next |-> n])
  BY DEF AddJob
<1> DEFINE entry == [schedule |-> s, next |-> n]
<1>2. entry \in Job
  BY NextRunsLater DEF IInv, TypeOK, Job
<1> HIDE DEF entry
<1>3. /\ Table(jobs') /\ DOMAIN jobs' = DOMAIN jobs \union {j}
      /\ jobs'[j] = entry
      /\ \A i \in DOMAIN jobs \ {j} : jobs'[i] = jobs[i]
  <2>1. Table(jobs) /\ jobs' = With(jobs, j, entry)
    BY <1>1 DEF IInv, TypeOK, entry
  <2>2. /\ Table(With(jobs, j, entry)) /\ DOMAIN With(jobs, j, entry) = DOMAIN jobs \union {j}
        /\ With(jobs, j, entry)[j] = entry
        /\ \A i \in DOMAIN jobs \ {j} : With(jobs, j, entry)[i] = jobs[i]
    BY <1>2, <2>1 DEF Table, With
  <2> QED
    BY <2>1, <2>2, Zenon
<1>4. /\ j \notin added /\ file' = jobs' /\ added' = added \union {j} /\ up
      /\ UNCHANGED <<up, clock, at, snapshot, now, toDelete, dirty, calling>>
      /\ UNCHANGED <<stops, fails, gone, fired, raised, torn>>
  BY DEF AddJob, Suspended, tickVars, boundVars
<1>5. j \notin DOMAIN jobs /\ j \notin DOMAIN snapshot /\ fired[j] = 0 /\ j \notin gone
  BY <1>4 DEF IInv, GivenIds
<1>6. TypeOK'
  BY <1>3, <1>4 DEF IInv, TypeOK
<1>7. Quiet' /\ GivenIds' /\ OnFile' /\ Ahead'
  BY <1>3, <1>4, <1>5 DEF IInv, Quiet, GivenIds, OnFile, Ahead
<1>8. CalledLater'
  BY <1>3, <1>4, <1>5 DEF IInv, CalledLater, RunLater
<1>9. OnTime(jobs')
  <2>1. entry.schedule.kind = "at" => entry.next = entry.schedule.time
    BY NextRunsLater DEF IInv, TypeOK, entry
  <2> QED
    BY <2>1, <1>3 DEF IInv, OnTime
<1> QED
  BY <1>4, <1>6, <1>7, <1>8, <1>9 DEF IInv, OnTime

(* remove_job *)
LEMMA RemoveJobIInv ==
  ASSUME IInv, NEW j \in Jobs, RemoveJob(j)
  PROVE  IInv'
<1>1. /\ j \in DOMAIN jobs /\ jobs' = Without(jobs, {j}) /\ file' = jobs' /\ up
      /\ gone' = gone \union {j}
      /\ UNCHANGED <<up, clock, at, snapshot, now, toDelete, dirty, calling>>
      /\ UNCHANGED <<stops, fails, added, fired, raised, torn>>
  BY DEF RemoveJob, Suspended, tickVars, boundVars
<1>2. /\ Table(jobs') /\ DOMAIN jobs' = DOMAIN jobs \ {j}
      /\ \A i \in DOMAIN jobs \ {j} : jobs'[i] = jobs[i]
  BY <1>1, WithoutTable DEF IInv, TypeOK
<1>3. TypeOK'
  BY <1>1, <1>2 DEF IInv, TypeOK
<1>4. Quiet' /\ GivenIds' /\ OnFile' /\ Ahead'
  BY <1>1, <1>2 DEF IInv, Quiet, GivenIds, OnFile, Ahead
<1>5. CalledLater' /\ OnTime(jobs') /\ OnTime(file')
  BY <1>1, <1>2 DEF IInv, CalledLater, RunLater, OnTime
<1> QED
  BY <1>3, <1>4, <1>5 DEF IInv, OnTime

(* _tick begins: everything is still ahead. *)
LEMMA TickStartIInv == ASSUME IInv, TickStart PROVE IInv'
<1>1. /\ up /\ at = "asleep" /\ at' = "ticking" /\ snapshot' = jobs /\ now' = clock
      /\ toDelete' = {} /\ dirty' = FALSE
      /\ UNCHANGED <<up, clock, jobs, file, calling, stops, fails, added, gone, fired, raised, torn>>
  BY DEF TickStart, diskVars, boundVars, historyVars
<1>2. calling = NoJob /\ dirty = FALSE /\ toDelete = {}
  BY <1>1 DEF IInv, TypeOK, Quiet
<1>3. \A j \in DOMAIN jobs : j # calling
  BY <1>2, JobsAssumption DEF IInv, TypeOK, Table
<1>4. TypeOK'
  BY <1>1 DEF IInv, TypeOK
<1>5. Quiet' /\ GivenIds' /\ OnFile' /\ Ahead'
  BY <1>1, <1>2, <1>3 DEF IInv, Quiet, GivenIds, OnFile, Ahead
<1>6. CalledLater' /\ OnTime(jobs)' /\ OnTime(file)'
  BY <1>1, <1>2 DEF IInv, TypeOK, CalledLater, RunLater, OnTime
<1> QED
  BY <1>4, <1>5, <1>6 DEF IInv

(* _tick calls back for a job. *)
LEMMA CallIInv == ASSUME IInv, NEW j \in Jobs, Call(j) PROVE IInv'
<1>1. /\ up /\ at = "ticking" /\ at' = "calling" /\ calling' = j
      /\ snapshot' = Without(snapshot, {j}) /\ fired' = [fired EXCEPT ![j] = now]
      /\ raised' = raised \ {j}
      /\ UNCHANGED <<up, clock, jobs, file, now, toDelete, dirty, stops, fails, added, gone, torn>>
      /\ j \in DOMAIN snapshot /\ j \in DOMAIN jobs
  BY DEF Call, diskVars, boundVars, DueInTick, IsActive
<1>2. /\ Table(snapshot') /\ DOMAIN snapshot' = DOMAIN snapshot \ {j}
      /\ \A i \in DOMAIN snapshot \ {j} : snapshot'[i] = snapshot[i]
  BY <1>1, WithoutTable DEF IInv, TypeOK
<1>3. fired' \in [Jobs -> Nat] /\ fired'[j] = now /\ \A i \in Jobs \ {j} : fired'[i] = fired[i]
  BY <1>1 DEF IInv, TypeOK
<1>4. calling = NoJob
  BY <1>1 DEF IInv, TypeOK
<1>5. TypeOK'
  BY <1>1, <1>2, <1>3, JobsAssumption DEF IInv, TypeOK
<1>6. Quiet' /\ OnFile' /\ Ahead'
  BY <1>1, <1>2 DEF IInv, Quiet, OnFile, Ahead
<1>7. GivenIds'
  BY <1>1, <1>2, <1>3 DEF IInv, GivenIds
<1>8. CalledLater'
  <2>1. now' <= clock' /\ \A i \in Jobs : fired'[i] <= clock'
    BY <1>1, <1>3 DEF IInv, CalledLater
  <2>2. ASSUME NEW i \in DOMAIN jobs', fired'[i] # 0, i # calling', i \notin toDelete',
               i \notin raised'
        PROVE  RunLater(i)'
    <3>1. i \in Jobs /\ i # j /\ i # calling
      BY <1>1, <1>4, <2>2, JobsAssumption DEF IInv, TypeOK, Table
    <3> QED
      BY <1>1, <1>3, <2>2, <3>1 DEF IInv, CalledLater, RunLater
  <2> QED
    BY <2>1, <2>2 DEF CalledLater
<1>9. OnTime(jobs)' /\ OnTime(file)'
  BY <1>1 DEF IInv, OnTime
<1> QED
  BY <1>5, <1>6, <1>7, <1>8, <1>9 DEF IInv

(* The callback has returned: the job's next run is later, or it is to be deleted. *)
LEMMA RanIInv == ASSUME IInv, Ran PROVE IInv'
<1> DEFINE s == jobs[calling].schedule
<1>1. /\ up /\ at = "calling" /\ calling \in DOMAIN jobs /\ at' = "ticking"
      /\ calling' = NoJob /\ dirty' = TRUE
      /\ UNCHANGED <<up, clock, file, snapshot, now, stops, fails, added, gone, fired, raised, torn>>
  BY DEF Ran, boundVars, historyVars
<1>2. /\ calling \in Jobs /\ calling \notin DOMAIN snapshot /\ Table(jobs)
      /\ jobs[calling] \in Job /\ s \in Schedules /\ clock \in Nat
  BY <1>1 DEF IInv, TypeOK, Ahead, Table, Job
<1>3. CASE RunsOnce(s)
  <2>1. toDelete' = toDelete \union {calling} /\ jobs' = jobs
    BY <1>3 DEF Ran
  <2>2. TypeOK' /\ Quiet' /\ OnFile'
    BY <1>1, <1>2, <2>1 DEF IInv, TypeOK, Quiet, OnFile
  <2>3. GivenIds'
    BY <1>1, <2>1 DEF IInv, GivenIds
  <2>4. Ahead'
    BY <1>1, <1>2, <2>1, JobsAssumption DEF IInv, TypeOK, Table, Ahead
  <2>5. CalledLater' /\ OnTime(jobs)' /\ OnTime(file)'
    BY <1>1, <2>1 DEF IInv, CalledLater, RunLater, OnTime
  <2> QED
    BY <2>2, <2>3, <2>4, <2>5 DEF IInv
<1>4. CASE ~ RunsOnce(s)
  <2>1. PICK n \in NextRuns(s, clock) : jobs' = [jobs EXCEPT ![calling].next = n]
    BY <1>4 DEF Ran
  <2>2. toDelete' = toDelete
    BY <1>4 DEF Ran
  <2>3. /\ n \in Int /\ s.time \in Int
        /\ s.kind = "at" => n = s.time
        /\ s.kind = "every" => n = clock + s.time
        /\ s.kind = "cron" => n > clock
    BY <1>2, NextRunsLater
  <2>4. /\ DOMAIN jobs' = DOMAIN jobs
        /\ jobs'[calling] = [jobs[calling] EXCEPT !.next = n]
        /\ \A i \in DOMAIN jobs \ {calling} : jobs'[i] = jobs[i]
    BY <1>1, <1>2, <2>1 DEF Table
  <2>5. jobs'[calling] \in Job /\ jobs'[calling].next = n /\ jobs'[calling].schedule = s
    BY <1>2, <2>3, <2>4 DEF Job
  <2>6. Table(jobs')
    BY <1>1, <1>2, <2>1, <2>4, <2>5 DEF Table
  <2>7. TypeOK' /\ Quiet' /\ OnFile'
    BY <1>1, <1>2, <2>2, <2>4, <2>6 DEF IInv, TypeOK, Quiet, OnFile
  <2>8. GivenIds'
    BY <1>1, <2>2, <2>4 DEF IInv, GivenIds
  <2>9. Ahead'
    BY <1>1, <1>2, <2>2, <2>4, JobsAssumption DEF IInv, TypeOK, Table, Ahead
  <2>10. CalledLater'
    <3>1. now' <= clock' /\ \A i \in Jobs : fired'[i] <= clock'
      BY <1>1 DEF IInv, CalledLater
    <3>2. ASSUME NEW i \in DOMAIN jobs', fired'[i] # 0, i \notin toDelete',
                 i \notin raised'
          PROVE  RunLater(i)'
      <4>1. CASE i = calling
        <5>1. fired[calling] \in Nat /\ fired[calling] <= clock
          BY <1>2 DEF IInv, TypeOK, CalledLater
        <5>2. ~ RunsOnce(jobs'[calling].schedule)
          BY <1>4, <2>5
        <5>3. /\ s.kind = "every" => fired'[calling] + s.time <= n
              /\ s.kind = "cron" => fired'[calling] < n
          BY <1>1, <1>2, <2>3, <5>1
        <5> HIDE DEF s
        <5> QED
          BY <4>1, <2>5, <5>2, <5>3 DEF RunLater
      <4>2. CASE i # calling
        BY <1>1, <2>2, <2>4, <3>2, <4>2 DEF IInv, CalledLater, RunLater
      <4> QED
        BY <4>1, <4>2
    <3> QED
      BY <3>1, <3>2 DEF CalledLater
  <2>11. OnTime(jobs)' /\ OnTime(file)'
    <3> HIDE DEF s
    <3> QED
      BY <1>1, <2>3, <2>4, <2>5 DEF IInv, OnTime
  <2> QED
    BY <2>7, <2>8, <2>9, <2>10, <2>11 DEF IInv
<1> QED
  BY <1>3, <1>4

(* The callback has returned and the job is gone, or it has failed. *)
LEMMA NotRunIInv == ASSUME IInv, RanRemoved \/ Failed PROVE IInv'
<1>1. /\ up /\ at = "calling" /\ at' = "ticking" /\ calling' = NoJob /\ dirty' \in {dirty, TRUE}
      /\ UNCHANGED <<up, clock, jobs, file, snapshot, now, toDelete, stops, added, gone, torn>>
  BY DEF RanRemoved, Failed, diskVars, boundVars, historyVars
<1>2. calling \in Jobs
  BY <1>1 DEF IInv, TypeOK
<1>3. /\ fired' = fired /\ raised' \in {raised, raised \union {calling}}
      /\ calling \in DOMAIN jobs => calling \in raised'
  BY <1>2 DEF RanRemoved, Failed, historyVars, IInv, TypeOK
<1>4. fails' \in 0..MaxFails
  BY BoundsAssumption DEF RanRemoved, Failed, boundVars, IInv, TypeOK
<1>5. TypeOK'
  BY <1>1, <1>2, <1>3, <1>4 DEF IInv, TypeOK
<1>6. Quiet' /\ OnFile'
  BY <1>1 DEF IInv, TypeOK, Quiet, OnFile
<1>7. GivenIds'
  BY <1>1, <1>3 DEF IInv, GivenIds
<1>8. Ahead'
  BY <1>1, JobsAssumption DEF IInv, TypeOK, Table, Ahead
<1>9. CalledLater'
  <2>1. now' <= clock' /\ \A j \in Jobs : fired'[j] <= clock'
    BY <1>1, <1>3 DEF IInv, TypeOK, CalledLater
  <2>2. ASSUME NEW j \in DOMAIN jobs', fired'[j] # 0, j \notin toDelete', j \notin raised'
        PROVE  RunLater(j)'
    <3>1. j \in Jobs /\ j # calling /\ j \notin raised
      BY <1>1, <1>3, <2>2 DEF IInv, TypeOK, Table
    <3> QED
      BY <1>1, <1>3, <2>2, <3>1 DEF IInv, CalledLater, RunLater
  <2> QED
    BY <2>1, <2>2 DEF CalledLater
<1>10. OnTime(jobs)' /\ OnTime(file)'
  BY <1>1 DEF IInv, OnTime
<1> QED
  BY <1>5, <1>6, <1>7, <1>8, <1>9, <1>10 DEF IInv

(* The end of _tick: what ran once is deleted, and the file is written if anything changed. *)
LEMMA TickEndIInv == ASSUME IInv, TickEnd PROVE IInv'
<1>1. /\ up /\ at = "ticking" /\ at' = "asleep" /\ jobs' = Without(jobs, toDelete)
      /\ file' = (IF Persists THEN jobs' ELSE file) /\ gone' = gone \union toDelete
      /\ snapshot' = Empty /\ now' = 0 /\ toDelete' = {} /\ dirty' = FALSE
      /\ UNCHANGED <<up, clock, calling, stops, fails, added, fired, raised, torn>>
  BY DEF TickEnd, boundVars
<1>2. /\ Table(jobs') /\ DOMAIN jobs' = DOMAIN jobs \ toDelete
      /\ \A j \in DOMAIN jobs \ toDelete : jobs'[j] = jobs[j]
  BY <1>1, WithoutTable DEF IInv, TypeOK
<1>3. file' = jobs'
  <2>1. CASE Persists
    BY <1>1, <2>1
  <2>2. CASE ~ Persists
    <3>1. dirty = FALSE /\ toDelete = {}
      BY <2>2 DEF Persists, IInv, TypeOK
    <3>2. file = jobs
      BY <1>1, <3>1 DEF IInv, OnFile
    <3>3. jobs' = jobs
      BY <1>1, <3>1, WithoutNone DEF IInv, TypeOK
    <3> QED
      BY <1>1, <2>2, <3>2, <3>3
  <2> QED
    BY <2>1, <2>2
<1>4. TypeOK'
  BY <1>1, <1>2, <1>3, EmptyTable DEF IInv, TypeOK
<1>5. Quiet' /\ Ahead'
  BY <1>1, EmptyTable DEF IInv, Quiet, Ahead
<1>6. GivenIds' /\ OnFile'
  BY <1>1, <1>2, <1>3, EmptyTable DEF IInv, GivenIds, OnFile
<1>7. CalledLater' /\ OnTime(jobs)' /\ OnTime(file)'
  BY <1>1, <1>2, <1>3 DEF IInv, TypeOK, CalledLater, RunLater, OnTime
<1> QED
  BY <1>4, <1>5, <1>6, <1>7 DEF IInv

(* Time passes. *)
LEMMA TimePassesIInv == ASSUME IInv, TimePasses PROVE IInv'
<1>1. /\ clock' = clock + 1
      /\ UNCHANGED <<up, jobs, file, at, snapshot, now, toDelete, dirty, calling>>
      /\ UNCHANGED <<stops, fails, added, gone, fired, raised, torn>>
  BY DEF TimePasses, diskVars, tickVars, boundVars, historyVars
<1>2. TypeOK'
  BY <1>1 DEF IInv, TypeOK
<1>3. Quiet' /\ GivenIds' /\ OnFile' /\ Ahead'
  BY <1>1 DEF IInv, Quiet, GivenIds, OnFile, Ahead
<1>4. CalledLater' /\ OnTime(jobs)' /\ OnTime(file)'
  BY <1>1 DEF IInv, TypeOK, CalledLater, RunLater, OnTime
<1> QED
  BY <1>2, <1>3, <1>4 DEF IInv

(* The server stops and starts again. *)
LEMMA RestartIInv == ASSUME IInv, Stop \/ Boot PROVE IInv'
<1>1. CASE Stop
  <2>1. /\ up' = FALSE /\ jobs' = Empty /\ at' = "asleep" /\ snapshot' = Empty /\ now' = 0
        /\ toDelete' = {} /\ dirty' = FALSE /\ calling' = NoJob
        /\ fired' = [j \in Jobs |-> 0] /\ raised' = {} /\ UNCHANGED <<clock, fails, added, gone>>
        /\ \/ UNCHANGED <<file, torn>>
           \/ file' = Empty /\ torn' = TRUE
    BY <1>1 DEF Stop, CutShort
  <2>2. stops' \in 0..MaxStops
    BY <1>1, BoundsAssumption DEF Stop, IInv, TypeOK
  <2>3. TypeOK'
    BY <2>1, <2>2, EmptyTable DEF IInv, TypeOK
  <2>4. Quiet' /\ Ahead'
    BY <2>1, EmptyTable DEF Quiet, Ahead
  <2>5. GivenIds' /\ OnFile'
    BY <2>1, EmptyTable DEF IInv, GivenIds, OnFile
  <2>6. CalledLater' /\ OnTime(jobs)' /\ OnTime(file)'
    BY <2>1, EmptyTable DEF IInv, TypeOK, CalledLater, OnTime
  <2> QED
    BY <2>3, <2>4, <2>5, <2>6 DEF IInv
<1>2. CASE Boot
  <2>1. /\ up = FALSE /\ up' = TRUE /\ jobs' = file
        /\ UNCHANGED <<clock, file, at, snapshot, now, toDelete, dirty, calling>>
        /\ UNCHANGED <<stops, fails, added, gone, fired, raised, torn>>
    BY <1>2 DEF Boot, tickVars, boundVars, historyVars, IInv, TypeOK
  <2>2. at = "asleep" /\ snapshot = Empty /\ fired = [j \in Jobs |-> 0]
    BY <2>1 DEF IInv, Quiet
  <2>3. TypeOK'
    BY <2>1 DEF IInv, TypeOK
  <2>4. Quiet' /\ Ahead'
    BY <2>1, <2>2, EmptyTable DEF IInv, Quiet, Ahead
  <2>5. GivenIds' /\ OnFile'
    BY <2>1 DEF IInv, GivenIds, OnFile
  <2>6. CalledLater' /\ OnTime(jobs)' /\ OnTime(file)'
    BY <2>1, <2>2 DEF IInv, TypeOK, Table, CalledLater, OnTime
  <2> QED
    BY <2>3, <2>4, <2>5, <2>6 DEF IInv
<1> QED
  BY <1>1, <1>2

(* Every step keeps the inductive invariant. *)
LEMMA NextIInv == IInv /\ [Next]_vars => IInv'
<1> SUFFICES ASSUME IInv, [Next]_vars PROVE IInv'
  OBVIOUS
<1>1. CASE Next
  BY <1>1, AddJobIInv, RemoveJobIInv, TickStartIInv, CallIInv, RanIInv, NotRunIInv, TickEndIInv,
     TimePassesIInv, RestartIInv DEF Next
<1>2. CASE UNCHANGED vars
  BY <1>2 DEF vars, diskVars, tickVars, boundVars, historyVars, IInv, TypeOK, Quiet, GivenIds,
              OnFile, Ahead, CalledLater, RunLater, OnTime
<1> QED
  BY <1>1, <1>2

(* The invariant of the scheduler. *)
THEOREM Invariant == Spec => []IInv
<1> QED
  BY InitIInv, NextIInv, PTL DEF Spec

(* The scheduler's state is well-typed; it is in a callback exactly when it awaits one (_tick). *)
THEOREM TypeCorrectness == Spec => []TypeOK
<1>1. IInv => TypeOK
  BY DEF IInv
<1> QED
  BY <1>1, Invariant, PTL

(***************************************************************************)
(* The schedule in memory and on file keep every job until it is removed   *)
(* or has run once, and none after that, whatever is added or removed      *)
(* while a tick awaits its callback (_tick, _persist, _load).              *)
(***************************************************************************)
THEOREM JobsAreKept == Spec => []JobsKept
<1>1. IInv => JobsKept
  BY DEF IInv, Quiet, OnFile, JobsKept, Scheduled
<1> QED
  BY <1>1, Invariant, PTL

(***************************************************************************)
(* A job is called back for while it is scheduled and once its time has    *)
(* come, once if it runs once, otherwise an interval or a time later than  *)
(* before, unless its callback raised (_tick).                             *)
(***************************************************************************)
THEOREM CalledAsScheduled == Spec => CallsAsScheduled
<1>1. ASSUME IInv, NEW j \in Jobs, Call(j) PROVE MayCall(j)
  <2>1. /\ at = "ticking" /\ j \in DOMAIN snapshot /\ j \in DOMAIN jobs /\ snapshot[j].next <= now
    BY <1>1 DEF Call, DueInTick, IsActive
  <2>2. j \in added \ gone
    BY <1>1, <2>1 DEF IInv, GivenIds, OnFile
  <2>3. j \notin toDelete /\ j # calling /\ jobs[j] = snapshot[j]
    BY <1>1, <2>1 DEF IInv, Ahead
  <2>4. /\ fired[j] \in Nat /\ now \in Nat /\ jobs[j] \in Job /\ jobs[j].next \in Int
        /\ jobs[j].schedule.time \in Int
    BY <1>1, <2>1, ScheduleAssumption DEF IInv, TypeOK, Table, Job
  <2>5. ASSUME fired[j] # 0, j \notin raised
        PROVE  AgainAt(jobs[j].schedule, fired[j])
    <3>1. RunLater(j)
      BY <1>1, <2>1, <2>3, <2>5 DEF IInv, CalledLater
    <3> QED
      BY <2>1, <2>3, <2>4, <3>1 DEF RunLater, AgainAt
  <2>6. jobs[j].schedule.kind = "at" => jobs[j].schedule.time <= now
    BY <1>1, <2>1, <2>3 DEF IInv, OnTime
  <2> QED
    BY <2>1, <2>2, <2>3, <2>5, <2>6 DEF MayCall
<1>2. IInv /\ [Next]_vars => [\A j \in Jobs : Call(j) => MayCall(j)]_vars
  BY <1>1
<1> QED
  BY <1>2, Invariant, PTL DEF Spec, CallsAsScheduled

-----------------------------------------------------------------------------
(* The channel manager. *)

Phases == {"none", "starting", "up", "stopping", "down"}

ChannelsTypeOK ==
  /\ life \in {"booting", "serving", "stopping", "down"}
  /\ channel \in Objects \union {None}
  /\ phase \in [Objects -> Phases]
  /\ call \in [Calls -> StartCalls \union {"none", "stopping", "ended"}]
  /\ target \in [Calls -> Objects \union {None}]
  /\ \A c \in Calls : call[c] \in {"restarting", "stopping"} => target[c] \in Objects

(* No request is under way before the server serves or when it stops. *)
Requests == life # "serving" => \A c \in Calls : call[c] \notin StartCalls \union {"stopping"}

(* A channel on its way up, or up, is the registered one, and its maker waits for it. *)
Alive(o) == phase[o] \in {"starting", "up"}
OneAlive ==
  /\ \A o \in Objects : Alive(o) => o = channel /\ life \in {"booting", "serving"}
  /\ \A o \in Objects : phase[o] = "starting" =>
       life = "booting" \/ (o \in Calls /\ call[o] = "starting")

(* One start at a time; while one waits for the old channel's stop, nothing polls. *)
OneStart ==
  /\ \A c, d \in Calls : call[c] \in StartCalls /\ call[d] \in StartCalls => c = d
  /\ \A c \in Calls : call[c] = "restarting" => \A o \in Objects : ~ Alive(o)

ChannelInv == ChannelsTypeOK /\ Requests /\ (overlapped \/ (OneAlive /\ OneStart))

(* What is published and sent changes nothing of the channels. *)
LEMMA SendLeaves ==
  ASSUME (\E m \in Messages : Publish(m)) \/ Send \/ UNCHANGED channelsVars
  PROVE  UNCHANGED <<life, channel, phase, call, target, overlapped>>
BY Zenon DEF Publish, Send, Take, SendMedia, SendNote, SendPart, SendPlain, Broadcast, DispatchUnchanged,
             channelsVars, callVars

(* Two starts at once are remembered. *)
LEMMA OverlapStays == ASSUME [ChannelsNext]_channelsVars, overlapped PROVE overlapped'
<1>1. CASE Serve \/ Shutdown \/ ShutdownEnds
  BY <1>1, Zenon DEF Serve, Shutdown, ShutdownEnds, callVars
<1>2. ASSUME NEW c \in Calls, StartChannel(c) \/ Restart(c) \/ StartEnds(c) \/ StopChannel(c) \/ StopEnds(c)
      PROVE  overlapped'
  BY <1>2, Zenon DEF StartChannel, NoteOverlap, Restart, StartEnds, StopChannel, StopEnds
<1>3. CASE (\E m \in Messages : Publish(m)) \/ Send \/ UNCHANGED channelsVars
  BY <1>3, SendLeaves, Zenon
<1>. QED
  BY <1>1, <1>2, <1>3, Zenon DEF ChannelsNext

(* Who makes an object, and None is none of them. *)
LEMMA ObjectFacts == /\ None \notin Objects /\ Calls \subseteq Objects /\ "server" \in Objects
BY PartsAssumption DEF Objects

(* The server may begin with a channel or without. *)
LEMMA ChannelInitInv == ChannelsInit => ChannelInv
<1> SUFFICES ASSUME ChannelsInit PROVE ChannelInv
  OBVIOUS
<1> USE ObjectFacts DEF ChannelsInit
<1>1. phase \in [Objects -> Phases]
  BY DEF Phases
<1>2. ChannelsTypeOK
  BY <1>1 DEF ChannelsTypeOK, StartCalls
<1>3. Requests
  BY DEF Requests, StartCalls
<1>4. OneAlive /\ OneStart
  BY DEF OneAlive, Alive, OneStart, StartCalls
<1>. QED
  BY <1>2, <1>3, <1>4 DEF ChannelInv

(* Who awaits a stop has an object to stop. *)
LEMMA TypeStep ==
  ASSUME ChannelsTypeOK, Requests, [ChannelsNext]_channelsVars
  PROVE  ChannelsTypeOK' /\ Requests'
<1> USE ObjectFacts DEF ChannelsTypeOK, Requests, StartCalls
<1>1. CASE Serve
  BY <1>1 DEF Serve, Starts, DoesNotStart, Phases, callVars
<1>2. CASE Shutdown
  BY <1>2 DEF Shutdown, Phases, callVars, Busy
<1>3. CASE ShutdownEnds
  BY <1>3 DEF ShutdownEnds, Stopped, Phases, callVars
<1>4. ASSUME NEW c \in Calls, StartChannel(c) PROVE ChannelsTypeOK' /\ Requests'
  BY <1>4 DEF StartChannel, StopsFirst, Running, Create, CannotCreate, Phases
<1>5. ASSUME NEW c \in Calls, Restart(c) PROVE ChannelsTypeOK' /\ Requests'
  BY <1>5 DEF Restart, Stopped, Create, CannotCreate, Phases
<1>6. ASSUME NEW c \in Calls, StartEnds(c) PROVE ChannelsTypeOK' /\ Requests'
  BY <1>6 DEF StartEnds, Starts, DoesNotStart, Phases
<1>7. ASSUME NEW c \in Calls, StopChannel(c) PROVE ChannelsTypeOK' /\ Requests'
  BY <1>7 DEF StopChannel, Running, Phases
<1>8. ASSUME NEW c \in Calls, StopEnds(c) PROVE ChannelsTypeOK' /\ Requests'
  BY <1>8 DEF StopEnds, Stopped, Phases
<1>9. CASE (\E m \in Messages : Publish(m)) \/ Send \/ UNCHANGED channelsVars
  BY <1>9, SendLeaves
<1>. QED
  BY <1>1, <1>2, <1>3, <1>4, <1>5, <1>6, <1>7, <1>8, <1>9 DEF ChannelsNext

(* A start begins when nothing polls, or is not the only one. *)
LEMMA AliveStep ==
  ASSUME ChannelsTypeOK, Requests, OneAlive, OneStart, [ChannelsNext]_channelsVars,
         ~ overlapped, ~ overlapped'
  PROVE  OneAlive' /\ OneStart'
<1> USE ObjectFacts DEF ChannelsTypeOK, OneAlive, OneStart, Alive, StartCalls
<1>1. CASE Serve
  BY <1>1 DEF Serve, Starts, DoesNotStart, Phases, callVars, Requests
<1>2. CASE Shutdown
  BY <1>2 DEF Shutdown, Phases, callVars, Busy, Running
<1>3. CASE ShutdownEnds
  BY <1>3 DEF ShutdownEnds, Stopped, Phases, callVars
<1>4. ASSUME NEW c \in Calls, StartChannel(c) PROVE OneAlive' /\ OneStart'
  <2>1. \A d \in Calls : call[d] \notin StartCalls
    BY <1>4 DEF StartChannel, NoteOverlap
  <2>2. life = "serving" /\ life' = life
    BY <1>4 DEF StartChannel
  <2>3. CASE StopsFirst
    BY <1>4, <2>1, <2>2, <2>3 DEF StartChannel, StopsFirst, Running, Phases
  <2>4. CASE ~ StopsFirst
    <3>1. \A o \in Objects : ~ Alive(o)
      BY <2>1, <2>2, <2>4 DEF StopsFirst, Running
    <3>. QED
      BY <1>4, <2>1, <2>2, <2>4, <3>1 DEF StartChannel, Create, CannotCreate, Phases
  <2>. QED
    BY <2>3, <2>4
<1>5. ASSUME NEW c \in Calls, Restart(c) PROVE OneAlive' /\ OneStart'
  <2>1. /\ \A o \in Objects : ~ Alive(o)
        /\ life = "serving" /\ life' = life
        /\ \A d \in Calls : d # c => call[d] \notin StartCalls
        /\ target[c] \in Objects
    BY <1>5 DEF Restart, Requests
  <2>. QED
    BY <1>5, <2>1 DEF Restart, Stopped, Create, CannotCreate, Phases
<1>6. ASSUME NEW c \in Calls, StartEnds(c) PROVE OneAlive' /\ OneStart'
  <2>1. \A d \in Calls : d # c => call[d] \notin StartCalls
    BY <1>6 DEF StartEnds
  <2>2. phase' = [phase EXCEPT ![c] = phase'[c]] /\ phase'[c] \in {"up", "down"} /\ phase[c] = "starting"
    BY <1>6 DEF StartEnds, Starts, DoesNotStart
  <2>. QED
    BY <1>6, <2>1, <2>2 DEF StartEnds, Phases
<1>7. ASSUME NEW c \in Calls, StopChannel(c) PROVE OneAlive' /\ OneStart'
  BY <1>7 DEF StopChannel, Running, Phases
<1>8. ASSUME NEW c \in Calls, StopEnds(c) PROVE OneAlive' /\ OneStart'
  BY <1>8 DEF StopEnds, Stopped, Phases
<1>9. CASE (\E m \in Messages : Publish(m)) \/ Send \/ UNCHANGED channelsVars
  BY <1>9, SendLeaves
<1>. QED
  BY <1>1, <1>2, <1>3, <1>4, <1>5, <1>6, <1>7, <1>8, <1>9 DEF ChannelsNext

(* The invariant holds in every reachable state. *)
LEMMA ChannelInvariant == ChannelsSpec => []ChannelInv
<1>1. ChannelInv /\ [ChannelsNext]_channelsVars => ChannelInv'
  BY TypeStep, AliveStep, OverlapStays DEF ChannelInv
<1>. QED
  BY <1>1, ChannelInitInv, PTL DEF ChannelsSpec

(***************************************************************************)
(* start_channel and stop_channel of any number of requests, their starts  *)
(* that fail, and the shutdown: while no two starts were under way at once *)
(* the bot polls as the registered channel only, and not after the end.    *)
(***************************************************************************)
THEOREM NoneIsLeftPolling == ChannelsSpec => []NoOrphan
<1>1. ChannelInv => NoOrphan
  BY DEF ChannelInv, OneAlive, Alive, NoOrphan
<1>. QED
  BY <1>1, ChannelInvariant, PTL

-----------------------------------------------------------------------------
(* The order of what is sent. *)

Sending == {"media", "note", "html", "plain"}
Sends == [at : {"idle"} \union InFlight, of : Messages \union {None}, part : Nat, by : Objects \union {None}]
Parts == [of : Messages, part : Nat]
SendTypes ==
  /\ published \in Seq(Messages) /\ outbound \in Seq(Messages)
  /\ arrived \in Seq(Parts)
  /\ job \in Sends
  /\ channel \in Objects \union {None}

(* The messages the dispatcher has taken are the first ones; the others wait in their order. *)
Taken == Len(published) - Len(outbound)
Once == \A i, j \in 1 .. Len(published) : published[i] = published[j] => i = j
WaitInOrder ==
  /\ Taken \in Nat
  /\ \A i \in 1 .. Len(outbound) : outbound[i] = published[Taken + i]

(* What is being sent was taken last; of it, no later part has arrived. *)
SendsLast ==
  job.at \in Sending =>
    /\ Taken > 0 /\ job.of = published[Taken]
    /\ job.at \in {"media", "note"} => job.part = 1
    /\ \A i \in 1 .. Len(arrived) : arrived[i].of = job.of => arrived[i].part <= job.part

(* What has arrived was taken, and is in order by the places in the queue. *)
ArrivedWasTaken ==
  \A i \in 1 .. Len(arrived) : \E k \in 1 .. Taken : arrived[i].of = published[k]
Sorted ==
  \A i, j \in 1 .. Len(arrived), k, l \in 1 .. Len(published) :
    i < j /\ arrived[i].of = published[k] /\ arrived[j].of = published[l] =>
      k < l \/ (k = l /\ arrived[i].part <= arrived[j].part)

OrderInv == SendTypes /\ Once /\ WaitInOrder /\ SendsLast /\ ArrivedWasTaken /\ Sorted

(* A sequence has a length, and an element more after Append. *)
LEMMA AppendFacts ==
  ASSUME NEW S, NEW s \in Seq(S), NEW e \in S
  PROVE  /\ Append(s, e) \in Seq(S) /\ Len(s) \in Nat /\ Len(Append(s, e)) = Len(s) + 1
         /\ Append(s, e)[Len(s) + 1] = e
         /\ \A i \in 1 .. Len(s) : Append(s, e)[i] = s[i]
OBVIOUS

(* Nothing was published. *)
LEMMA OrderInit == ChannelsInit => OrderInv
<1> SUFFICES ASSUME ChannelsInit PROVE OrderInv
  OBVIOUS
<1>1. published = <<>> /\ outbound = <<>> /\ arrived = <<>> /\ job.at = "idle"
  BY DEF ChannelsInit, Idle
<1>2. SendTypes
  BY <1>1, ObjectFacts DEF SendTypes, Sends, Idle, ChannelsInit
<1>3. Once /\ WaitInOrder /\ SendsLast /\ ArrivedWasTaken /\ Sorted
  BY <1>1 DEF Once, WaitInOrder, Taken, SendsLast, Sending, ArrivedWasTaken, Sorted
<1>. QED
  BY <1>2, <1>3 DEF OrderInv

(* A message is published: it comes last, and waits. *)
LEMMA PublishOrder == ASSUME OrderInv, NEW m \in Messages, Publish(m) PROVE OrderInv'
<1> USE DEF OrderInv
<1>1. /\ published' = Append(published, m) /\ outbound' = Append(outbound, m)
      /\ job' = job /\ arrived' = arrived /\ channel' = channel
      /\ \A i \in 1 .. Len(published) : published[i] # m
  BY DEF Publish, Contains, SendTypes
<1>2. published \in Seq(Messages) /\ outbound \in Seq(Messages)
  BY DEF SendTypes
<1>3. /\ published' \in Seq(Messages) /\ outbound' \in Seq(Messages)
      /\ Len(published) \in Nat /\ Len(outbound) \in Nat
      /\ Len(published') = Len(published) + 1 /\ Len(outbound') = Len(outbound) + 1
      /\ published'[Len(published) + 1] = m /\ outbound'[Len(outbound) + 1] = m
      /\ \A i \in 1 .. Len(published) : published'[i] = published[i]
      /\ \A i \in 1 .. Len(outbound) : outbound'[i] = outbound[i]
  BY <1>1, <1>2, AppendFacts
<1>4. Taken' = Taken /\ Taken \in Nat /\ Taken <= Len(published)
  BY <1>3 DEF Taken, WaitInOrder
<1>5. SendTypes'
  BY <1>1, <1>3 DEF SendTypes
<1>6. Once'
  BY <1>1, <1>3 DEF Once
<1>7. WaitInOrder'
  <2>1. ASSUME NEW i \in 1 .. Len(outbound) + 1 PROVE outbound'[i] = published'[Taken + i]
    <3>1. CASE i = Len(outbound) + 1
      BY <1>3, <3>1 DEF Taken
    <3>2. CASE i \in 1 .. Len(outbound)
      BY <1>3, <1>4, <3>2 DEF WaitInOrder, Taken
    <3>. QED
      BY <1>3, <3>1, <3>2
  <2>. QED
    BY <1>3, <1>4, <2>1 DEF WaitInOrder
<1>8. SendsLast'
  BY <1>1, <1>3, <1>4 DEF SendsLast
<1>9. ArrivedWasTaken'
  BY <1>1, <1>3, <1>4 DEF ArrivedWasTaken
<1>10. Sorted'
  <2> SUFFICES ASSUME NEW i \in 1 .. Len(arrived'), NEW j \in 1 .. Len(arrived'),
                      NEW k \in 1 .. Len(published'), NEW l \in 1 .. Len(published'),
                      i < j, arrived'[i].of = published'[k], arrived'[j].of = published'[l]
               PROVE  k < l \/ (k = l /\ arrived'[i].part <= arrived'[j].part)
    BY DEF Sorted
  <2>1. ASSUME NEW n \in 1 .. Len(arrived) PROVE arrived[n].of # m
    <3>1. PICK q \in 1 .. Taken : arrived[n].of = published[q]
      BY DEF ArrivedWasTaken
    <3>2. q \in 1 .. Len(published)
      BY <1>3, <1>4
    <3>. QED
      BY <1>1, <3>1, <3>2
  <2>2. k \in 1 .. Len(published) /\ l \in 1 .. Len(published)
    <3>1. k # Len(published) + 1 /\ l # Len(published) + 1
      BY <1>1, <1>3, <2>1
    <3>. QED
      BY <1>3, <3>1
  <2>3. arrived[i].of = published[k] /\ arrived[j].of = published[l]
    BY <1>1, <1>3, <2>2
  <2>. QED
    BY <1>1, <2>2, <2>3 DEF Sorted
<1>. QED
  BY <1>5, <1>6, <1>7, <1>8, <1>9, <1>10

(* After the last part nothing of a message is sent. *)
LEMMA MirrorFacts == ASSUME job \in Sends PROVE Mirror \in Sends /\ Mirror.at \notin Sending
BY DEF Sends, InFlight, Mirror, Idle, Sending

(* The next part is of the same message. *)
LEMMA PartFacts ==
  ASSUME job \in Sends, NEW k \in Nat
  PROVE  /\ PartFrom(k) \in Sends
         /\ PartFrom(k).at \in Sending =>
              PartFrom(k).at = "html" /\ PartFrom(k).part = k /\ PartFrom(k).of = job.of
<1>1. CASE PartFrom(k) = Mirror
  BY <1>1, MirrorFacts
<1>2. CASE PartFrom(k) # Mirror
  <2>1. PartFrom(k) = [job EXCEPT !.at = "html", !.part = k]
    BY <1>2 DEF PartFrom
  <2>. QED
    BY <2>1 DEF Sends, InFlight
<1>. QED
  BY <1>1, <1>2

(* A message is taken: it is the first that waits, and none of it has arrived. *)
LEMMA TakeOrder == ASSUME OrderInv, Take PROVE OrderInv'
<1> USE DEF OrderInv
<1>1. /\ outbound # <<>> /\ outbound' = Tail(outbound)
      /\ published' = published /\ arrived' = arrived /\ channel' = channel
      /\ job = Idle
  BY DEF Take, DispatchUnchanged
<1>2. /\ outbound' \in Seq(Messages) /\ Head(outbound) = outbound[1] /\ Head(outbound) \in Messages
      /\ Len(outbound) \in Nat \ {0} /\ Len(outbound') = Len(outbound) - 1 /\ Len(published) \in Nat
      /\ \A i \in 1 .. Len(outbound) - 1 : outbound'[i] = outbound[i + 1]
  BY <1>1 DEF SendTypes
<1>3. /\ job' \in Sends
      /\ job'.at \in Sending => job'.at \in {"media", "html"} /\ job'.of = Head(outbound) /\ job'.part = 1
  <2>1. CASE ~ Running(channel)
    BY <1>1, <1>2, <2>1 DEF Take, Sends, InFlight, Sending, Idle, SendTypes
  <2>2. CASE Running(channel)
    BY <1>1, <1>2, <2>2 DEF Take, Sends, InFlight, Sending, Idle, SendTypes
  <2>. QED
    BY <2>1, <2>2
<1>4. Taken' = Taken + 1 /\ Taken \in Nat /\ Taken' <= Len(published)
  BY <1>1, <1>2 DEF Taken, WaitInOrder
<1>5. published[Taken'] = Head(outbound)
  BY <1>2, <1>4 DEF WaitInOrder
<1>6. SendTypes' /\ Once'
  BY <1>1, <1>2, <1>3 DEF SendTypes, Once
<1>7. WaitInOrder'
  BY <1>1, <1>2, <1>4 DEF WaitInOrder
<1>8. ASSUME NEW i \in 1 .. Len(arrived) PROVE arrived[i].of # Head(outbound)
  <2>1. PICK q \in 1 .. Taken : arrived[i].of = published[q]
    BY DEF ArrivedWasTaken
  <2>2. q \in 1 .. Len(published) /\ Taken' \in 1 .. Len(published) /\ q # Taken'
    BY <1>2, <1>4
  <2>. QED
    BY <1>5, <2>1, <2>2 DEF Once
<1>9. SendsLast'
  BY <1>1, <1>3, <1>4, <1>5, <1>8 DEF SendsLast
<1>10. ArrivedWasTaken' /\ Sorted'
  BY <1>1, <1>4 DEF ArrivedWasTaken, Sorted
<1>. QED
  BY <1>6, <1>7, <1>9, <1>10

(* Parts are numbered. *)
LEMMA PartIsNumber == ASSUME SendTypes PROVE \A i \in 1 .. Len(arrived) : arrived[i].part \in Nat
<1>1. \A i \in 1 .. Len(arrived) : arrived[i] \in Parts
  BY DEF SendTypes
<1>. QED
  BY <1>1 DEF Parts

(* Without an arrival: the message goes on at its part or a later one, or ends. *)
LEMMA GoesOn ==
  ASSUME OrderInv, job' \in Sends, UNCHANGED <<outbound, published, arrived, channel>>,
         job'.at \in Sending =>
           /\ job.at \in Sending /\ job'.of = job.of /\ job.part <= job'.part
           /\ job'.at \in {"media", "note"} => job'.part = 1
  PROVE  OrderInv'
<1> USE DEF OrderInv
<1>1. SendTypes' /\ Once' /\ WaitInOrder' /\ ArrivedWasTaken' /\ Sorted' /\ Taken' = Taken
  BY DEF SendTypes, Once, WaitInOrder, ArrivedWasTaken, Sorted, Taken
<1>2. \A i \in 1 .. Len(arrived) : arrived[i].part \in Nat
  BY PartIsNumber
<1>3. job.part \in Nat /\ job'.part \in Nat
  BY DEF SendTypes, Sends
<1>4. SendsLast'
  BY <1>1, <1>2, <1>3 DEF SendsLast
<1>. QED
  BY <1>1, <1>4

(* With the arrival of its part. *)
LEMMA PartArrives ==
  ASSUME OrderInv, job.at \in Sending, job' \in Sends, Arrives, UNCHANGED <<outbound, published, channel>>,
         job'.at \in Sending =>
           /\ job'.of = job.of /\ job.part <= job'.part
           /\ job'.at \notin {"media", "note"}
  PROVE  OrderInv'
<1> USE DEF OrderInv
<1> DEFINE last == Len(arrived) + 1
<1>1. /\ Taken \in Nat /\ Taken > 0 /\ job.of = published[Taken] /\ Taken <= Len(published)
      /\ Len(published) \in Nat
      /\ \A i \in 1 .. Len(arrived) : arrived[i].of = job.of => arrived[i].part <= job.part
  BY DEF SendsLast, WaitInOrder, Taken, SendTypes
<1>2. job.of \in Messages /\ job.part \in Nat
  BY <1>1 DEF SendTypes, Sends
<1>3. [of |-> job.of, part |-> job.part] \in Parts
  BY <1>2 DEF Parts
<1>4. /\ arrived' \in Seq(Parts) /\ Len(arrived) \in Nat /\ Len(arrived') = last
      /\ arrived'[last].of = job.of /\ arrived'[last].part = job.part
      /\ \A i \in 1 .. Len(arrived) : arrived'[i] = arrived[i]
      /\ \A i \in 1 .. Len(arrived) : arrived[i].part \in Nat
  <2>1. arrived \in Seq(Parts) /\ arrived' = Append(arrived, [of |-> job.of, part |-> job.part])
    BY DEF Arrives, SendTypes
  <2>2. /\ arrived' \in Seq(Parts) /\ Len(arrived) \in Nat /\ Len(arrived') = last
        /\ arrived'[last] = [of |-> job.of, part |-> job.part]
        /\ \A i \in 1 .. Len(arrived) : arrived'[i] = arrived[i]
    BY <1>3, <2>1, AppendFacts
  <2>. QED
    BY <2>2, PartIsNumber
<1> HIDE DEF last
<1>5. \A i \in 1 .. Len(arrived') : i = last \/ i \in 1 .. Len(arrived)
  BY <1>4 DEF last
<1>6. Taken' = Taken
  BY DEF Taken
<1>7. SendTypes' /\ Once' /\ WaitInOrder'
  BY <1>4, <1>6 DEF SendTypes, Once, WaitInOrder
<1>8. SendsLast'
  <2>1. ASSUME job'.at \in Sending, NEW i \in 1 .. Len(arrived'), arrived'[i].of = job'.of
        PROVE  arrived'[i].part <= job'.part
    <3>1. job'.part \in Nat /\ job'.of = job.of /\ job.part <= job'.part
      BY <2>1 DEF Sends
    <3>2. arrived'[i].part \in Nat /\ arrived'[i].part <= job.part
      BY <1>1, <1>2, <1>4, <1>5, <2>1, <3>1
    <3>. QED
      BY <1>2, <3>1, <3>2
  <2>2. job'.at \in Sending => Taken' > 0 /\ job'.of = published'[Taken'] /\ job'.at \notin {"media", "note"}
    BY <1>1, <1>6
  <2>. QED
    BY <2>1, <2>2 DEF SendsLast
<1>9. ArrivedWasTaken'
  BY <1>1, <1>4, <1>5, <1>6 DEF ArrivedWasTaken
<1>10. Sorted'
  <2> SUFFICES ASSUME NEW i \in 1 .. Len(arrived'), NEW j \in 1 .. Len(arrived'),
                      NEW k \in 1 .. Len(published), NEW l \in 1 .. Len(published),
                      i < j, arrived'[i].of = published[k], arrived'[j].of = published[l]
               PROVE  k < l \/ (k = l /\ arrived'[i].part <= arrived'[j].part)
    BY DEF Sorted
  <2>1. i \in 1 .. Len(arrived)
    BY <1>4, <1>5 DEF last
  <2>2. CASE j \in 1 .. Len(arrived)
    BY <1>4, <2>1, <2>2 DEF Sorted
  <2>3. CASE j = last
    <3>1. l = Taken
      BY <1>1, <1>4, <2>3 DEF Once
    <3>2. PICK q \in 1 .. Taken : arrived[i].of = published[q]
      BY <2>1 DEF ArrivedWasTaken
    <3>3. k = q
      BY <1>1, <1>4, <2>1, <3>2 DEF Once
    <3>4. CASE k = Taken
      BY <1>1, <1>4, <2>1, <2>3, <3>1, <3>4
    <3>. QED
      BY <1>1, <3>1, <3>2, <3>3, <3>4
  <2>. QED
    BY <1>5, <2>2, <2>3
<1>. QED
  BY <1>7, <1>8, <1>9, <1>10

(* An image, its note, and the parts go on with the message or end it. *)
LEMMA SendOrder == ASSUME OrderInv, SendMedia \/ SendNote \/ SendPart \/ SendPlain PROVE OrderInv'
<1> DEFINE next == job.part + 1
<1>1. job \in Sends /\ job.at \in Sending /\ 1 \in Nat /\ next \in Nat /\ job.part \in Nat
  BY DEF OrderInv, SendTypes, Sends, Sending, SendMedia, SendNote, SendPart, SendPlain
<1>2. UNCHANGED <<outbound, published, channel>>
  BY DEF SendMedia, SendNote, SendPart, SendPlain, DispatchUnchanged
<1>3. /\ Mirror \in Sends /\ Mirror.at \notin Sending
      /\ \A k \in Nat : /\ PartFrom(k) \in Sends
                        /\ PartFrom(k).at \in Sending => /\ PartFrom(k).at = "html"
                                                         /\ PartFrom(k).part = k
                                                         /\ PartFrom(k).of = job.of
  BY <1>1, MirrorFacts, PartFacts
<1>4. CASE SendMedia
  <2>1. job.at = "media" /\ job.part = 1 /\ arrived' = arrived
    BY <1>4 DEF SendMedia, OrderInv, SendsLast, Sending
  <2>2. CASE job' = PartFrom(1) \/ job' = Mirror
    BY <1>1, <1>2, <1>3, <2>1, <2>2, GoesOn
  <2>3. CASE job' = [job EXCEPT !.at = "note"]
    <3>1. job' \in Sends /\ job'.of = job.of /\ job'.part = 1
      BY <1>1, <2>1, <2>3 DEF Sends, InFlight
    <3>. QED
      BY <1>1, <1>2, <2>1, <3>1, GoesOn
  <2>. QED
    BY <1>4, <2>2, <2>3 DEF SendMedia, AfterError
<1>5. CASE SendNote
  <2>1. job.part = 1 /\ arrived' = arrived
    BY <1>5 DEF SendNote, OrderInv, SendsLast, Sending
  <2>2. job' = PartFrom(1) \/ job' = Mirror
    BY <1>5 DEF SendNote, AfterError
  <2>. QED
    BY <1>1, <1>2, <1>3, <2>1, <2>2, GoesOn
<1>6. CASE SendPart \/ SendPlain
  <2>1. Arrives \/ arrived' = arrived
    BY <1>6 DEF SendPart, SendPlain
  <2>2. job' = PartFrom(next) \/ job' = [job EXCEPT !.at = "plain"]
    BY <1>6 DEF SendPart, SendPlain
  <2>3. /\ job' \in Sends
        /\ job'.at \in Sending =>
             job'.of = job.of /\ job.part <= job'.part /\ job'.at \notin {"media", "note"}
    <3>1. CASE job' = PartFrom(next)
      BY <1>1, <1>3, <3>1
    <3>2. CASE job' = [job EXCEPT !.at = "plain"]
      BY <1>1, <3>2 DEF Sends, InFlight
    <3>. QED
      BY <2>2, <3>1, <3>2
  <2>. QED
    BY <1>1, <1>2, <2>1, <2>3, GoesOn, PartArrives
<1>. QED
  BY <1>4, <1>5, <1>6

(* The browsers are told, and nothing is being sent. *)
LEMMA BroadcastOrder == ASSUME OrderInv, Broadcast PROVE OrderInv'
<1>1. job' = Idle /\ UNCHANGED <<outbound, published, arrived, channel>>
  BY DEF Broadcast, DispatchUnchanged
<1>2. job' \in Sends /\ job'.at \notin Sending
  BY <1>1, ObjectFacts DEF Sends, Idle, Sending
<1>. QED
  BY <1>1, <1>2, GoesOn

(* Starts, stops and the shutdown leave the queue alone; the last ends what is being sent. *)
LEMMA QueueLeft ==
  ASSUME \/ Serve \/ Shutdown \/ ShutdownEnds
         \/ \E c \in Calls : StartChannel(c) \/ Restart(c) \/ StartEnds(c) \/ StopChannel(c) \/ StopEnds(c)
         \/ UNCHANGED channelsVars
  PROVE  /\ UNCHANGED <<outbound, published, arrived>>
         /\ job' = job \/ job' = Idle
BY Zenon DEF Serve, Shutdown, ShutdownEnds, StartChannel, Restart, StartEnds, StopChannel, StopEnds, sendVars,
             channelsVars

(* Every step keeps the order, with the types of TypeStep. *)
LEMMA OrderStep == ASSUME OrderInv, ChannelsTypeOK', [ChannelsNext]_channelsVars PROVE OrderInv'
<1>1. CASE \E m \in Messages : Publish(m)
  BY <1>1, PublishOrder
<1>2. CASE Send
  BY <1>2, TakeOrder, SendOrder, BroadcastOrder DEF Send
<1>3. CASE \/ Serve \/ Shutdown \/ ShutdownEnds
           \/ \E c \in Calls : StartChannel(c) \/ Restart(c) \/ StartEnds(c) \/ StopChannel(c) \/ StopEnds(c)
           \/ UNCHANGED channelsVars
  <2>1. outbound' = outbound /\ published' = published /\ arrived' = arrived /\ (job' = job \/ job' = Idle)
    BY <1>3, QueueLeft, Zenon
  <2>2. SendTypes'
    BY <2>1 DEF OrderInv, SendTypes, ChannelsTypeOK, Sends, Idle
  <2>3. Taken' = Taken
    BY <2>1 DEF Taken
  <2>4. SendsLast'
    <3>1. CASE job' = job
      BY <2>1, <2>3, <3>1 DEF OrderInv, SendsLast
    <3>2. CASE job' = Idle
      BY <3>2 DEF SendsLast, Idle, Sending
    <3>. QED
      BY <2>1, <3>1, <3>2
  <2>5. Once' /\ WaitInOrder'
    BY <2>1, <2>3 DEF OrderInv, Once, WaitInOrder
  <2>6. ArrivedWasTaken' /\ Sorted'
    BY <2>1, <2>3 DEF OrderInv, ArrivedWasTaken, Sorted
  <2>. QED
    BY <2>2, <2>4, <2>5, <2>6 DEF OrderInv
<1>. QED
  BY <1>1, <1>2, <1>3, Zenon DEF ChannelsNext

(* What has arrived is in the order of its places, which are those of published. *)
LEMMA SortedIsInOrder == OrderInv => InOrder
<1> SUFFICES ASSUME OrderInv, NEW i \in DOMAIN arrived, NEW j \in DOMAIN arrived, i < j
             PROVE  \/ Position(arrived[i].of) < Position(arrived[j].of)
                    \/ arrived[i].of = arrived[j].of /\ arrived[i].part <= arrived[j].part
  BY DEF InOrder
<1>1. /\ DOMAIN arrived = 1 .. Len(arrived) /\ DOMAIN published = 1 .. Len(published)
      /\ Taken \in Nat /\ Taken <= Len(published) /\ Len(published) \in Nat
  BY DEF OrderInv, SendTypes, WaitInOrder, Taken
<1>2. ASSUME NEW n \in DOMAIN arrived
      PROVE  /\ Position(arrived[n].of) \in 1 .. Len(published)
             /\ arrived[n].of = published[Position(arrived[n].of)]
  <2>1. PICK q \in 1 .. Len(published) : arrived[n].of = published[q]
    BY <1>1 DEF OrderInv, ArrivedWasTaken
  <2>. QED
    BY <1>1, <2>1 DEF Position
<1>. QED
  BY <1>1, <1>2 DEF OrderInv, Sorted

(***************************************************************************)
(* _dispatch_outbound and send: for any messages of any numbers of parts,  *)
(* with sends that fail, arrive though they raised, or are repeated, and a *)
(* channel that is replaced on the way.                                    *)
(***************************************************************************)
THEOREM SentInOrder == ChannelsSpec => []InOrder
<1>1. ChannelsInit => ChannelInv /\ OrderInv
  BY ChannelInitInv, OrderInit
<1>2. ChannelInv /\ OrderInv /\ [ChannelsNext]_channelsVars => (ChannelInv /\ OrderInv)'
  BY TypeStep, AliveStep, OverlapStays, OrderStep DEF ChannelInv
<1>3. OrderInv => InOrder
  BY SortedIsInOrder
<1>. QED
  BY <1>1, <1>2, <1>3, PTL DEF ChannelsSpec
=============================================================================
