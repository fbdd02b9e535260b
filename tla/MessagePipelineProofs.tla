------------------------ MODULE MessagePipelineProofs ------------------------
(***************************************************************************)
(* Proofs about MessagePipeline: it uses the task table as TaskManager     *)
(* says, an answer is on record before anybody can know of it and after    *)
(* its question, and no task is left without somebody to attend to it,     *)
(* for any messages, chats and number of stops.                            *)
(***************************************************************************)
EXTENDS MessagePipeline, FiniteSetTheorems, SequenceTheorems, TLAPS

TP == INSTANCE TaskManagerProofs WITH TaskIds <- Messages

-----------------------------------------------------------------------------
(* The task table *)

tableStep == [TP!Next]_(TP!vars)

(* The operations by the names of the module and of its proofs. *)
LEMMA SameNames ==
  /\ TM!Init => TP!Init
  /\ TM!Load => TP!Load
  /\ TM!GetRecovered => TP!GetRecovered
  /\ TM!Crash => TP!Crash
  /\ \A S \in SUBSET recent : TM!HourPasses(S) => TP!HourPasses(S)
  /\ \A m \in Messages :
       /\ TM!CreateTask(m, "agent", NoTask) => TP!CreateTask(m, "agent", NoTask)
       /\ \A s \in TM!States : TM!UpdateState(m, s) => TP!UpdateState(m, s)
<1>1. TM!Init => TP!Init
  BY DEF TM!Init, TP!Init
<1>2. TM!Load => TP!Load
  BY Zenon DEF TM!Load, TP!Load, TM!LoadedTable, TP!LoadedTable, TM!Recovered, TP!Recovered,
               TM!Requeued, TP!Requeued, TM!FileAfterLoad, TP!FileAfterLoad, TM!Touched, TP!Touched
<1>3. TM!GetRecovered => TP!GetRecovered
  BY DEF TM!GetRecovered, TP!GetRecovered
<1>4. TM!Crash => TP!Crash
  BY DEF TM!Crash, TP!Crash
<1>5. \A S \in SUBSET recent : TM!HourPasses(S) => TP!HourPasses(S)
  BY DEF TM!HourPasses, TP!HourPasses, TM!storeVars, TP!storeVars
<1>6. \A m \in Messages : TM!CreateTask(m, "agent", NoTask) => TP!CreateTask(m, "agent", NoTask)
  BY Zenon DEF TM!CreateTask, TP!CreateTask, TM!WithTask, TP!WithTask, TM!NewTask, TP!NewTask
<1>7. \A m \in Messages, s \in TM!States : TM!UpdateState(m, s) => TP!UpdateState(m, s)
  BY Zenon DEF TM!UpdateState, TP!UpdateState, TM!Known, TP!Known, TM!WithState, TP!WithState
<1>. QED
  BY <1>1, <1>2, <1>3, <1>4, <1>5, <1>6, <1>7

(* The tasks of messages are an agent's, and have no parent. *)
LEMMA TableOperations ==
  /\ TM!Load \/ TM!GetRecovered \/ TM!Crash => tableStep
  /\ \A S \in SUBSET recent : TM!HourPasses(S) => tableStep
  /\ \A m \in Messages :
       /\ TM!CreateTask(m, "agent", NoTask) => tableStep
       /\ TM!UpdateState(m, "DOING") \/ TM!UpdateState(m, "DONE") \/ TM!UpdateState(m, "ERROR") => tableStep
  /\ UNCHANGED taskVars => tableStep
<1>1. "agent" \in TP!Kinds /\ NoTask \in TP!Parents("agent")
  BY DEF TP!Kinds, TP!Parents
<1>2. TM!States = TP!States /\ {"DOING", "DONE", "ERROR"} \subseteq TP!States
  BY DEF TM!States, TP!States
<1>3. TM!Load \/ TM!GetRecovered \/ TM!Crash => tableStep
  BY SameNames DEF tableStep, TP!Next
<1>4. \A S \in SUBSET recent : TM!HourPasses(S) => tableStep
  BY SameNames DEF tableStep, TP!Next
<1>5. \A m \in Messages : TM!CreateTask(m, "agent", NoTask) => tableStep
  BY <1>1, SameNames DEF tableStep, TP!Next
<1>6. ASSUME NEW m \in Messages, NEW s \in TP!States, TM!UpdateState(m, s) PROVE tableStep
  BY <1>2, <1>6, SameNames DEF tableStep, TP!Next
<1>7. UNCHANGED taskVars => tableStep
  BY DEF taskVars, tableStep, TP!vars, TP!storeVars
<1>. QED
  BY <1>2, <1>3, <1>4, <1>5, <1>6, <1>7

(* What runs between two awaits is one operation of the table at most. *)
LEMMA TableSteps == [Next]_vars => tableStep
<1> SUFFICES ASSUME [Next]_vars PROVE tableStep
  OBVIOUS
<1>1. CASE Boot \/ Requeue \/ Crash \/ HourPasses
  BY <1>1, TableOperations DEF Boot, Requeue, Crash, HourPasses
<1>2. CASE Deliver \/ UNCHANGED vars
  BY <1>2, TableOperations DEF Deliver, vars
<1>3. ASSUME NEW m \in Messages, Send(m) \/ Begin(m) \/ StartCreated(m) PROVE tableStep
  BY <1>3, TableOperations DEF Send, Begin, StartCreated
<1>4. ASSUME NEW m \in Messages, Fail(m) \/ Close(m) PROVE tableStep
  BY <1>4, TableOperations DEF Fail, Close
<1>5. ASSUME NEW m \in Messages,
             \/ SaveSent(m) \/ Publish(m) \/ Receive(m) \/ Take(m) \/ Dispatch(m) \/ Think(m)
             \/ FailOnMedia(m) \/ Reply(m) \/ PublishError(m) \/ End(m)
      PROVE  tableStep
  BY <1>5, TableOperations
     DEF SaveSent, Publish, Receive, Take, Dispatch, Think, FailOnMedia, Reply, PublishError, End
<1>. QED
  BY <1>1, <1>2, <1>3, <1>4, <1>5 DEF Next

(***************************************************************************)
(* Sending, working, stopping and starting use the table by its operations *)
(* only, so what TaskManagerProofs shows of it holds in the pipeline.      *)
(***************************************************************************)
THEOREM UsesTaskTable == Spec => TP!Spec
<1>1. Init => TP!Init
  BY SameNames DEF Init
<1>2. [Next]_vars => [TP!Next]_(TP!vars)
  BY TableSteps DEF tableStep
<1>. QED
  BY <1>1, <1>2, PTL DEF Spec, TP!Spec

(* In particular its inductive invariant. *)
LEMMA TableInvariant == Spec => []TP!IInv
  BY UsesTaskTable, TP!Invariance, NoTaskAssumption, PTL

-----------------------------------------------------------------------------
(* What the operations of the table do to its rows *)

(* A task of a message, as create_task makes it. *)
Fresh(t, m) == t.id = m /\ t.state = "TODO" /\ t.kind = "agent"

(* The rows of the table are tasks of messages. *)
LEMMA RowTypes ==
  ASSUME TP!IInv
  PROVE  /\ tasks \in Seq(TP!Task) /\ file \in Seq(TP!Task)
         /\ \A k \in DOMAIN tasks : tasks[k].id \in Messages /\ tasks[k].id \in issued
         /\ \A k \in DOMAIN file : file[k].id \in Messages /\ file[k].id \in issued
         /\ issued \subseteq Messages /\ recoveredIds \subseteq issued /\ recent \subseteq issued
         /\ up => file = tasks
<1>1. /\ tasks \in Seq(TP!Task) /\ file \in Seq(TP!Task)
      /\ issued \subseteq Messages /\ recoveredIds \subseteq issued /\ recent \subseteq issued
      /\ TP!Known(tasks) \subseteq issued /\ TP!Known(file) \subseteq issued
      /\ up => file = tasks
  BY DEF TP!IInv, TP!TypeOK, TP!FileIsCurrent
<1>2. /\ \A k \in DOMAIN tasks : tasks[k].id \in issued
      /\ \A k \in DOMAIN file : file[k].id \in issued
  BY <1>1 DEF TP!Known
<1>. QED
  BY <1>1, <1>2

(* create_task adds a row. *)
LEMMA CreateRows ==
  ASSUME TP!IInv, NEW m \in Messages, TM!CreateTask(m, "agent", NoTask)
  PROVE  /\ up /\ up' = up /\ file = tasks /\ file' = tasks'
         /\ m \notin issued /\ issued' = issued \cup {m}
         /\ recent' = recent \cup {m} /\ recoveredIds' = recoveredIds
         /\ \A k \in DOMAIN tasks' :
              \/ k \in DOMAIN tasks /\ tasks'[k] = tasks[k]
              \/ Fresh(tasks'[k], m)
<1>1. /\ up /\ up' = up /\ m \notin issued /\ issued' = issued \cup {m} /\ recent' = recent \cup {m}
      /\ recoveredIds' = recoveredIds /\ file' = tasks'
      /\ tasks' = Append(tasks, [id |-> m, kind |-> "agent", parent |-> NoTask, state |-> "TODO"])
  BY DEF TM!CreateTask, TM!WithTask, TM!NewTask
<1> DEFINE t == [id |-> m, kind |-> "agent", parent |-> NoTask, state |-> "TODO"]
<1>2. Fresh(t, m)
  BY DEF Fresh
<1> HIDE DEF t
<1>3. tasks' = Append(tasks, t) /\ tasks \in Seq(TP!Task)
  BY <1>1, RowTypes DEF t
<1>4. \A k \in DOMAIN tasks' : (k \in DOMAIN tasks /\ tasks'[k] = tasks[k]) \/ tasks'[k] = t
  <2>1. DOMAIN tasks' = 1 .. Len(tasks) + 1 /\ DOMAIN tasks = 1 .. Len(tasks) /\ Len(tasks) \in Nat
    BY <1>3, AppendProperties, LenProperties
  <2>. QED
    BY <1>3, <2>1, AppendProperties
<1>. QED
  BY <1>1, <1>2, <1>4, RowTypes

(* update_state changes the row of the task. *)
LEMMA UpdateRows ==
  ASSUME TP!IInv, NEW m \in Messages, NEW s, TM!UpdateState(m, s)
  PROVE  /\ up /\ up' = up /\ file = tasks /\ file' = tasks'
         /\ issued' = issued /\ recent' = recent /\ recoveredIds' = recoveredIds
         /\ DOMAIN tasks' = DOMAIN tasks
         /\ \A k \in DOMAIN tasks :
              /\ tasks'[k].id = tasks[k].id /\ tasks'[k].kind = tasks[k].kind
              /\ tasks'[k].state = IF tasks[k].id = m THEN s ELSE tasks[k].state
<1>1. /\ up /\ up' = up /\ file' = tasks'
      /\ issued' = issued /\ recent' = recent /\ recoveredIds' = recoveredIds
      /\ tasks' = [k \in DOMAIN tasks |-> IF tasks[k].id = m THEN [tasks[k] EXCEPT !.state = s] ELSE tasks[k]]
  BY DEF TM!UpdateState, TM!WithState
<1>2. \A k \in DOMAIN tasks : tasks[k] \in TP!Task
  BY RowTypes
<1>. QED
  BY <1>1, <1>2, RowTypes DEF TP!Task

(* _load queues the tasks under way, and those that wait and are recent. *)
LEMMA LoadRows ==
  ASSUME TP!IInv, TM!Load, \A k \in DOMAIN file : file[k].kind = "agent"
  PROVE  /\ ~ up /\ up' /\ file' = tasks'
         /\ issued' = issued /\ recent' = recent /\ recoveredIds' \subseteq issued
         /\ DOMAIN tasks' = DOMAIN file
         /\ \A k \in DOMAIN file :
              /\ tasks'[k].id = file[k].id /\ tasks'[k].kind = "agent"
              /\ tasks'[k].state = IF file[k].state = "DOING" THEN "TODO" ELSE file[k].state
              /\ tasks'[k].state = "TODO" => file[k].id \in recoveredIds' \/ file[k].id \notin recent
              /\ tasks'[k].state # "TODO" => file[k].id \notin recoveredIds'
<1>1. TP!Load
  BY SameNames
<1>2. file' = TP!LoadedTable /\ tasks' = TP!LoadedTable
  BY <1>1, TP!LoadedIsFile, NoTaskAssumption DEF TP!Load, TP!IInv
<1>3. \A k \in DOMAIN file : file[k] \in TP!Task /\ file[k].id \in issued
  BY RowTypes
<1>4. /\ ~ up /\ up' /\ issued' = issued /\ recent' = recent
      /\ recoveredIds' = {file[k].id : k \in {j \in DOMAIN file : TP!Requeued(file[j])}}
      /\ tasks' = [k \in DOMAIN file |-> TP!Recovered(file[k])]
  BY <1>1, <1>2 DEF TP!Load, TP!LoadedTable
<1>5. \A k \in DOMAIN file :
        /\ TP!Recovered(file[k]).id = file[k].id /\ TP!Recovered(file[k]).kind = "agent"
        /\ TP!Recovered(file[k]).state = IF file[k].state = "DOING" THEN "TODO" ELSE file[k].state
  BY <1>3 DEF TP!Recovered, TP!Task, TP!States
<1>6. \A k \in DOMAIN file : TP!Requeued(file[k]) <=>
        file[k].state = "DOING" \/ (file[k].state = "TODO" /\ file[k].id \in recent)
  BY <1>3 DEF TP!Requeued
<1>7. \A j, k \in DOMAIN file : file[j].id = file[k].id => j = k
  BY DEF TP!IInv, TP!Orderly, TP!UniqueIds
<1>8. \A k \in DOMAIN file : file[k].id \in recoveredIds' <=> TP!Requeued(file[k])
  BY <1>4, <1>7
<1>. QED
  BY <1>2, <1>3, <1>4, <1>5, <1>6, <1>8

(* The recovered tasks of the table are published again, each at a place of its own. *)
LEMMA Republished ==
  ASSUME TP!IInv
  PROVE  ToSet(RequeuedMessages) = {tasks[k].id : k \in {i \in DOMAIN tasks : tasks[i].id \in recoveredIds}}
<1> DEFINE waiting == {i \in DOMAIN tasks : tasks[i].id \in recoveredIds}
           UpTo(i) == {j \in waiting : j <= i}
           place(i) == Cardinality(UpTo(i))
<1>1. DOMAIN tasks = 1 .. Len(tasks) /\ Len(tasks) \in Nat
  BY RowTypes, LenProperties
<1>2. IsFiniteSet(waiting) /\ waiting \subseteq Int
  <2>1. IsFiniteSet(1 .. Len(tasks))
    BY <1>1, FS_Interval
  <2>2. waiting \in SUBSET (1 .. Len(tasks))
    BY <1>1
  <2>. QED
    BY <2>1, <2>2, FS_Subset
<1>3. \A i \in waiting : /\ IsFiniteSet(UpTo(i)) /\ place(i) \in Nat
                         /\ 1 <= place(i) /\ place(i) <= Cardinality(waiting)
  <2> SUFFICES ASSUME NEW i \in waiting
               PROVE  /\ IsFiniteSet(UpTo(i)) /\ place(i) \in Nat
                      /\ 1 <= place(i) /\ place(i) <= Cardinality(waiting)
    OBVIOUS
  <2>1. UpTo(i) \in SUBSET waiting /\ i \in UpTo(i)
    BY <1>2
  <2>2. IsFiniteSet(UpTo(i)) /\ place(i) <= Cardinality(waiting)
    BY <1>2, <2>1, FS_Subset
  <2>3. place(i) \in Nat /\ place(i) # 0
    BY <2>1, <2>2, FS_CardinalityType, FS_EmptySet
  <2>. QED
    BY <2>2, <2>3
<1>4. \A i, j \in waiting : place(i) = place(j) => i = j
  <2>1. ASSUME NEW i \in waiting, NEW j \in waiting, i < j PROVE place(i) # place(j)
    <3>1. UpTo(i) \in SUBSET UpTo(j) /\ UpTo(i) # UpTo(j)
      BY <1>2, <2>1
    <3>. QED
      BY <1>3, <3>1, FS_Subset
  <2>2. \A i, j \in waiting : i = j \/ i < j \/ j < i
    BY <1>2
  <2> HIDE DEF place, UpTo, waiting
  <2>. QED
    BY <2>1, <2>2
<1>5. Cardinality(waiting) \in Nat
  BY <1>2, FS_CardinalityType
<1>6. \A i \in waiting : place(i) \in 1 .. Cardinality(waiting)
  <2> SUFFICES ASSUME NEW i \in waiting PROVE place(i) \in 1 .. Cardinality(waiting)
    OBVIOUS
  <2>1. place(i) \in Nat /\ 1 <= place(i) /\ place(i) <= Cardinality(waiting)
    BY <1>3
  <2> HIDE DEF place, waiting
  <2>. QED
    BY <2>1, <1>5
<1>7. \A n \in 1 .. Cardinality(waiting) : \E i \in waiting : place(i) = n
  <2> DEFINE all == 1 .. Cardinality(waiting)
             f == [i \in waiting |-> place(i)]
  <2>1. f \in Injection(waiting, all)
    <3> HIDE DEF place, waiting
    <3>. QED
      BY <1>4, <1>6 DEF Injection, IsInjective
  <2>2. IsFiniteSet(all) /\ Cardinality(all) = Cardinality(waiting)
    <3> HIDE DEF waiting
    <3>. QED
      BY <1>5, FS_Interval
  <2>3. f \in Surjection(waiting, all)
    <3> HIDE DEF f, all, waiting
    <3>. QED
      BY <2>1, <2>2, FS_Injection
  <2>. QED
    <3> HIDE DEF place, waiting
    <3>. QED
      BY <2>3 DEF Surjection
<1>8. RequeuedMessages = [n \in 1 .. Cardinality(waiting) |-> tasks[CHOOSE i \in waiting : place(i) = n].id]
  BY DEF RequeuedMessages
<1>9. ToSet(RequeuedMessages) = {tasks[k].id : k \in waiting}
  <2> DEFINE nth(n) == CHOOSE i \in waiting : place(i) = n
  <2> HIDE DEF place, waiting
  <2>1. \A n \in 1 .. Cardinality(waiting) : nth(n) \in waiting
    BY <1>7
  <2>2. \A i \in waiting : place(i) \in 1 .. Cardinality(waiting) /\ nth(place(i)) = i
    BY <1>4, <1>6
  <2> HIDE DEF nth
  <2>3. ToSet(RequeuedMessages) = {tasks[nth(n)].id : n \in 1 .. Cardinality(waiting)}
    BY <1>8 DEF ToSet, nth
  <2>. QED
    BY <2>1, <2>2, <2>3
<1>. QED
  BY <1>9

-----------------------------------------------------------------------------
(* The record *)

Places == InFlight \cup {"unsent", "over", "gone"}
Entries == [role : {"user", "assistant"}, of : Messages]

TypeOK ==
  /\ chat \in [Messages -> Chats]
  /\ at \in [Messages -> Places]
  /\ noted \in [Messages -> BOOLEAN]
  /\ outbound \in Seq(Messages)
  /\ transcript \in [Chats -> Seq(Entries)]

(* A message has its question on record where its reply can be next, or is. *)
Asked ==
  \A m \in Messages :
    noted[m] \/ at[m] \in {"noting", "thinking"} => Questions(m) # {}

(* An answer is on record before the task is DONE or anything is published. *)
Answered ==
  /\ \A m \in Messages : at[m] \in {"replying", "failing"} => Answers(m) # {}
  /\ \A i \in DOMAIN outbound : Answers(outbound[i]) # {}
  /\ \A k \in DOMAIN file : file[k].state = "DONE" => Answers(file[k].id) # {}

RecordInv == TypeOK /\ Asked /\ Answered /\ AnswerFollowsQuestion

(* What was on record stays so, and answers come only where there is a question. *)
RecordKept ==
  \A m \in Messages :
    /\ Questions(m) \subseteq Questions(m)'
    /\ Answers(m) \subseteq Answers(m)'
    /\ \A k \in Answers(m)' : k \in Answers(m) \/ \E q \in Questions(m) : q < k

(* A step that leaves the transcripts alone. *)
LEMMA NothingAdded ==
  ASSUME chat' = chat, transcript' = transcript
  PROVE  /\ RecordKept
         /\ \A m \in Messages : Questions(m)' = Questions(m) /\ Answers(m)' = Answers(m)
  BY DEF RecordKept, Questions, Answers

(* Where an entry is in a transcript. *)
Where(s, e) == {k \in DOMAIN s : s[k] = e}

(* One entry more leaves the others where they are. *)
LEMMA WhereMore ==
  ASSUME NEW s \in Seq(Entries), NEW e \in Entries
  PROVE  /\ Append(s, e) \in Seq(Entries)
         /\ \A x : Where(s, x) \subseteq Where(Append(s, e), x)
         /\ \A x : x # e => Where(Append(s, e), x) = Where(s, x)
         /\ Where(Append(s, e), e) = Where(s, e) \cup {Len(s) + 1}
         /\ \A x : Where(s, x) \subseteq 1 .. Len(s)
         /\ Len(s) \in Nat
<1>1. /\ Len(s) \in Nat /\ DOMAIN s = 1 .. Len(s)
      /\ Append(s, e) \in Seq(Entries)
      /\ DOMAIN Append(s, e) = 1 .. Len(s) + 1 /\ Append(s, e)[Len(s) + 1] = e
      /\ \A k \in 1 .. Len(s) : Append(s, e)[k] = s[k]
  BY AppendProperties, LenProperties
<1> DEFINE t == Append(s, e)
<1> HIDE DEF t
<1>2. /\ Len(s) \in Nat /\ DOMAIN s = 1 .. Len(s)
      /\ DOMAIN t = 1 .. Len(s) + 1 /\ t[Len(s) + 1] = e
      /\ \A k \in 1 .. Len(s) : t[k] = s[k]
  BY <1>1 DEF t
<1>3. /\ \A x : Where(s, x) \subseteq Where(t, x)
      /\ \A x : x # e => Where(t, x) = Where(s, x)
      /\ Where(t, e) = Where(s, e) \cup {Len(s) + 1}
      /\ \A x : Where(s, x) \subseteq 1 .. Len(s)
  BY <1>2 DEF Where
<1>. QED
  BY <1>1, <1>3 DEF t

(* Questions and answers as places of entries. *)
LEMMA WhereIs ==
  \A m \in Messages :
    /\ Questions(m) = Where(transcript[chat[m]], [role |-> "user", of |-> m])
    /\ Questions(m)' = Where(transcript'[chat'[m]], [role |-> "user", of |-> m])
    /\ Answers(m) = Where(transcript[chat[m]], [role |-> "assistant", of |-> m])
    /\ Answers(m)' = Where(transcript'[chat'[m]], [role |-> "assistant", of |-> m])
  BY DEF Questions, Answers, Where

(* One entry more, at the end of the transcript of its chat. *)
LEMMA EntryAdded ==
  ASSUME TypeOK, chat' = chat, NEW m \in Messages, NEW role \in {"user", "assistant"},
         AddMessage(m, role), role = "assistant" => Questions(m) # {}
  PROVE  /\ RecordKept
         /\ transcript' \in [Chats -> Seq(Entries)]
         /\ role = "user" => Questions(m)' # {}
         /\ role = "assistant" => Answers(m)' # {}
<1>1. PICK e \in Entries : e = [role |-> role, of |-> m]
  BY DEF Entries
<1>2. chat[m] \in Chats /\ transcript' = [transcript EXCEPT ![chat[m]] = Append(@, e)]
  BY <1>1 DEF AddMessage, TypeOK
<1>3. \A x \in Messages :
        /\ transcript[chat[x]] \in Seq(Entries)
        /\ transcript'[chat'[x]] = IF chat[x] = chat[m] THEN Append(transcript[chat[x]], e)
                                                      ELSE transcript[chat[x]]
  BY <1>2 DEF TypeOK
<1>4. transcript' \in [Chats -> Seq(Entries)]
  BY <1>2, WhereMore DEF TypeOK
<1>5. /\ role = "user" => Questions(m)' # {}
      /\ role = "assistant" => Answers(m)' # {}
  <2>1. PICK s \in Seq(Entries) : s = transcript[chat[m]] /\ Append(s, e) = transcript'[chat'[m]]
    BY <1>3
  <2>2. Len(s) + 1 \in Where(Append(s, e), e)
    BY WhereMore
  <2>. QED
    BY <1>1, <2>1, <2>2, WhereIs
<1>6. ASSUME NEW x \in Messages
      PROVE  /\ Questions(x) \subseteq Questions(x)'
             /\ Answers(x) \subseteq Answers(x)'
             /\ \A k \in Answers(x)' : k \in Answers(x) \/ \E q \in Questions(x) : q < k
  <2>0. PICK t : t = transcript'[chat'[x]]
    OBVIOUS
  <2>1. PICK s \in Seq(Entries) : s = transcript[chat[x]] /\ t = transcript'[chat'[x]]
    BY <1>3, <2>0
  <2>2. PICK ask, answer : ask = [role |-> "user", of |-> x] /\ answer = [role |-> "assistant", of |-> x]
    OBVIOUS
  <2>3. /\ Questions(x) = Where(s, ask) /\ Questions(x)' = Where(t, ask)
        /\ Answers(x) = Where(s, answer) /\ Answers(x)' = Where(t, answer)
    BY <2>1, <2>2, WhereIs
  <2>4. t = s \/ t = Append(s, e)
    BY <1>3, <2>1
  <2>5. Where(s, ask) \subseteq Where(t, ask) /\ Where(s, answer) \subseteq Where(t, answer)
    BY <2>4, WhereMore
  <2>6. ASSUME NEW k \in Where(t, answer), k \notin Where(s, answer)
        PROVE  \E q \in Where(s, ask) : q < k
    <3>1. t = Append(s, e) /\ answer = e
      <4>1. t = Append(s, e)
        BY <2>4, <2>6
      <4>2. answer # e => Where(Append(s, e), answer) = Where(s, answer)
        BY WhereMore
      <4>. QED
        BY <2>6, <4>1, <4>2
    <3>2. k \in Where(s, e) \cup {Len(s) + 1} /\ Len(s) \in Nat
      BY <2>6, <3>1, WhereMore
    <3>3. k = Len(s) + 1
      BY <2>6, <3>1, <3>2
    <3>4. role = "assistant" /\ x = m
      BY <1>1, <2>2, <3>1
    <3>5. PICK q : q \in Where(s, ask)
      BY <2>3, <3>4
    <3>6. q \in 1 .. Len(s)
      BY <3>5, WhereMore
    <3>. QED
      BY <3>2, <3>3, <3>5, <3>6
  <2>. QED
    BY <2>3, <2>5, <2>6
<1>. QED
  BY <1>4, <1>5, <1>6 DEF RecordKept

-----------------------------------------------------------------------------
(* The tasks of messages are an agent's: none is a subagent's. *)

Agents ==
  /\ \A k \in DOMAIN tasks : tasks[k].kind = "agent"
  /\ \A k \in DOMAIN file : file[k].kind = "agent"

(* The steps as operations of the table. *)
TableOperation ==
  \/ UNCHANGED taskVars \/ TM!Load \/ TM!GetRecovered \/ TM!Crash
  \/ \E S \in SUBSET recent : TM!HourPasses(S)
  \/ \E m \in Messages : \/ TM!CreateTask(m, "agent", NoTask)
                         \/ TM!UpdateState(m, "DOING")
                         \/ TM!UpdateState(m, "ERROR")
                         \/ at[m] = "replying" /\ TM!UpdateState(m, "DONE")

(* Every step is one of these operations, or leaves the table alone. *)
LEMMA StepOperation == [Next]_vars => TableOperation
<1> SUFFICES ASSUME [Next]_vars PROVE TableOperation
  OBVIOUS
<1>1. CASE Boot \/ Requeue \/ Crash \/ HourPasses
  BY <1>1 DEF Boot, Requeue, Crash, HourPasses, TableOperation
<1>2. CASE Deliver \/ UNCHANGED vars
  BY <1>2 DEF Deliver, vars, TableOperation, taskVars
<1>3. ASSUME NEW m \in Messages, Send(m) \/ Begin(m) \/ StartCreated(m) PROVE TableOperation
  BY <1>3 DEF Send, Begin, StartCreated, TableOperation
<1>4. ASSUME NEW m \in Messages, Fail(m) \/ Close(m) PROVE TableOperation
  BY <1>4 DEF Fail, Close, Move, TableOperation
<1>5. ASSUME NEW m \in Messages,
             \/ SaveSent(m) \/ Publish(m) \/ Receive(m) \/ Take(m) \/ Dispatch(m) \/ Think(m)
             \/ FailOnMedia(m) \/ Reply(m) \/ PublishError(m) \/ End(m)
      PROVE  TableOperation
  BY <1>5 DEF SaveSent, Publish, Receive, Take, Dispatch, Think, FailOnMedia, Reply, PublishError, End,
              TableOperation
<1>. QED
  BY <1>1, <1>2, <1>3, <1>4, <1>5 DEF Next

(* A task is DONE only if it was before, or its reply is on record. *)
DoneKept ==
  \A k \in DOMAIN file' :
    file'[k].state = "DONE" =>
      \/ \E j \in DOMAIN file : file[j].state = "DONE" /\ file[j].id = file'[k].id
      \/ file'[k].id \in Messages /\ at[file'[k].id] = "replying"

(* An operation makes no subagent's task, and no task DONE too early. *)
LEMMA OperationKeeps ==
  ASSUME TP!IInv, Agents, TableOperation
  PROVE  Agents' /\ DoneKept
<1>1. CASE UNCHANGED taskVars \/ TM!GetRecovered \/ (\E S \in SUBSET recent : TM!HourPasses(S))
  <2>1. tasks' = tasks /\ file' = file
    BY <1>1 DEF taskVars, TM!GetRecovered, TM!HourPasses, TM!storeVars
  <2>. QED
    BY <2>1 DEF Agents, DoneKept
<1>2. CASE TM!Crash
  <2>1. tasks' = <<>> /\ file' = file
    BY <1>2 DEF TM!Crash
  <2>. QED
    BY <2>1 DEF Agents, DoneKept
<1>3. CASE TM!Load
  <2>1. /\ file' = tasks' /\ DOMAIN tasks' = DOMAIN file
        /\ \A k \in DOMAIN file :
             /\ tasks'[k].id = file[k].id /\ tasks'[k].kind = "agent"
             /\ tasks'[k].state = IF file[k].state = "DOING" THEN "TODO" ELSE file[k].state
    BY <1>3, LoadRows DEF Agents
  <2>. QED
    BY <2>1 DEF Agents, DoneKept
<1>4. ASSUME NEW m \in Messages, TM!CreateTask(m, "agent", NoTask) PROVE Agents' /\ DoneKept
  <2>1. /\ file = tasks /\ file' = tasks'
        /\ \A k \in DOMAIN tasks' : \/ k \in DOMAIN tasks /\ tasks'[k] = tasks[k]
                                    \/ Fresh(tasks'[k], m)
    BY <1>4, CreateRows
  <2>. QED
    BY <2>1 DEF Agents, DoneKept, Fresh
<1>5. ASSUME NEW m \in Messages, NEW s, TM!UpdateState(m, s), s # "DONE" \/ at[m] = "replying"
      PROVE  Agents' /\ DoneKept
  <2>1. /\ file = tasks /\ file' = tasks' /\ DOMAIN tasks' = DOMAIN tasks
        /\ \A k \in DOMAIN tasks :
             /\ tasks'[k].id = tasks[k].id /\ tasks'[k].kind = tasks[k].kind
             /\ tasks'[k].state = IF tasks[k].id = m THEN s ELSE tasks[k].state
    BY <1>5, UpdateRows
  <2>. QED
    BY <1>5, <2>1 DEF Agents, DoneKept
<1>. QED
  BY <1>1, <1>2, <1>3, <1>4, <1>5 DEF TableOperation

(* It holds in every reachable state. *)
LEMMA AgentsInvariant == Spec => []Agents
<1>1. Init => Agents
  BY DEF Init, TM!Init, Agents
<1>2. Agents /\ TP!IInv /\ [Next]_vars => Agents'
  BY StepOperation, OperationKeeps
<1>. QED
  BY <1>1, <1>2, TableInvariant, PTL DEF Spec

-----------------------------------------------------------------------------
(* One lemma per action: it keeps the record *)

(***************************************************************************)
(* The record is kept if at and noted move as they may, what is published  *)
(* was published before or has its answer, and no task is DONE too early.  *)
(***************************************************************************)
LEMMA RecordStep ==
  ASSUME RecordInv, TP!IInv, RecordKept, DoneKept,
         chat' = chat, transcript' \in [Chats -> Seq(Entries)],
         at' \in [Messages -> Places], noted' \in [Messages -> BOOLEAN], outbound' \in Seq(Messages),
         \A m \in Messages :
           /\ noted'[m] \/ at'[m] \in {"noting", "thinking"} =>
                noted[m] \/ at[m] \in {"noting", "thinking"} \/ Questions(m)' # {}
           /\ at'[m] \in {"replying", "failing"} => at'[m] = at[m] \/ Answers(m)' # {},
         \A i \in DOMAIN outbound' : \/ \E j \in DOMAIN outbound : outbound'[i] = outbound[j]
                                     \/ at[outbound'[i]] \in {"replying", "failing"}
  PROVE  RecordInv'
<1>1. \A m \in Messages : Questions(m) \subseteq Questions(m)' /\ Answers(m) \subseteq Answers(m)'
  BY DEF RecordKept
<1>2. TypeOK'
  BY DEF RecordInv, TypeOK
<1>3. Asked'
  BY <1>1 DEF RecordInv, Asked
<1>4. AnswerFollowsQuestion'
  <2> SUFFICES ASSUME NEW m \in Messages, NEW k \in Answers(m)'
               PROVE  \E q \in Questions(m)' : q < k
    BY DEF AnswerFollowsQuestion
  <2>1. \E q \in Questions(m) : q < k
    BY DEF RecordKept, RecordInv, AnswerFollowsQuestion
  <2>. QED
    BY <1>1, <2>1
<1>5. \A m \in Messages : at'[m] \in {"replying", "failing"} => Answers(m)' # {}
  BY <1>1 DEF RecordInv, Answered
<1>6. \A i \in DOMAIN outbound' : outbound'[i] \in Messages
  BY ElementOfSeq, LenProperties
<1>7. ASSUME NEW i \in DOMAIN outbound' PROVE Answers(outbound[i])' # {}
  <2>1. PICK m \in Messages : m = outbound'[i]
    BY <1>6
  <2>2. Answers(m) # {}
    BY <2>1 DEF RecordInv, Answered
  <2>3. Answers(m)' # {}
    BY <1>1, <2>2
  <2>. QED
    BY <2>1, <2>3 DEF Answers
<1>8. ASSUME NEW k \in DOMAIN file', file'[k].state = "DONE" PROVE Answers(file[k].id)' # {}
  <2>1. PICK m \in Messages : m = file'[k].id
    BY <1>8, RowTypes DEF DoneKept
  <2>2. Answers(m) # {}
    BY <1>8, <2>1 DEF RecordInv, Answered, DoneKept
  <2>3. Answers(m)' # {}
    BY <1>1, <2>2
  <2>. QED
    BY <2>1, <2>3 DEF Answers
<1>9. Answered'
  BY <1>5, <1>7, <1>8 DEF Answered
<1>. QED
  BY <1>2, <1>3, <1>4, <1>9 DEF RecordInv

(* At the start nothing is on record and nothing is claimed. *)
LEMMA InitRecord == Init => RecordInv
<1> SUFFICES ASSUME Init PROVE RecordInv
  OBVIOUS
<1>1. TypeOK
  BY DEF Init, TypeOK, Places
<1>2. \A m \in Messages : Answers(m) = {}
  BY DEF Init, Answers
<1>3. file = <<>>
  BY DEF Init, TM!Init
<1>4. Asked /\ Answered
  BY <1>3 DEF Init, Asked, Answered
<1>5. AnswerFollowsQuestion
  BY <1>2 DEF AnswerFollowsQuestion
<1>. QED
  BY <1>1, <1>4, <1>5 DEF RecordInv

(* A message that moves on. *)
LEMMA MoveTo ==
  ASSUME TypeOK, NEW m \in Messages, NEW from, NEW to \in Places, Move(m, from, to)
  PROVE  /\ at[m] = from /\ at' \in [Messages -> Places]
         /\ \A n \in Messages : at'[n] = IF n = m THEN to ELSE at[n]
  BY DEF Move, TypeOK

(* Starts, stops and recovered messages. *)
LEMMA BootRecord == RecordInv /\ TP!IInv /\ DoneKept /\ (Boot \/ HourPasses) => RecordInv'
<1> SUFFICES ASSUME RecordInv, TP!IInv, DoneKept, Boot \/ HourPasses PROVE RecordInv'
  OBVIOUS
<1>1. UNCHANGED <<chat, at, noted, outbound, transcript>>
  BY DEF Boot, HourPasses, queueVars
<1>. QED
  BY <1>1, NothingAdded, RecordStep DEF RecordInv, TypeOK

(* Recovered messages are published again. *)
LEMMA RequeueRecord == RecordInv /\ TP!IInv /\ DoneKept /\ Requeue => RecordInv'
<1> SUFFICES ASSUME RecordInv, TP!IInv, DoneKept, Requeue PROVE RecordInv'
  OBVIOUS
<1>1. PICK S : S = ToSet(RequeuedMessages)
  OBVIOUS
<1>2. /\ UNCHANGED <<chat, outbound, transcript>>
      /\ at' = [m \in Messages |-> IF m \in S THEN "inbound" ELSE at[m]]
      /\ noted' = [m \in Messages |-> noted[m] /\ m \notin S]
  BY <1>1 DEF Requeue
<1>3. "inbound" \in Places
  BY DEF Places, InFlight, Incoming
<1>4. at' \in [Messages -> Places] /\ noted' \in [Messages -> BOOLEAN]
  BY <1>2, <1>3 DEF RecordInv, TypeOK
<1>5. \A m \in Messages : /\ at'[m] = at[m] \/ at'[m] = "inbound"
                          /\ noted'[m] => noted[m]
  BY <1>2
<1>. QED
  BY <1>2, <1>4, <1>5, NothingAdded, RecordStep DEF RecordInv, TypeOK

(* The process ends. *)
LEMMA CrashRecord == RecordInv /\ TP!IInv /\ DoneKept /\ Crash => RecordInv'
<1> SUFFICES ASSUME RecordInv, TP!IInv, DoneKept, Crash PROVE RecordInv'
  OBVIOUS
<1>1. /\ UNCHANGED <<chat, noted, transcript>> /\ outbound' = <<>>
      /\ at' = [m \in Messages |-> IF at[m] \in InFlight THEN "gone" ELSE at[m]]
  BY DEF Crash
<1>2. at' \in [Messages -> Places]
  BY <1>1 DEF RecordInv, TypeOK, Places
<1>3. \A m \in Messages : at'[m] = at[m] \/ at'[m] = "gone"
  BY <1>1
<1>4. outbound' \in Seq(Messages) /\ DOMAIN outbound' = {}
  BY <1>1
<1>. QED
  BY <1>1, <1>2, <1>3, <1>4, NothingAdded, RecordStep DEF RecordInv, TypeOK

(* A reply goes to its channel. *)
LEMMA DeliverRecord == RecordInv /\ TP!IInv /\ DoneKept /\ Deliver => RecordInv'
<1> SUFFICES ASSUME RecordInv, TP!IInv, DoneKept, Deliver PROVE RecordInv'
  OBVIOUS
<1>1. UNCHANGED <<chat, at, noted, transcript>> /\ outbound # <<>> /\ outbound' = Tail(outbound)
  BY DEF Deliver
<1>2. outbound \in Seq(Messages)
  BY DEF RecordInv, TypeOK
<1>3. /\ outbound' \in Seq(Messages)
      /\ \A i \in DOMAIN outbound' : i + 1 \in DOMAIN outbound /\ outbound'[i] = outbound[i + 1]
  BY <1>1, <1>2, HeadTailProperties, LenProperties
<1>. QED
  BY <1>1, <1>3, NothingAdded, RecordStep DEF RecordInv, TypeOK

(* The steps on the way to the agent, and the end of a turn. *)
LEMMA WayRecord ==
  ASSUME RecordInv, TP!IInv, DoneKept, NEW m \in Messages,
         \/ Send(m) \/ Receive(m) \/ Take(m) \/ Dispatch(m) \/ Begin(m) \/ StartCreated(m)
         \/ FailOnMedia(m) \/ End(m)
  PROVE  RecordInv'
<1>1. /\ UNCHANGED <<chat, noted, outbound, transcript>>
      /\ \E from : \E to \in {"creating", "inbound", "routing", "lane", "starting", "making", "over"} :
           Move(m, from, to)
  BY DEF Send, Receive, Take, Dispatch, Begin, StartCreated, FailOnMedia, End, queueVars
<1>2. /\ at' \in [Messages -> Places]
      /\ \A n \in Messages : at'[n] = at[n] \/ at'[n] \notin {"noting", "thinking", "replying", "failing"}
  BY <1>1, MoveTo DEF RecordInv, Places, InFlight, Incoming, InProgress
<1>. QED
  BY <1>1, <1>2, NothingAdded, RecordStep DEF RecordInv, TypeOK

(* POST /chat saves the message, then publishes it as saved. *)
LEMMA SaveSentRecord ==
  ASSUME RecordInv, TP!IInv, DoneKept, NEW m \in Messages, SaveSent(m)
  PROVE  RecordInv'
<1>1. /\ UNCHANGED <<chat, noted, outbound>> /\ Move(m, "creating", "noting") /\ AddMessage(m, "user")
  BY DEF SaveSent, queueVars
<1>2. at' \in [Messages -> Places] /\ \A n \in Messages : at'[n] = IF n = m THEN "noting" ELSE at[n]
  BY <1>1, MoveTo DEF RecordInv, Places, InFlight, Incoming
<1>3. RecordKept /\ transcript' \in [Chats -> Seq(Entries)] /\ Questions(m)' # {}
  BY <1>1, EntryAdded DEF RecordInv
<1>. QED
  BY <1>1, <1>2, <1>3, RecordStep DEF RecordInv, TypeOK

(* The message is published, marked as saved. *)
LEMMA PublishRecord ==
  ASSUME RecordInv, TP!IInv, DoneKept, NEW m \in Messages, Publish(m)
  PROVE  RecordInv'
<1>1. /\ UNCHANGED <<chat, outbound, transcript>> /\ Move(m, "noting", "inbound")
      /\ noted' = [noted EXCEPT ![m] = TRUE]
  BY DEF Publish
<1>2. /\ at' \in [Messages -> Places] /\ at[m] = "noting"
      /\ \A n \in Messages : at'[n] = IF n = m THEN "inbound" ELSE at[n]
  BY <1>1, MoveTo DEF RecordInv, Places, InFlight, Incoming
<1>3. /\ noted' \in [Messages -> BOOLEAN]
      /\ \A n \in Messages : noted'[n] => noted[n] \/ n = m
  BY <1>1 DEF RecordInv, TypeOK
<1>. QED
  BY <1>1, <1>2, <1>3, NothingAdded, RecordStep DEF RecordInv, TypeOK

(* The question is saved unless it was: it is on record when the model is asked. *)
LEMMA ThinkRecord ==
  ASSUME RecordInv, TP!IInv, DoneKept, NEW m \in Messages, Think(m)
  PROVE  RecordInv'
<1>1. /\ UNCHANGED <<chat, noted, outbound>> /\ Move(m, "starting", "thinking")
      /\ ~ noted[m] => AddMessage(m, "user")
      /\ noted[m] => transcript' = transcript
  BY DEF Think, NotesMessage, queueVars
<1>2. at' \in [Messages -> Places] /\ \A n \in Messages : at'[n] = IF n = m THEN "thinking" ELSE at[n]
  BY <1>1, MoveTo DEF RecordInv, Places, InFlight, InProgress
<1>3. CASE ~ noted[m]
  <2>1. RecordKept /\ transcript' \in [Chats -> Seq(Entries)] /\ Questions(m)' # {}
    BY <1>1, <1>3, EntryAdded DEF RecordInv
  <2>. QED
    BY <1>1, <1>2, <2>1, RecordStep DEF RecordInv, TypeOK
<1>4. CASE noted[m]
  BY <1>1, <1>2, <1>4, NothingAdded, RecordStep DEF RecordInv, TypeOK
<1>. QED
  BY <1>3, <1>4

(* The answer, or the error that stands for it, is saved. *)
LEMMA AnswerRecord ==
  ASSUME RecordInv, TP!IInv, DoneKept, NEW m \in Messages, Reply(m) \/ Fail(m)
  PROVE  RecordInv'
<1>1. /\ UNCHANGED <<chat, noted, outbound>> /\ AddMessage(m, "assistant")
      /\ Move(m, "thinking", "replying") \/ Move(m, "thinking", "failing")
  BY DEF Reply, Fail, SaveReply, SaveError, queueVars
<1>2. PICK to \in {"replying", "failing"} : Move(m, "thinking", to)
  BY <1>1
<1>3. /\ at' \in [Messages -> Places] /\ at[m] = "thinking"
      /\ \A n \in Messages : at'[n] = IF n = m THEN to ELSE at[n]
  BY <1>2, MoveTo DEF RecordInv, Places, InFlight, InProgress, Ending
<1>4. Questions(m) # {}
  BY <1>3 DEF RecordInv, Asked
<1>5. RecordKept /\ transcript' \in [Chats -> Seq(Entries)] /\ Answers(m)' # {}
  BY <1>1, <1>4, EntryAdded DEF RecordInv
<1>. QED
  BY <1>1, <1>3, <1>5, RecordStep DEF RecordInv, TypeOK

(* It is published. *)
LEMMA PublishAnswerRecord ==
  ASSUME RecordInv, TP!IInv, DoneKept, NEW m \in Messages, Close(m) \/ PublishError(m)
  PROVE  RecordInv'
<1>1. /\ UNCHANGED <<chat, noted, transcript>> /\ outbound' = Append(outbound, m)
      /\ Move(m, "replying", "closing") \/ Move(m, "failing", "over")
  BY DEF Close, PublishError
<1>2. /\ at' \in [Messages -> Places] /\ at[m] \in {"replying", "failing"}
      /\ \A n \in Messages : at'[n] = at[n] \/ at'[n] \in {"closing", "over"}
  BY <1>1, MoveTo DEF RecordInv, Places, InFlight, Ending
<1>3. outbound \in Seq(Messages)
  BY DEF RecordInv, TypeOK
<1>4. /\ outbound' \in Seq(Messages)
      /\ \A i \in DOMAIN outbound' : (i \in DOMAIN outbound /\ outbound'[i] = outbound[i]) \/ outbound'[i] = m
  BY <1>1, <1>3, AppendProperties, LenProperties
<1>. QED
  BY <1>1, <1>2, <1>4, NothingAdded, RecordStep DEF RecordInv, TypeOK

(* Every step keeps the record. *)
LEMMA NextRecord == RecordInv /\ TP!IInv /\ Agents /\ [Next]_vars => RecordInv'
<1> SUFFICES ASSUME RecordInv, TP!IInv, Agents, [Next]_vars PROVE RecordInv'
  OBVIOUS
<1>1. DoneKept
  BY StepOperation, OperationKeeps
<1>2. CASE UNCHANGED vars
  <2>1. UNCHANGED <<chat, at, noted, outbound, transcript>>
    BY <1>2 DEF vars, queueVars
  <2>. QED
    BY <1>1, <2>1, NothingAdded, RecordStep DEF RecordInv, TypeOK
<1>. QED
  BY <1>1, <1>2, BootRecord, RequeueRecord, CrashRecord, DeliverRecord, WayRecord, SaveSentRecord,
     PublishRecord, ThinkRecord, AnswerRecord, PublishAnswerRecord DEF Next

(* The record is kept in every reachable state. *)
THEOREM RecordInvariance == Spec => []RecordInv
<1>1. RecordInv /\ TP!IInv /\ Agents /\ [Next]_vars => RecordInv'
  BY NextRecord
<1>. QED
  BY <1>1, InitRecord, TableInvariant, AgentsInvariant, PTL DEF Spec

(* The state of a task is that of its row. *)
LEMMA StateOfRow ==
  ASSUME NEW table, NEW m, NEW s \in {"TODO", "DOING", "DONE", "ERROR"}, StateOf(table, m) = s
  PROVE  \E k \in DOMAIN table : table[k].id = m /\ table[k].state = s
<1>1. m \in TM!Known(table) /\ TM!Entry(table, m).state = s
  BY DEF StateOf
<1>2. \E k \in DOMAIN table : table[k].id = m
  BY <1>1 DEF TM!Known
<1>. QED
  BY <1>1, <1>2 DEF TM!Entry

(***************************************************************************)
(* A reply or an error that somebody can know of, from the task's state or *)
(* from the outbound queue, is in the session's file: a restart shows it.  *)
(***************************************************************************)
THEOREM KnownIsOnRecord == Spec => []OnRecord
<1>1. RecordInv => OnRecord
  <2> SUFFICES ASSUME RecordInv PROVE OnRecord
    OBVIOUS
  <2>1. DoneIsOnRecord
    BY StateOfRow DEF RecordInv, Answered, DoneIsOnRecord
  <2>2. SentIsOnRecord
    BY DEF RecordInv, Answered, SentIsOnRecord, ToSet
  <2>. QED
    BY <2>1, <2>2 DEF OnRecord
<1>. QED
  BY <1>1, RecordInvariance, PTL

(* A reply follows its question, through any number of stops and second turns. *)
THEOREM QuestionComesFirst == Spec => []AnswerFollowsQuestion
<1>1. RecordInv => AnswerFollowsQuestion
  BY DEF RecordInv
<1>. QED
  BY <1>1, RecordInvariance, PTL

-----------------------------------------------------------------------------
(* The tasks and those who attend to them *)

(* A stopped process has nothing under way. *)
Down == ~ up => \A m \in Messages : at[m] \notin InFlight

(* A task is of a message that was sent. *)
Sent == \A m \in issued : at[m] # "unsent"

(* A recovered task waits, and its message is nowhere until it is published again. *)
Waiting ==
  \A m \in recoveredIds :
    /\ at[m] \in {"gone", "over"}
    /\ \A k \in DOMAIN tasks : tasks[k].id = m => tasks[k].state = "TODO"

(* Attended, by the rows of the table. *)
Waits(m) == at[m] \in Incoming \/ m \in recoveredIds \/ m \notin recent
IsWorkedOn(m) == at[m] \in InProgress \/ (at[m] = "over" /\ m \in BrokenMedia)
RowsAttended ==
  up => \A k \in DOMAIN tasks :
          /\ tasks[k].state = "TODO" => Waits(tasks[k].id)
          /\ tasks[k].state = "DOING" => IsWorkedOn(tasks[k].id)

TasksInv == Down /\ Sent /\ Waiting /\ RowsAttended

(* What the steps of the pipeline itself do: the table is as it was. *)
LEMMA QuietTable ==
  ASSUME TasksInv, TypeOK, TP!IInv, UNCHANGED taskVars,
         NEW m \in Messages, NEW from, NEW to, Move(m, from, to), to # "unsent",
         from \notin {"gone", "over"}, to \in InFlight => from \in InFlight \/ up,
         from \in Incoming => to \in Incoming,
         from \in InProgress => to \in InProgress \/ (to = "over" /\ m \in BrokenMedia)
  PROVE  TasksInv'
<1>1. /\ at[m] = from /\ \A n \in Messages : at'[n] = IF n = m THEN to ELSE at[n]
  BY DEF Move, TypeOK
<1>2. UNCHANGED <<up, tasks, recoveredIds, issued, recent>>
  BY DEF taskVars
<1>3. /\ \A k \in DOMAIN tasks : tasks[k].id \in Messages
      /\ issued \subseteq Messages /\ recoveredIds \subseteq Messages
  BY RowTypes
<1>4. Down' /\ Sent' /\ Waiting'
  BY <1>1, <1>2, <1>3 DEF TasksInv, Down, Sent, Waiting
<1>5. RowsAttended'
  BY <1>1, <1>2, <1>3 DEF TasksInv, RowsAttended, Waits, IsWorkedOn
<1>. QED
  BY <1>4, <1>5 DEF TasksInv

(* The steps that leave the table alone. *)
LEMMA WayTasks ==
  ASSUME TasksInv, TypeOK, TP!IInv, NEW m \in Messages,
         \/ SaveSent(m) \/ Publish(m) \/ Receive(m) \/ Take(m) \/ Dispatch(m) \/ Think(m)
         \/ FailOnMedia(m) \/ Reply(m) \/ PublishError(m) \/ End(m)
  PROVE  TasksInv'
<1>1. CASE SaveSent(m) \/ Publish(m) \/ Take(m) \/ Dispatch(m)
  <2>1. UNCHANGED taskVars /\ \E from, to \in Incoming : Move(m, from, to)
    BY <1>1 DEF SaveSent, Publish, Take, Dispatch, Incoming
  <2>. QED
    BY <2>1, QuietTable DEF InFlight, Incoming, InProgress
<1>2. CASE Receive(m)
  <2>1. UNCHANGED taskVars /\ up /\ Move(m, "unsent", "inbound")
    BY <1>2 DEF Receive
  <2>. QED
    BY <2>1, QuietTable DEF InFlight, Incoming, InProgress
<1>3. CASE Think(m) \/ Reply(m)
  <2>1. UNCHANGED taskVars /\ \E from, to \in InProgress : Move(m, from, to)
    BY <1>3 DEF Think, Reply, InProgress
  <2>. QED
    BY <2>1, QuietTable DEF InFlight, Incoming, InProgress
<1>4. CASE FailOnMedia(m)
  <2>1. UNCHANGED taskVars /\ m \in BrokenMedia /\ Move(m, "starting", "over")
    BY <1>4 DEF FailOnMedia, Readable
  <2>. QED
    BY <2>1, QuietTable DEF InFlight, Incoming, InProgress, Ending
<1>5. CASE PublishError(m) \/ End(m)
  <2>1. UNCHANGED taskVars /\ \E from \in Ending : Move(m, from, "over")
    BY <1>5 DEF PublishError, End, Ending
  <2>. QED
    BY <2>1, QuietTable DEF InFlight, Incoming, InProgress, Ending
<1>. QED
  BY <1>1, <1>2, <1>3, <1>4, <1>5

(* create_task, by POST /chat or by the agent: the message is on its way. *)
LEMMA CreateTasks ==
  ASSUME TasksInv, TypeOK, TP!IInv, NEW m \in Messages,
         TM!CreateTask(m, "agent", NoTask),
         NEW from \in {"unsent", "lane"}, NEW to \in {"creating", "making"}, Move(m, from, to)
  PROVE  TasksInv'
<1>1. /\ at[m] = from /\ \A n \in Messages : at'[n] = IF n = m THEN to ELSE at[n]
  BY DEF Move, TypeOK
<1>2. /\ up /\ up' = up /\ m \notin issued /\ issued' = issued \cup {m}
      /\ recent' = recent \cup {m} /\ recoveredIds' = recoveredIds
      /\ \A k \in DOMAIN tasks' : \/ k \in DOMAIN tasks /\ tasks'[k] = tasks[k]
                                  \/ Fresh(tasks'[k], m)
  BY CreateRows
<1>3. /\ \A k \in DOMAIN tasks : tasks[k].id \in Messages /\ tasks[k].id \in issued
      /\ issued \subseteq Messages /\ recoveredIds \subseteq issued
  BY RowTypes
<1>4. to \in Incoming /\ to \notin {"unsent"} /\ "unsent" \notin InFlight
  BY DEF Incoming, InFlight, InProgress, Ending
<1>5. Down' /\ Sent'
  BY <1>1, <1>2, <1>3, <1>4 DEF TasksInv, Down, Sent
<1>6. Waiting'
  BY <1>1, <1>2, <1>3 DEF TasksInv, Waiting, Fresh
<1>7. RowsAttended'
  <2> SUFFICES ASSUME NEW k \in DOMAIN tasks'
               PROVE  /\ tasks'[k].state = "TODO" => Waits(tasks[k].id)'
                      /\ tasks'[k].state = "DOING" => IsWorkedOn(tasks[k].id)'
    BY <1>2 DEF RowsAttended
  <2>1. CASE k \in DOMAIN tasks /\ tasks'[k] = tasks[k]
    <3>1. tasks[k].id # m /\ at'[tasks[k].id] = at[tasks[k].id]
      BY <1>1, <1>2, <1>3, <2>1
    <3>. QED
      BY <1>2, <2>1, <3>1 DEF TasksInv, RowsAttended, Waits, IsWorkedOn
  <2>2. CASE Fresh(tasks'[k], m)
    BY <1>1, <1>4, <2>2 DEF Fresh, Waits
  <2>. QED
    BY <1>2, <2>1, <2>2
<1>. QED
  BY <1>5, <1>6, <1>7 DEF TasksInv

(* update_state, by the agent at work on the message. *)
LEMMA UpdateTasks ==
  ASSUME TasksInv, TypeOK, TP!IInv, NEW m \in Messages,
         NEW s \in {"DOING", "DONE", "ERROR"}, TM!UpdateState(m, s),
         NEW from \in InFlight, NEW to \in InFlight, Move(m, from, to),
         s = "DOING" => to \in InProgress
  PROVE  TasksInv'
<1>1. /\ at[m] = from /\ \A n \in Messages : at'[n] = IF n = m THEN to ELSE at[n]
  BY DEF Move, TypeOK
<1>2. /\ up /\ up' = up /\ issued' = issued /\ recent' = recent /\ recoveredIds' = recoveredIds
      /\ DOMAIN tasks' = DOMAIN tasks
      /\ \A k \in DOMAIN tasks :
           /\ tasks'[k].id = tasks[k].id
           /\ tasks'[k].state = IF tasks[k].id = m THEN s ELSE tasks[k].state
  BY UpdateRows
<1>3. /\ \A k \in DOMAIN tasks : tasks[k].id \in Messages
      /\ issued \subseteq Messages /\ recoveredIds \subseteq Messages
  BY RowTypes
<1>4. {"gone", "over", "unsent"} \cap InFlight = {}
  BY DEF InFlight, Incoming, InProgress, Ending
<1>5. Down' /\ Sent' /\ Waiting'
  BY <1>1, <1>2, <1>3, <1>4 DEF TasksInv, Down, Sent, Waiting
<1>6. RowsAttended'
  BY <1>1, <1>2, <1>3 DEF TasksInv, RowsAttended, Waits, IsWorkedOn
<1>. QED
  BY <1>5, <1>6 DEF TasksInv

(* The steps that use the table. *)
LEMMA AgentTasks ==
  ASSUME TasksInv, TypeOK, TP!IInv, NEW m \in Messages,
         Send(m) \/ Begin(m) \/ StartCreated(m) \/ Fail(m) \/ Close(m)
  PROVE  TasksInv'
<1>1. {"lane", "making", "starting", "thinking", "replying", "failing", "closing"} \subseteq InFlight
      /\ "starting" \in InProgress
  BY DEF InFlight, Incoming, InProgress, Ending
<1>2. CASE Send(m)
  BY <1>2, CreateTasks DEF Send
<1>3. CASE Begin(m)
  <2>1. \/ TM!UpdateState(m, "DOING") /\ Move(m, "lane", "starting")
        \/ TM!CreateTask(m, "agent", NoTask) /\ Move(m, "lane", "making")
    BY <1>3 DEF Begin
  <2>2. CASE TM!UpdateState(m, "DOING") /\ Move(m, "lane", "starting")
    BY <1>1, <2>2, UpdateTasks
  <2>3. CASE TM!CreateTask(m, "agent", NoTask) /\ Move(m, "lane", "making")
    BY <2>3, CreateTasks
  <2>. QED
    BY <2>1, <2>2, <2>3
<1>4. CASE StartCreated(m)
  BY <1>1, <1>4, UpdateTasks DEF StartCreated
<1>5. CASE Fail(m)
  BY <1>1, <1>5, UpdateTasks DEF Fail
<1>6. CASE Close(m)
  BY <1>1, <1>6, UpdateTasks DEF Close
<1>. QED
  BY <1>2, <1>3, <1>4, <1>5, <1>6

(* A start: what was under way or waits is recovered, unless it waits too long. *)
LEMMA BootTasks == TasksInv /\ TypeOK /\ TP!IInv /\ Agents /\ Boot => TasksInv'
<1> SUFFICES ASSUME TasksInv, TypeOK, TP!IInv, Agents, Boot PROVE TasksInv'
  OBVIOUS
<1>1. at' = at /\ TM!Load
  BY DEF Boot
<1>2. /\ ~ up /\ up' /\ issued' = issued /\ recent' = recent /\ recoveredIds' \subseteq issued
      /\ DOMAIN tasks' = DOMAIN file
      /\ \A k \in DOMAIN file :
           /\ tasks'[k].id = file[k].id
           /\ tasks'[k].state = IF file[k].state = "DOING" THEN "TODO" ELSE file[k].state
           /\ tasks'[k].state = "TODO" => file[k].id \in recoveredIds' \/ file[k].id \notin recent
           /\ tasks'[k].state # "TODO" => file[k].id \notin recoveredIds'
  BY <1>1, LoadRows DEF Agents
<1>3. issued \subseteq Messages /\ \A k \in DOMAIN file : file[k].id \in Messages
  BY RowTypes
<1>4. \A m \in issued : at[m] \in {"gone", "over"}
  BY <1>2, <1>3 DEF TasksInv, Down, Sent, TypeOK, Places
<1>5. Down' /\ Sent'
  BY <1>1, <1>2 DEF TasksInv, Down, Sent
<1>6. Waiting'
  BY <1>1, <1>2, <1>4 DEF Waiting
<1>7. RowsAttended'
  BY <1>1, <1>2 DEF RowsAttended, Waits
<1>. QED
  BY <1>5, <1>6, <1>7 DEF TasksInv

(* The recovered tasks are all published again when the list is cleared. *)
LEMMA RequeueTasks == TasksInv /\ TypeOK /\ TP!IInv /\ Requeue => TasksInv'
<1> SUFFICES ASSUME TasksInv, TypeOK, TP!IInv, Requeue PROVE TasksInv'
  OBVIOUS
<1>1. PICK S : S = ToSet(RequeuedMessages)
  OBVIOUS
<1>2. /\ up /\ recoveredIds' = {} /\ UNCHANGED <<up, tasks, issued, recent>>
      /\ \A m \in Messages : at'[m] = IF m \in S THEN "inbound" ELSE at[m]
  BY <1>1 DEF Requeue, TM!GetRecovered
<1>3. /\ \A k \in DOMAIN tasks : tasks[k].id \in Messages
      /\ issued \subseteq Messages
  BY RowTypes
<1>4. S = {tasks[k].id : k \in {i \in DOMAIN tasks : tasks[i].id \in recoveredIds}}
  BY <1>1, Republished
<1>5. \A k \in DOMAIN tasks : tasks[k].id \in S <=> tasks[k].id \in recoveredIds
  BY <1>4
<1>6. Down' /\ Sent' /\ Waiting'
  BY <1>2, <1>3 DEF TasksInv, Down, Sent, Waiting
<1>7. RowsAttended'
  <2> SUFFICES ASSUME NEW k \in DOMAIN tasks
               PROVE  /\ tasks[k].state = "TODO" => Waits(tasks[k].id)'
                      /\ tasks[k].state = "DOING" => IsWorkedOn(tasks[k].id)'
    BY <1>2 DEF RowsAttended
  <2>1. CASE tasks[k].id \in recoveredIds
    <3>1. at'[tasks[k].id] = "inbound" /\ tasks[k].state = "TODO"
      BY <1>2, <1>3, <1>5, <2>1 DEF TasksInv, Waiting
    <3>. QED
      BY <1>2, <3>1 DEF Waits, Incoming
  <2>2. CASE tasks[k].id \notin recoveredIds
    <3>1. at'[tasks[k].id] = at[tasks[k].id]
      BY <1>2, <1>3, <1>5, <2>2
    <3>. QED
      BY <1>2, <2>2, <3>1 DEF TasksInv, RowsAttended, Waits, IsWorkedOn
  <2>. QED
    BY <2>1, <2>2
<1>. QED
  BY <1>6, <1>7 DEF TasksInv

(* A stop, an hour that passes, a delivery. *)
LEMMA StopTasks ==
  TasksInv /\ TypeOK /\ TP!IInv /\ (Crash \/ HourPasses \/ Deliver \/ UNCHANGED vars) => TasksInv'
<1> SUFFICES ASSUME TasksInv, TypeOK, TP!IInv, Crash \/ HourPasses \/ Deliver \/ UNCHANGED vars
             PROVE  TasksInv'
  OBVIOUS
<1>1. issued \subseteq Messages /\ \A k \in DOMAIN tasks : tasks[k].id \in Messages
  BY RowTypes
<1>2. CASE Crash
  <2>1. /\ up' = FALSE /\ recoveredIds' = {} /\ issued' = issued
        /\ \A m \in Messages : at'[m] = IF at[m] \in InFlight THEN "gone" ELSE at[m]
    BY <1>2 DEF Crash, TM!Crash
  <2>2. "gone" \notin InFlight
    BY DEF InFlight, Incoming, InProgress, Ending
  <2>. QED
    BY <1>1, <2>1, <2>2 DEF TasksInv, Down, Sent, Waiting, RowsAttended
<1>3. CASE HourPasses
  <2>1. UNCHANGED <<up, tasks, recoveredIds, issued, at>> /\ recent' \subseteq recent
    BY <1>3 DEF HourPasses, TM!HourPasses, TM!storeVars
  <2>. QED
    BY <1>1, <2>1 DEF TasksInv, Down, Sent, Waiting, RowsAttended, Waits, IsWorkedOn
<1>4. CASE Deliver \/ UNCHANGED vars
  <2>1. UNCHANGED <<up, tasks, recoveredIds, issued, recent, at>>
    BY <1>4 DEF Deliver, vars, taskVars
  <2>. QED
    BY <1>1, <2>1 DEF TasksInv, Down, Sent, Waiting, RowsAttended, Waits, IsWorkedOn
<1>. QED
  BY <1>2, <1>3, <1>4

(* At the start there is no task. *)
LEMMA InitTasks == Init => TasksInv
  BY DEF Init, TM!Init, TasksInv, Down, Sent, Waiting, RowsAttended, InFlight, Incoming, InProgress, Ending

(* Every step leaves each task with somebody who attends to it. *)
LEMMA NextTasks == TasksInv /\ TypeOK /\ TP!IInv /\ Agents /\ [Next]_vars => TasksInv'
  BY WayTasks, AgentTasks, BootTasks, RequeueTasks, StopTasks DEF Next

(* Every task has somebody who attends to it, in every reachable state. *)
THEOREM TasksInvariance == Spec => []TasksInv
<1>1. RecordInv => TypeOK
  BY DEF RecordInv
<1>. QED
  BY <1>1, InitTasks, NextTasks, RecordInvariance, TableInvariant, AgentsInvariant, PTL DEF Spec

(***************************************************************************)
(* No task is left lying by any number of stops and starts: one that waits *)
(* has its message on its way or is about to be published again, and one   *)
(* in progress has an agent at work on it (the named exceptions apart).    *)
(***************************************************************************)
THEOREM NothingIsLeftLying == Spec => []Attended
<1>1. TasksInv => Attended
  BY StateOfRow DEF TasksInv, RowsAttended, Waits, IsWorkedOn, Attended
<1>. QED
  BY <1>1, TasksInvariance, PTL
=============================================================================
