-------------------------- MODULE TaskManagerProofs --------------------------
(***************************************************************************)
(* Proofs about TaskManager: its type invariant, the agreement of table    *)
(* and file, the order of parents and subagents, and what a restart does   *)
(* to the tasks it finds, for any set of task ids and any stop.            *)
(***************************************************************************)
EXTENDS TaskManager, SequenceTheorems, TLAPS

(***************************************************************************)
(* A table as the program can have it: each id once, every parent above    *)
(* its subagents.                                                          *)
(***************************************************************************)
UniqueIds(table) ==
  \A j, k \in DOMAIN table : table[j].id = table[k].id => j = k

ParentsAbove(table) ==
  \A k \in DOMAIN table :
    table[k].parent # NoTask => \E j \in 1 .. k-1 : table[j].id = table[k].parent

Orderly(table) == table \in Seq(Task) /\ UniqueIds(table) /\ ParentsAbove(table)

-----------------------------------------------------------------------------
(* Facts about tables *)

(* A new task under a parent of the table leaves it orderly (create_task). *)
LEMMA AppendOrderly ==
  ASSUME NEW table, Orderly(table), NEW i \in TaskIds, i \notin Known(table),
         NEW kind \in Kinds, NEW parent \in Known(table) \cup {NoTask},
         parent \in TaskIds \cup {NoTask}
  PROVE  LET longer == Append(table, NewTask(i, kind, parent))
         IN  Orderly(longer) /\ Known(longer) = Known(table) \cup {i}
<1> DEFINE t == NewTask(i, kind, parent)
           longer == Append(table, t)
           n == Len(table)
<1>1. t \in Task /\ t.id = i /\ t.parent = parent
  BY DEF NewTask, Task, States
<1>2. table \in Seq(Task) /\ n \in Nat /\ DOMAIN table = 1 .. n
  BY DEF Orderly
<1> HIDE DEF t
<1>3. /\ longer \in Seq(Task) /\ DOMAIN longer = 1 .. n+1
      /\ \A k \in 1 .. n : longer[k] = table[k]
      /\ longer[n+1] = t
  BY <1>1, <1>2
<1> HIDE DEF longer, n
<1>4. Known(longer) = Known(table) \cup {i}
  <2>1. Known(longer) \subseteq Known(table) \cup {i}
    <3> SUFFICES ASSUME NEW k \in 1 .. n+1
                 PROVE  longer[k].id \in Known(table) \cup {i}
      BY <1>3 DEF Known
    <3>1. k \in 1 .. n \/ k = n+1
      BY <1>2
    <3>. QED
      BY <3>1, <1>1, <1>2, <1>3 DEF Known
  <2>2. Known(table) \subseteq Known(longer)
    <3> SUFFICES ASSUME NEW k \in 1 .. n
                 PROVE  table[k].id \in Known(longer)
      BY <1>2 DEF Known
    <3>1. k \in 1 .. n+1 /\ longer[k] = table[k]
      BY <1>2, <1>3
    <3>. QED
      BY <3>1, <1>3 DEF Known
  <2>3. i \in Known(longer)
    <3>1. n+1 \in 1 .. n+1
      BY <1>2
    <3>. QED
      BY <3>1, <1>1, <1>3 DEF Known
  <2>. QED
    BY <2>1, <2>2, <2>3
<1>5. UniqueIds(longer)
  <2> SUFFICES ASSUME NEW j \in 1 .. n+1, NEW k \in 1 .. n+1, longer[j].id = longer[k].id
               PROVE  j = k
    BY <1>3 DEF UniqueIds
  <2>1. \A h \in 1 .. n : longer[h].id # i
    BY <1>2, <1>3 DEF Known
  <2>2. CASE j \in 1 .. n /\ k \in 1 .. n
    BY <2>2, <1>2, <1>3 DEF Orderly, UniqueIds
  <2>3. CASE j = n+1
    BY <2>3, <2>1, <1>1, <1>2, <1>3
  <2>4. CASE k = n+1
    BY <2>4, <2>1, <1>1, <1>2, <1>3
  <2>. QED
    BY <2>2, <2>3, <2>4, <1>2
<1>6. ParentsAbove(longer)
  <2> SUFFICES ASSUME NEW k \in 1 .. n+1, longer[k].parent # NoTask
               PROVE  \E j \in 1 .. k-1 : longer[j].id = longer[k].parent
    BY <1>3 DEF ParentsAbove
  <2>1. CASE k \in 1 .. n
    <3>1. PICK j \in 1 .. k-1 : table[j].id = table[k].parent
      BY <2>1, <1>2, <1>3 DEF Orderly, ParentsAbove
    <3>2. j \in 1 .. n
      BY <2>1, <3>1, <1>2
    <3>. QED
      BY <3>1, <3>2, <2>1, <1>3
  <2>2. CASE k = n+1
    <3>1. PICK j \in 1 .. n : table[j].id = parent
      BY <2>2, <1>1, <1>2, <1>3 DEF Known
    <3>2. longer[j].id = longer[k].parent /\ j \in 1 .. k-1
      BY <3>1, <2>2, <1>1, <1>2, <1>3
    <3>. QED
      BY <3>2
  <2>. QED
    BY <2>1, <2>2, <1>2
<1>. QED
  BY <1>3, <1>4, <1>5, <1>6 DEF Orderly, longer, t

(* Changing only states leaves a table orderly (update_state, _load). *)
LEMMA SameShapeOrderly ==
  ASSUME NEW table, Orderly(table), NEW other \in [DOMAIN table -> Task],
         \A k \in DOMAIN table : /\ other[k].id = table[k].id
                                 /\ other[k].parent = table[k].parent
  PROVE  Orderly(other) /\ Known(other) = Known(table)
<1>1. table \in Seq(Task) /\ DOMAIN table = 1 .. Len(table) /\ Len(table) \in Nat
  BY DEF Orderly
<1>2. other \in Seq(Task) /\ DOMAIN other = DOMAIN table
  BY <1>1, IsASeq
<1>3. Known(other) = Known(table)
  BY <1>2 DEF Known
<1>4. UniqueIds(other)
  BY <1>2 DEF Orderly, UniqueIds
<1>5. ParentsAbove(other)
  <2> SUFFICES ASSUME NEW k \in DOMAIN table, other[k].parent # NoTask
               PROVE  \E j \in 1 .. k-1 : other[j].id = other[k].parent
    BY <1>2 DEF ParentsAbove
  <2>1. PICK j \in 1 .. k-1 : table[j].id = table[k].parent
    BY DEF Orderly, ParentsAbove
  <2>2. j \in DOMAIN table
    BY <2>1, <1>1
  <2>. QED
    BY <2>1, <2>2
<1>. QED
  BY <1>2, <1>3, <1>4, <1>5 DEF Orderly

(* What a stop leaves of a table that is being written is orderly (_persist). *)
LEMMA PrefixOrderly ==
  ASSUME NEW table, Orderly(table), NEW n \in 0 .. Len(table)
  PROVE  Orderly(SubSeq(table, 1, n)) /\ Known(SubSeq(table, 1, n)) \subseteq Known(table)
<1> DEFINE prefix == SubSeq(table, 1, n)
<1>1. table \in Seq(Task) /\ DOMAIN table = 1 .. Len(table) /\ Len(table) \in Nat
  BY DEF Orderly
<1>2. /\ prefix \in Seq(Task) /\ DOMAIN prefix = 1 .. n
      /\ \A k \in 1 .. n : prefix[k] = table[k] /\ k \in DOMAIN table
  BY <1>1
<1> HIDE DEF prefix
<1>3. Known(prefix) \subseteq Known(table)
  BY <1>2 DEF Known
<1>4. UniqueIds(prefix)
  BY <1>2 DEF Orderly, UniqueIds
<1>5. ParentsAbove(prefix)
  <2> SUFFICES ASSUME NEW k \in 1 .. n, prefix[k].parent # NoTask
               PROVE  \E j \in 1 .. k-1 : prefix[j].id = prefix[k].parent
    BY <1>2 DEF ParentsAbove
  <2>1. PICK j \in 1 .. k-1 : table[j].id = table[k].parent
    BY <1>2 DEF Orderly, ParentsAbove
  <2>2. j \in 1 .. n
    BY <2>1
  <2>. QED
    BY <2>1, <2>2, <1>2
<1>. QED
  BY <1>2, <1>3, <1>4, <1>5 DEF Orderly, prefix

(* _load changes the state of a line at most, and never to DOING. *)
LEMMA RecoveredFacts ==
  ASSUME NEW t \in Task
  PROVE  /\ Recovered(t) \in Task
         /\ Recovered(t).id = t.id /\ Recovered(t).parent = t.parent
         /\ Recovered(t).state # "DOING"
         /\ t.state # "DOING" => Recovered(t) = t
  BY DEF Recovered, Task, States

-----------------------------------------------------------------------------
(* The inductive invariant *)

(***************************************************************************)
(* TypeOK alone does not say that a new id is not in the table, that a     *)
(* table has an id once, or that its parents come first: Orderly does.     *)
(***************************************************************************)
IInv ==
  /\ TypeOK
  /\ Orderly(tasks) /\ Orderly(file)
  /\ FileIsCurrent
  /\ DoingIsBegun

(* The table _load builds is as orderly as the file. *)
LEMMA LoadedOrderly ==
  ASSUME Orderly(file)
  PROVE  /\ Orderly(LoadedTable) /\ Known(LoadedTable) = Known(file)
         /\ LoadedTable \in [DOMAIN file -> Task]
         /\ \A k \in DOMAIN file : LoadedTable[k] = Recovered(file[k])
<1>1. \A k \in DOMAIN file : file[k] \in Task
  BY DEF Orderly
<1>2. /\ LoadedTable \in [DOMAIN file -> Task]
      /\ \A k \in DOMAIN file : LoadedTable[k] = Recovered(file[k])
  BY <1>1, RecoveredFacts DEF LoadedTable
<1>3. \A k \in DOMAIN file : /\ LoadedTable[k].id = file[k].id
                             /\ LoadedTable[k].parent = file[k].parent
  BY <1>1, <1>2, RecoveredFacts
<1>. QED
  BY <1>2, <1>3, SameShapeOrderly

(* After _load the file is the table, rewritten or not. *)
LEMMA LoadedIsFile ==
  ASSUME Orderly(file)
  PROVE  FileAfterLoad = LoadedTable
<1>1. CASE \E k \in DOMAIN file : Touched(file[k])
  BY <1>1 DEF FileAfterLoad
<1>2. CASE ~ \E k \in DOMAIN file : Touched(file[k])
  <2>1. FileAfterLoad = file
    BY <1>2 DEF FileAfterLoad
  <2>2. \A k \in DOMAIN file : file[k] \in Task /\ file[k].state # "DOING"
    BY <1>2 DEF Touched, Orderly
  <2>3. \A k \in DOMAIN file : LoadedTable[k] = file[k]
    BY <2>2, LoadedOrderly, RecoveredFacts
  <2>4. file = [k \in DOMAIN file |-> file[k]] /\ DOMAIN LoadedTable = DOMAIN file
    BY LoadedOrderly DEF Orderly
  <2>5. LoadedTable = [k \in DOMAIN LoadedTable |-> LoadedTable[k]]
    BY DEF LoadedTable
  <2>. QED
    BY <2>1, <2>3, <2>4, <2>5
<1>. QED
  BY <1>1, <1>2

(* The table after update_state. *)
LEMMA UpdatedOrderly ==
  ASSUME Orderly(tasks), NEW i \in TaskIds, NEW s \in States
  PROVE  /\ Orderly(WithState(i, s)) /\ Known(WithState(i, s)) = Known(tasks)
         /\ DOMAIN WithState(i, s) = DOMAIN tasks
         /\ \A k \in DOMAIN tasks :
              WithState(i, s)[k] = IF tasks[k].id = i THEN [tasks[k] EXCEPT !.state = s] ELSE tasks[k]
<1>1. \A k \in DOMAIN tasks : tasks[k] \in Task
  BY DEF Orderly
<1>2. /\ WithState(i, s) \in [DOMAIN tasks -> Task]
      /\ \A k \in DOMAIN tasks : /\ WithState(i, s)[k].id = tasks[k].id
                                 /\ WithState(i, s)[k].parent = tasks[k].parent
  BY <1>1 DEF WithState, Task
<1>3. Orderly(WithState(i, s)) /\ Known(WithState(i, s)) = Known(tasks)
  BY <1>2, SameShapeOrderly
<1>. QED
  BY <1>2, <1>3 DEF WithState

(* A stop in the middle of _persist: the prefix of the table is all there is. *)
LEMMA TornIInv ==
  ASSUME NEW STATE table, Orderly(table), NEW newIds \in SUBSET TaskIds,
         IInv, Known(table) \subseteq issued \cup newIds, CrashPersisting(table, newIds)
  PROVE  IInv'
<1>1. PICK n \in 0 .. Len(table) : file' = SubSeq(table, 1, n)
  BY DEF CrashPersisting
<1>2. Orderly(file)' /\ Known(file)' \subseteq issued'
  <2>1. Orderly(file') /\ Known(file') \subseteq Known(table)
    BY <1>1, PrefixOrderly
  <2>. QED
    BY <2>1, Zenon DEF CrashPersisting, Orderly, UniqueIds, ParentsAbove, Known
<1>3. /\ up' = FALSE /\ tasks' = <<>> /\ recoveredIds' = {} /\ begun' = {}
      /\ issued' = issued \cup newIds /\ recent' = recent \cup newIds
  BY DEF CrashPersisting
<1>4. Orderly(tasks)' /\ Known(tasks)' = {}
  BY <1>3 DEF Orderly, UniqueIds, ParentsAbove, Known
<1>5. TypeOK'
  <2>1. up' \in BOOLEAN /\ tasks' \in Seq(Task) /\ file' \in Seq(Task)
    BY <1>2, <1>3, <1>4 DEF Orderly
  <2>2. issued' \subseteq TaskIds /\ recent' \subseteq issued'
    BY <1>3 DEF IInv, TypeOK
  <2>3. recoveredIds' \subseteq issued' /\ begun' \subseteq issued'
    BY <1>3
  <2>4. Known(tasks)' \subseteq issued' /\ Known(file)' \subseteq issued'
    BY <1>2, <1>4
  <2>. QED
    BY <2>1, <2>2, <2>3, <2>4 DEF TypeOK
<1>. QED
  BY <1>2, <1>3, <1>4, <1>5 DEF IInv, FileIsCurrent, DoingIsBegun

-----------------------------------------------------------------------------
(* Every step keeps the invariant *)

(* _load, when it is not cut short. *)
LEMMA LoadStep == IInv /\ Load => IInv'
<1> SUFFICES ASSUME IInv, Load PROVE IInv'
  OBVIOUS
<1>1. /\ Orderly(LoadedTable) /\ Known(LoadedTable) = Known(file)
      /\ LoadedTable \in [DOMAIN file -> Task]
      /\ \A k \in DOMAIN file : LoadedTable[k] = Recovered(file[k])
  BY LoadedOrderly DEF IInv
<1>2. tasks' = LoadedTable /\ file' = LoadedTable
  BY LoadedIsFile DEF IInv, Load
<1>3. Orderly(tasks)' /\ Orderly(file)' /\ Known(tasks)' = Known(file) /\ Known(file)' = Known(file)
  <2>1. Orderly(tasks') /\ Orderly(file') /\ Known(tasks') = Known(file) /\ Known(file') = Known(file)
    BY <1>1, <1>2
  <2>. QED
    BY <2>1, Zenon DEF Orderly, UniqueIds, ParentsAbove, Known
<1>4. TypeOK'
  <2>1. up' \in BOOLEAN /\ tasks' \in Seq(Task) /\ file' \in Seq(Task)
    BY <1>3 DEF Orderly, Load
  <2>2. recoveredIds' \subseteq Known(file)
    BY DEF Load, Known
  <2>3. issued' = issued /\ recent' = recent /\ begun' = {}
    BY DEF Load
  <2>. QED
    BY <1>3, <2>1, <2>2, <2>3 DEF TypeOK, IInv
<1>5. DoingIsBegun'
  <2>1. \A k \in DOMAIN file : file[k] \in Task
    BY DEF IInv, Orderly
  <2>2. DOMAIN tasks' = DOMAIN file /\ \A k \in DOMAIN file : tasks'[k] = Recovered(file[k])
    BY <1>1, <1>2
  <2>. QED
    BY <2>1, <2>2, RecoveredFacts DEF DoingIsBegun
<1>. QED
  BY <1>2, <1>3, <1>4, <1>5 DEF IInv, FileIsCurrent

(* create_task, and what it would have written. *)
LEMMA NewTaskOrderly ==
  ASSUME IInv, NEW i \in TaskIds, i \notin issued, NEW kind \in Kinds, NEW parent \in Parents(kind)
  PROVE  /\ Orderly(WithTask(i, kind, parent))
         /\ Known(WithTask(i, kind, parent)) = Known(tasks) \cup {i}
         /\ DOMAIN WithTask(i, kind, parent) = 1 .. Len(tasks) + 1
         /\ \A k \in DOMAIN tasks : WithTask(i, kind, parent)[k] = tasks[k]
         /\ WithTask(i, kind, parent)[Len(tasks) + 1].state = "TODO"
<1>1. parent \in Known(tasks) \cup {NoTask} /\ parent \in TaskIds \cup {NoTask}
  BY DEF Parents, IInv, TypeOK
<1>2. i \notin Known(tasks)
  BY DEF IInv, TypeOK
<1>3. Orderly(Append(tasks, NewTask(i, kind, parent)))
      /\ Known(Append(tasks, NewTask(i, kind, parent))) = Known(tasks) \cup {i}
  BY <1>1, <1>2, AppendOrderly DEF IInv
<1>4. tasks \in Seq(Task) /\ NewTask(i, kind, parent) \in Task
  BY <1>1 DEF IInv, TypeOK, NewTask, Task, States
<1>5. NewTask(i, kind, parent).state = "TODO"
  BY DEF NewTask
<1> DEFINE t == NewTask(i, kind, parent)
<1> HIDE DEF t
<1>6. /\ DOMAIN Append(tasks, t) = 1 .. Len(tasks) + 1
      /\ \A k \in DOMAIN tasks : Append(tasks, t)[k] = tasks[k]
      /\ Append(tasks, t)[Len(tasks) + 1] = t
  BY <1>4 DEF t
<1>. QED
  BY <1>3, <1>5, <1>6 DEF WithTask, t

(* create_task, seen by the invariant. *)
LEMMA CreateStep ==
  ASSUME IInv, NEW i \in TaskIds, NEW kind \in Kinds, NEW parent \in Parents(kind),
         CreateTask(i, kind, parent)
  PROVE  IInv'
<1>1. i \notin issued /\ up /\ up' = up
  BY DEF CreateTask
<1>2. /\ tasks' = WithTask(i, kind, parent) /\ file' = tasks'
      /\ issued' = issued \cup {i} /\ recent' = recent \cup {i}
      /\ recoveredIds' = recoveredIds /\ begun' = begun
  BY DEF CreateTask
<1> DEFINE longer == WithTask(i, kind, parent)
<1>3. /\ Orderly(longer) /\ Known(longer) = Known(tasks) \cup {i}
      /\ DOMAIN longer = 1 .. Len(tasks) + 1
      /\ \A k \in DOMAIN tasks : longer[k] = tasks[k]
      /\ longer[Len(tasks) + 1].state = "TODO"
  BY <1>1, NewTaskOrderly
<1> HIDE DEF longer
<1>4. tasks' = longer /\ file' = longer
  BY <1>2 DEF longer
<1>5. Orderly(tasks)' /\ Orderly(file)' /\ Known(tasks)' = Known(longer) /\ Known(file)' = Known(longer)
  <2>1. Orderly(tasks') /\ Orderly(file') /\ Known(tasks') = Known(longer) /\ Known(file') = Known(longer)
    BY <1>3, <1>4
  <2>. QED
    BY <2>1, Zenon DEF Orderly, UniqueIds, ParentsAbove, Known
<1>6. TypeOK'
  <2>1. up' \in BOOLEAN /\ tasks' \in Seq(Task) /\ file' \in Seq(Task)
    BY <1>1, <1>5 DEF Orderly, IInv, TypeOK
  <2>2. /\ issued' \subseteq TaskIds /\ recoveredIds' \subseteq issued'
        /\ recent' \subseteq issued' /\ begun' \subseteq issued'
    BY <1>2 DEF IInv, TypeOK
  <2>3. Known(tasks)' \subseteq issued' /\ Known(file)' \subseteq issued'
    BY <1>2, <1>3, <1>5 DEF IInv, TypeOK
  <2>. QED
    BY <2>1, <2>2, <2>3 DEF TypeOK
<1>7. DoingIsBegun'
  <2> SUFFICES ASSUME NEW k \in DOMAIN longer, longer[k].state = "DOING"
               PROVE  longer[k].id \in begun
    BY <1>2, <1>4 DEF DoingIsBegun
  <2>1. tasks \in Seq(Task) /\ DOMAIN tasks = 1 .. Len(tasks) /\ Len(tasks) \in Nat
    BY DEF IInv, TypeOK
  <2>2. k \in DOMAIN tasks
    BY <1>3, <2>1
  <2>. QED
    BY <1>1, <1>3, <2>2 DEF IInv, DoingIsBegun
<1>. QED
  BY <1>2, <1>5, <1>6, <1>7 DEF IInv, FileIsCurrent

(* update_state. *)
LEMMA UpdateStep ==
  ASSUME IInv, NEW i \in TaskIds, NEW s \in States, UpdateState(i, s)
  PROVE  IInv'
<1> DEFINE new == WithState(i, s)
<1>1. /\ Orderly(new) /\ Known(new) = Known(tasks) /\ DOMAIN new = DOMAIN tasks
      /\ \A k \in DOMAIN tasks :
           new[k] = IF tasks[k].id = i THEN [tasks[k] EXCEPT !.state = s] ELSE tasks[k]
  BY UpdatedOrderly DEF IInv
<1> HIDE DEF new
<1>2. /\ tasks' = new /\ file' = new /\ up /\ up' = up /\ i \in Known(tasks)
      /\ issued' = issued /\ recent' = recent /\ recoveredIds' = recoveredIds
      /\ begun' = IF s = "DOING" THEN begun \cup {i} ELSE begun
  BY DEF UpdateState, new
<1>3. Orderly(tasks)' /\ Orderly(file)' /\ Known(tasks)' = Known(tasks) /\ Known(file)' = Known(tasks)
  <2>1. Orderly(tasks') /\ Orderly(file') /\ Known(tasks') = Known(tasks) /\ Known(file') = Known(tasks)
    BY <1>1, <1>2
  <2>. QED
    BY <2>1, Zenon DEF Orderly, UniqueIds, ParentsAbove, Known
<1>4. TypeOK'
  <2>1. up' \in BOOLEAN /\ tasks' \in Seq(Task) /\ file' \in Seq(Task)
    BY <1>2, <1>3 DEF Orderly, IInv, TypeOK
  <2>2. /\ issued' \subseteq TaskIds /\ recoveredIds' \subseteq issued'
        /\ recent' \subseteq issued' /\ begun' \subseteq issued'
    BY <1>2 DEF IInv, TypeOK
  <2>. QED
    BY <1>2, <1>3, <2>1, <2>2 DEF TypeOK, IInv
<1>5. DoingIsBegun'
  <2> SUFFICES ASSUME NEW k \in DOMAIN tasks, new[k].state = "DOING"
               PROVE  new[k].id \in begun'
    BY <1>1, <1>2 DEF DoingIsBegun
  <2>1. tasks[k] \in Task
    BY DEF IInv, TypeOK
  <2>2. CASE tasks[k].id = i
    <3>1. new[k].id = i /\ new[k].state = s
      BY <2>1, <2>2, <1>1 DEF Task
    <3>. QED
      BY <3>1, <1>2
  <2>3. CASE tasks[k].id # i
    <3>1. new[k] = tasks[k]
      BY <2>3, <1>1
    <3>. QED
      BY <3>1, <1>2 DEF IInv, DoingIsBegun
  <2>. QED
    BY <2>2, <2>3
<1>. QED
  BY <1>2, <1>3, <1>4, <1>5 DEF IInv, FileIsCurrent

(* A stop in the middle of a rewrite, in each of the three operations that rewrite. *)
LEMMA TornStep ==
  ASSUME IInv,
         \/ CrashLoading
         \/ \E i \in TaskIds, kind \in Kinds : \E parent \in Parents(kind) :
               CrashCreating(i, kind, parent)
         \/ \E i \in TaskIds, s \in States : CrashUpdating(i, s)
  PROVE  IInv'
<1>1. CASE CrashLoading
  <2>1. Orderly(LoadedTable) /\ Known(LoadedTable) \subseteq issued \cup {}
    BY LoadedOrderly DEF IInv, TypeOK
  <2>2. CrashPersisting(LoadedTable, {})
    BY <1>1 DEF CrashLoading
  <2>. QED
    BY <2>1, <2>2, TornIInv
<1>2. ASSUME NEW i \in TaskIds, NEW kind \in Kinds, NEW parent \in Parents(kind),
             CrashCreating(i, kind, parent)
      PROVE  IInv'
  <2>1. i \notin issued /\ CrashPersisting(WithTask(i, kind, parent), {i})
    BY <1>2 DEF CrashCreating
  <2>2. Orderly(WithTask(i, kind, parent))
        /\ Known(WithTask(i, kind, parent)) \subseteq issued \cup {i}
    BY <2>1, NewTaskOrderly DEF IInv, TypeOK
  <2>3. {i} \in SUBSET TaskIds
    OBVIOUS
  <2>. QED
    BY <2>1, <2>2, <2>3, TornIInv
<1>3. ASSUME NEW i \in TaskIds, NEW s \in States, CrashUpdating(i, s) PROVE IInv'
  <2>1. CrashPersisting(WithState(i, s), {})
    BY <1>3 DEF CrashUpdating
  <2>2. Orderly(WithState(i, s)) /\ Known(WithState(i, s)) \subseteq issued \cup {}
    BY UpdatedOrderly DEF IInv, TypeOK
  <2>. QED
    BY <2>1, <2>2, TornIInv
<1>. QED
  BY <1>1, <1>2, <1>3

(* The steps that leave table and file alone, or clear the table. *)
LEMMA QuietStep ==
  ASSUME IInv,
         GetRecovered \/ Crash \/ (\E S \in SUBSET recent : HourPasses(S)) \/ UNCHANGED vars
  PROVE  IInv'
<1>1. CASE GetRecovered
  BY <1>1 DEF IInv, TypeOK, GetRecovered, Orderly, UniqueIds, ParentsAbove, Known,
              FileIsCurrent, DoingIsBegun
<1>2. CASE Crash
  <2>1. /\ up' = FALSE /\ tasks' = <<>> /\ recoveredIds' = {} /\ begun' = {}
        /\ file' = file /\ issued' = issued /\ recent' = recent
    BY <1>2 DEF Crash
  <2>2. Orderly(tasks)' /\ Known(tasks)' = {}
    BY <2>1 DEF Orderly, UniqueIds, ParentsAbove, Known
  <2>3. Orderly(file)' /\ Known(file)' = Known(file)
    BY <2>1 DEF IInv, Orderly, UniqueIds, ParentsAbove, Known
  <2>4. TypeOK'
    <3>1. up' \in BOOLEAN /\ tasks' \in Seq(Task) /\ file' \in Seq(Task)
      BY <2>1, <2>2, <2>3 DEF Orderly
    <3>2. /\ issued' \subseteq TaskIds /\ recoveredIds' \subseteq issued'
          /\ recent' \subseteq issued' /\ begun' \subseteq issued'
      BY <2>1 DEF IInv, TypeOK
    <3>3. Known(tasks)' \subseteq issued' /\ Known(file)' \subseteq issued'
      BY <2>1, <2>2, <2>3 DEF IInv, TypeOK
    <3>. QED
      BY <3>1, <3>2, <3>3 DEF TypeOK
  <2>. QED
    BY <2>1, <2>2, <2>3, <2>4 DEF IInv, FileIsCurrent, DoingIsBegun
<1>3. CASE \E S \in SUBSET recent : HourPasses(S)
  BY <1>3 DEF IInv, TypeOK, HourPasses, storeVars, Orderly, UniqueIds, ParentsAbove, Known,
              FileIsCurrent, DoingIsBegun
<1>4. CASE UNCHANGED vars
  BY <1>4 DEF IInv, TypeOK, vars, storeVars, Orderly, UniqueIds, ParentsAbove, Known,
              FileIsCurrent, DoingIsBegun
<1>. QED
  BY <1>1, <1>2, <1>3, <1>4

(* A server that never ran has no tasks and no file. *)
LEMMA InitIInv == Init => IInv
<1> SUFFICES ASSUME Init PROVE IInv
  OBVIOUS
<1>1. up = FALSE /\ tasks = <<>> /\ file = <<>>
  BY DEF Init
<1>2. Orderly(<<>>) /\ Known(<<>>) = {}
  BY DEF Orderly, UniqueIds, ParentsAbove, Known
<1>3. TypeOK
  BY <1>1, <1>2 DEF Init, TypeOK, Orderly
<1>. QED
  BY <1>1, <1>2, <1>3 DEF IInv, FileIsCurrent, DoingIsBegun

(* Every operation, and every stop within one, keeps the invariant. *)
LEMMA StepIInv == IInv /\ [Next]_vars => IInv'
  BY LoadStep, CreateStep, UpdateStep, TornStep, QuietStep DEF Next

(* The invariant holds in every reachable state. *)
THEOREM Invariance == Spec => []IInv
  BY InitIInv, StepIInv, PTL DEF Spec

-----------------------------------------------------------------------------
(* The properties of the runs *)

(* Type correctness, for every set of task ids. *)
THEOREM TypeCorrectness == Spec => []TypeOK
<1>1. IInv => TypeOK
  BY DEF IInv
<1>. QED
  BY <1>1, Invariance, PTL

(* Every change _persist is called for has reached the file: src/openbotx/tasks/manager.py lines 88-92. *)
THEOREM FileFollowsTable == Spec => []FileIsCurrent
<1>1. IInv => FileIsCurrent
  BY DEF IInv
<1>. QED
  BY <1>1, Invariance, PTL

(* No stop, not even in the middle of a rewrite, leaves a subagent's task without its parent's. *)
THEOREM ParentsComeFirst == Spec => []ParentFirst
<1>1. IInv => ParentFirst
  BY DEF IInv, Orderly, ParentsAbove, ParentFirst
<1>. QED
  BY <1>1, Invariance, PTL

(* _load leaves no task in DOING: src/openbotx/tasks/manager.py lines 64-72. *)
THEOREM NoGhosts == Spec => []DoingIsBegun
<1>1. IInv => DoingIsBegun
  BY DEF IInv
<1>. QED
  BY <1>1, Invariance, PTL

(* _load keeps ended tasks as they are and queues none of them. *)
THEOREM EndedIsLeftAlone == Spec => EndedStaysEnded
<1>1. IInv /\ [Next]_vars => (Load => LeavesEnded)
  <2> SUFFICES ASSUME IInv, Load, NEW k \in DOMAIN file, file[k].state \in {"DONE", "ERROR"}
               PROVE  tasks'[k] = file[k] /\ file[k].id \notin recoveredIds'
    BY DEF LeavesEnded
  <2>1. file[k] \in Task /\ file[k].state # "DOING" /\ ~ Requeued(file[k])
    BY DEF IInv, Orderly, Requeued
  <2>2. tasks'[k] = Recovered(file[k])
    BY LoadedOrderly DEF IInv, Load
  <2>3. \A j \in DOMAIN file : Requeued(file[j]) => file[j].id # file[k].id
    BY <2>1 DEF IInv, Orderly, UniqueIds
  <2>. QED
    BY <2>1, <2>2, <2>3, RecoveredFacts DEF Load
<1>. QED
  BY <1>1, Invariance, PTL DEF Spec, EndedStaysEnded
=============================================================================
