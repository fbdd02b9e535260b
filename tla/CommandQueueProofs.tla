-------------------------- MODULE CommandQueueProofs --------------------------
(***************************************************************************)
(* Proofs about CommandQueue: its type invariant, the slot accounting of   *)
(* the lanes, the permits of the semaphore, that no lane is stranded, the  *)
(* way of a command, and that the queue implements LaneScheduler.          *)
(***************************************************************************)
EXTENDS CommandQueue, FiniteSetTheorems, SequenceTheorems, WellFoundedInduction, TLAPS

-----------------------------------------------------------------------------
(* Facts about the operators of the module *)

(* A non-empty set of naturals contains its minimum. *)
LEMMA LeastElement ==
  ASSUME NEW S \in SUBSET Nat, S # {}
  PROVE  Min(S) \in S
<1> DEFINE Less == {p \in Nat \X Nat : p[1] < p[2]}
<1>1. IsWellFoundedOn(Less, Nat)
  BY NatLessThanWellFounded, Zenon DEF OpToRel
<1>2. PICK n \in S : \A m \in S : <<m, n>> \notin Less
  BY <1>1, WFMin
<1>3. \A m \in S : n <= m
  <2> SUFFICES ASSUME NEW m \in S, ~ (n <= m)
               PROVE  FALSE
    OBVIOUS
  <2>1. m < n /\ m \in Nat /\ n \in Nat
    OBVIOUS
  <2>2. <<m, n>> \in Less
    BY <2>1
  <2>. QED
    BY <2>2, <1>2
<1>. QED
  BY <1>3 DEF Min

(* Removing an element from a sequence leaves a sequence over the same set. *)
LEMMA RemoveFirstType ==
  ASSUME NEW S, NEW s \in Seq(S), NEW e
  PROVE  RemoveFirst(s, e) \in Seq(S)
<1> DEFINE I == {i \in 1 .. Len(s) : s[i] = e}
<1>1. CASE ~ \E i \in 1 .. Len(s) : s[i] = e
  BY <1>1 DEF RemoveFirst
<1>2. CASE \E i \in 1 .. Len(s) : s[i] = e
  <2>1. I # {} /\ I \in SUBSET Nat
    BY <1>2
  <2>2. Min(I) \in 1 .. Len(s)
    BY <2>1, LeastElement
  <2>3. ASSUME NEW k \in 1 .. Len(s) PROVE RemoveAt(s, k) \in Seq(S)
    <3>1. \A i \in 1 .. k-1 : s[i] \in S
      BY <2>3
    <3>2. \A i \in k+1 .. Len(s) : s[i] \in S
      BY <2>3
    <3>3. SubSeq(s, 1, k-1) \in Seq(S)
      BY <3>1, SubSeqProperties
    <3>4. SubSeq(s, k+1, Len(s)) \in Seq(S)
      BY <3>2, SubSeqProperties
    <3>. QED
      BY <3>3, <3>4, ConcatProperties DEF RemoveAt
  <2>4. RemoveFirst(s, e) = RemoveAt(s, Min(I))
    BY <1>2, <2>1, Zenon DEF RemoveFirst, SelectInSeq
  <2>. QED
    BY <2>2, <2>3, <2>4
<1>. QED
  BY <1>1, <1>2

(* The first n of a sequence, and what comes after them. *)
LEMMA FirstPart ==
  ASSUME NEW S, NEW s \in Seq(S), NEW n \in 0 .. Len(s)
  PROVE  /\ SubSeq(s, 1, n) \in Seq(S)
         /\ Len(SubSeq(s, 1, n)) = n
         /\ DOMAIN SubSeq(s, 1, n) = 1 .. n
         /\ \A i \in 1 .. n : SubSeq(s, 1, n)[i] = s[i]
<1>1. Len(s) \in Nat /\ \A i \in 1 .. Len(s) : s[i] \in S
  OBVIOUS
<1>2. \A i \in 1 .. n : s[i] \in S
  BY <1>1
<1>3. /\ SubSeq(s, 1, n) \in Seq(S) /\ Len(SubSeq(s, 1, n)) = n
      /\ \A i \in 1 .. n : SubSeq(s, 1, n)[i] = s[i]
  BY <1>1, <1>2, SubSeqProperties
<1>4. DOMAIN SubSeq(s, 1, n) = 1 .. n
  BY <1>3, LenProperties
<1>. QED
  BY <1>3, <1>4

(* What is left of a sequence without its first n. *)
LEMMA LastPart ==
  ASSUME NEW S, NEW s \in Seq(S), NEW n \in 0 .. Len(s)
  PROVE  /\ SubSeq(s, n + 1, Len(s)) \in Seq(S)
         /\ Len(SubSeq(s, n + 1, Len(s))) = Len(s) - n
         /\ DOMAIN SubSeq(s, n + 1, Len(s)) = 1 .. Len(s) - n
         /\ \A i \in 1 .. Len(s) - n : SubSeq(s, n + 1, Len(s))[i] = s[n + i]
<1> DEFINE t == SubSeq(s, n + 1, Len(s))
<1>1. Len(s) \in Nat /\ n \in Nat /\ n + 1 \in Int /\ \A i \in 1 .. Len(s) : s[i] \in S
  OBVIOUS
<1>2. \A i \in n + 1 .. Len(s) : s[i] \in S
  BY <1>1
<1>3. /\ t \in Seq(S)
      /\ Len(t) = IF n + 1 <= Len(s) THEN Len(s) - (n + 1) + 1 ELSE 0
      /\ \A i \in 1 .. Len(s) - (n + 1) + 1 : t[i] = s[n + 1 + i - 1]
  BY <1>1, <1>2, SubSeqProperties
<1> HIDE DEF t
<1>4. Len(t) = Len(s) - n
  BY <1>1, <1>3
<1>5. ASSUME NEW i \in 1 .. Len(s) - n PROVE t[i] = s[n + i]
  <2>1. i \in 1 .. Len(s) - (n + 1) + 1 /\ n + 1 + i - 1 = n + i
    BY <1>1
  <2>. QED
    BY <1>3, <2>1
<1>6. DOMAIN t = 1 .. Len(s) - n
  BY <1>3, <1>4, LenProperties
<1>. QED
  BY <1>3, <1>4, <1>5, <1>6 DEF t

(* Cutting a sequence without repetitions in two: its elements are split. *)
LEMMA SplitQueue ==
  ASSUME NEW q \in Seq(Commands), IsInjective(q), NEW n \in 0 .. Len(q)
  PROVE  /\ SubSeq(q, 1, n) \in Seq(Commands)
         /\ SubSeq(q, n + 1, Len(q)) \in Seq(Commands)
         /\ Len(SubSeq(q, n + 1, Len(q))) = Len(q) - n
         /\ ToSet(SubSeq(q, 1, n)) \subseteq ToSet(q)
         /\ ToSet(SubSeq(q, n + 1, Len(q))) = ToSet(q) \ ToSet(SubSeq(q, 1, n))
         /\ IsInjective(SubSeq(q, n + 1, Len(q)))
         /\ IsFiniteSet(ToSet(SubSeq(q, 1, n)))
         /\ Cardinality(ToSet(SubSeq(q, 1, n))) = n
<1> DEFINE first == SubSeq(q, 1, n)
           rest  == SubSeq(q, n + 1, Len(q))
<1>1. /\ first \in Seq(Commands) /\ Len(first) = n
      /\ \A i \in 1 .. n : first[i] = q[i]
  BY FirstPart
<1>2. /\ rest \in Seq(Commands) /\ Len(rest) = Len(q) - n
      /\ \A i \in 1 .. Len(q) - n : rest[i] = q[n + i]
  BY LastPart
<1> HIDE DEF first, rest
<1>3. DOMAIN q = 1 .. Len(q) /\ DOMAIN first = 1 .. n /\ DOMAIN rest = 1 .. Len(q) - n
  BY <1>1, <1>2, LenProperties
<1>4. \A i, j \in 1 .. Len(q) : q[i] = q[j] => i = j
  BY <1>3 DEF IsInjective
<1>5. ToSet(first) \subseteq ToSet(q)
  BY <1>1, <1>3 DEF ToSet
<1>6. ToSet(rest) = ToSet(q) \ ToSet(first)
  <2>1. ASSUME NEW x \in ToSet(rest) PROVE x \in ToSet(q) /\ x \notin ToSet(first)
    <3>1. PICK i \in 1 .. Len(q) - n : x = rest[i]
      BY <1>3 DEF ToSet
    <3>2. n + i \in 1 .. Len(q) /\ x = q[n + i]
      BY <3>1, <1>2
    <3>3. ASSUME NEW j \in 1 .. n, first[j] = x PROVE FALSE
      BY <3>2, <3>3, <1>1, <1>4
    <3>. QED
      BY <3>2, <3>3, <1>3 DEF ToSet
  <2>2. ASSUME NEW x \in ToSet(q), x \notin ToSet(first) PROVE x \in ToSet(rest)
    <3>1. PICK i \in 1 .. Len(q) : x = q[i]
      BY <1>3 DEF ToSet
    <3>2. i > n
      BY <3>1, <2>2, <1>1, <1>3 DEF ToSet
    <3>3. i - n \in 1 .. Len(q) - n /\ rest[i - n] = x
      BY <3>1, <3>2, <1>2
    <3>. QED
      BY <3>3, <1>3 DEF ToSet
  <2>. QED
    BY <2>1, <2>2
<1>7. IsInjective(rest)
  BY <1>2, <1>3, <1>4 DEF IsInjective
<1>8. first \in Surjection(1 .. n, ToSet(first)) /\ first \in Injection(1 .. n, ToSet(first))
  <2>1. first \in [1 .. n -> ToSet(first)]
    BY <1>1, <1>3 DEF ToSet
  <2>2. IsInjective(first)
    BY <1>1, <1>3, <1>4 DEF IsInjective
  <2>3. \A t \in ToSet(first) : \E i \in 1 .. n : first[i] = t
    BY <1>3 DEF ToSet
  <2>. QED
    BY <2>1, <2>2, <2>3 DEF Surjection, Injection
<1>9. IsFiniteSet(1 .. n) /\ Cardinality(1 .. n) = n
  BY FS_Interval
<1>10. IsFiniteSet(ToSet(first)) /\ Cardinality(ToSet(first)) = n
  BY <1>8, <1>9, FS_Surjection
<1>. QED
  BY <1>1, <1>2, <1>5, <1>6, <1>7, <1>10 DEF first, rest

(* The loop of _pump never pops more than there is, and stops short only at the limit. *)
LEMMA StartCountBounds ==
  ASSUME NEW q \in Seq(Commands), NEW a \in Nat, NEW m \in Nat \ {0}
  PROVE  /\ StartCount(q, a, m) \in 0 .. Len(q)
         /\ StartCount(q, a, m) < Len(q) => a + StartCount(q, a, m) >= m
<1>1. Len(q) \in Nat
  OBVIOUS
<1>. QED
  BY <1>1 DEF StartCount

-----------------------------------------------------------------------------
(* The inductive invariant *)

(* A lane's deque holds the lane's queued commands, each of them once. *)
QueueHolds ==
  \A l \in Lanes : /\ ToSet(queue[l]) = In({"queued"}) \cap OfLane(l)
                   /\ IsInjective(queue[l])

(* The commands that hold a slot of the lane: its tasks and what it lost. *)
Held(l) == In(TaskStatuses \cup {"lost"}) \cap OfLane(l)

HeldAccounting == \A l \in Lanes : active[l] = Cardinality(Held(l))

(* A lane with a queue has a slot in use: the pump stops only at the limit. *)
BusyLane == \A l \in Lanes : queue[l] # <<>> => active[l] > 0

Permits == In({"granted", "running"})

IInv ==
  /\ TypeOK
  /\ QueueHolds
  /\ HeldAccounting
  /\ BusyLane
  /\ PermitAccounting

(* What one call of _pump does to the lane it pumps and to the other lanes. *)
LEMMA PumpStep ==
  ASSUME TypeOK, NEW l \in Lanes, NEW q \in Seq(Commands), IsInjective(q),
         NEW a \in Nat, Pump(l, q, a)
  PROVE  /\ queue' \in [Lanes -> Seq(Commands)]
         /\ active' \in [Lanes -> Nat]
         /\ ready' \in Seq(Commands)
         /\ ToSet(Started(l, q, a)) \subseteq ToSet(q)
         /\ IsFiniteSet(ToSet(Started(l, q, a)))
         /\ ToSet(queue'[l]) = ToSet(q) \ ToSet(Started(l, q, a))
         /\ IsInjective(queue'[l])
         /\ active'[l] = a + Cardinality(ToSet(Started(l, q, a)))
         /\ queue'[l] # <<>> => active'[l] > 0
         /\ \A k \in Lanes \ {l} : queue'[k] = queue[k] /\ active'[k] = active[k]
<1> DEFINE n == StartCount(q, a, maxConcurrent[l])
           first == SubSeq(q, 1, n)
           rest == SubSeq(q, n + 1, Len(q))
<1>1. maxConcurrent[l] \in Nat \ {0}
  BY DEF TypeOK
<1>2. n \in 0 .. Len(q) /\ (n < Len(q) => a + n >= maxConcurrent[l])
  BY <1>1, StartCountBounds
<1>3. /\ queue' = [queue EXCEPT ![l] = rest]
      /\ active' = [active EXCEPT ![l] = a + n]
      /\ ready' = ready \o first
  BY DEF Pump
<1>4. Started(l, q, a) = first
  BY DEF Started
<1> HIDE DEF n
<1>5. /\ first \in Seq(Commands)
      /\ rest \in Seq(Commands)
      /\ Len(rest) = Len(q) - n
      /\ ToSet(first) \subseteq ToSet(q)
      /\ ToSet(rest) = ToSet(q) \ ToSet(first)
      /\ IsInjective(rest)
      /\ IsFiniteSet(ToSet(first))
      /\ Cardinality(ToSet(first)) = n
  BY <1>2, SplitQueue
<1> HIDE DEF first, rest
<1>6. ready' \in Seq(Commands)
  BY <1>3, <1>5, ConcatProperties DEF TypeOK
<1>7. queue' \in [Lanes -> Seq(Commands)] /\ queue'[l] = rest
  BY <1>3, <1>5 DEF TypeOK
<1>8. active' \in [Lanes -> Nat] /\ active'[l] = a + n
  BY <1>2, <1>3 DEF TypeOK
<1>9. rest # <<>> => Len(rest) > 0
  BY <1>5, EmptySeq
<1>10. queue'[l] # <<>> => active'[l] > 0
  BY <1>1, <1>2, <1>5, <1>7, <1>8, <1>9
<1>11. \A k \in Lanes \ {l} : queue'[k] = queue[k] /\ active'[k] = active[k]
  BY <1>3 DEF TypeOK
<1>. QED
  BY <1>4, <1>5, <1>6, <1>7, <1>8, <1>10, <1>11

(* Every set of commands is finite, and disjoint ones count up. *)
LEMMA FiniteCommands ==
  ASSUME NEW X \in SUBSET Commands
  PROVE  IsFiniteSet(X) /\ Cardinality(X) \in Nat
<1>1. IsFiniteSet(Commands)
  BY ConstantsAssumption, FS_Interval DEF Commands
<1>. QED
  BY <1>1, FS_Subset, FS_CardinalityType

(* Two sets of commands with nothing in common. *)
LEMMA CountDisjoint ==
  ASSUME NEW X \in SUBSET Commands, NEW Y \in SUBSET Commands, X \cap Y = {}
  PROVE  Cardinality(X \cup Y) = Cardinality(X) + Cardinality(Y)
<1>1. Cardinality(X \cap Y) = 0
  BY FS_EmptySet
<1>. QED
  BY <1>1, FiniteCommands, FS_Union

-----------------------------------------------------------------------------
(* One lemma per action: it keeps the inductive invariant. *)

(* It holds at the start. *)
LEMMA InitIInv == Init => IInv
<1> SUFFICES ASSUME Init PROVE IInv
  OBVIOUS
<1>1. TypeOK
  BY ConstantsAssumption DEF Init, TypeOK, Statuses, Tasks, In
<1>2. QueueHolds
  BY DEF Init, QueueHolds, ToSet, In, OfLane, IsInjective
<1>3. \A l \in Lanes : Held(l) = {}
  BY DEF Init, Held, In, TaskStatuses
<1>4. HeldAccounting
  BY <1>3, FS_EmptySet DEF Init, HeldAccounting
<1>5. BusyLane
  BY DEF Init, BusyLane
<1>6. In({"granted", "running"}) = {}
  BY DEF Init, In
<1>7. PermitAccounting
  <2>1. Cardinality(In({"granted", "running"})) = 0
    BY <1>6, FS_EmptySet
  <2>2. value = MaxTotal
    BY DEF Init
  <2>. QED
    BY <2>1, <2>2, ConstantsAssumption DEF PermitAccounting
<1>. QED
  BY <1>1, <1>2, <1>4, <1>5, <1>7 DEF IInv

(* A command is queued, and its lane pumped. *)
LEMMA EnqueueStep ==
  ASSUME IInv, NEW c \in Commands, Enqueue(c)
  PROVE  IInv'
<1> DEFINE l == lane[c]
           q == Append(queue[l], c)
           S == ToSet(Started(l, q, active[l]))
<1>1. l \in Lanes /\ queue[l] \in Seq(Commands) /\ active[l] \in Nat
  BY DEF IInv, TypeOK
<1>2. ToSet(queue[l]) = In({"queued"}) \cap OfLane(l) /\ IsInjective(queue[l])
  BY <1>1 DEF IInv, QueueHolds
<1>3. /\ q \in Seq(Commands)
      /\ Len(q) = Len(queue[l]) + 1
      /\ \A i \in 1 .. Len(queue[l]) : q[i] = queue[l][i]
      /\ q[Len(queue[l]) + 1] = c
  BY <1>1, AppendProperties
<1>4. DOMAIN q = 1 .. Len(queue[l]) + 1 /\ DOMAIN queue[l] = 1 .. Len(queue[l])
  BY <1>1, <1>3, LenProperties
<1>5. c \notin ToSet(queue[l])
  BY <1>2 DEF Enqueue, Pushed, In
<1> HIDE DEF q
<1>6. ToSet(q) = ToSet(queue[l]) \cup {c}
  BY <1>1, <1>3, <1>4 DEF ToSet
<1>7. IsInjective(q)
  <2> DEFINE m == Len(queue[l])
  <2>1. m \in Nat
    BY <1>1
  <2>2. \A i, j \in 1 .. m : queue[l][i] = queue[l][j] => i = j
    BY <1>2, <1>4 DEF IsInjective
  <2>3. \A i \in 1 .. m : queue[l][i] # c
    BY <1>4, <1>5 DEF ToSet
  <2> HIDE DEF m
  <2>4. \A i, j \in 1 .. m + 1 : q[i] = q[j] => i = j
    BY <2>1, <2>2, <2>3, <1>3 DEF m
  <2>. QED
    BY <2>4, <1>4 DEF IsInjective, m
<1>8. Pump(l, q, active[l])
  BY DEF Enqueue, Pushed, q
<1>9. TypeOK
  BY DEF IInv
<1>10. /\ queue' \in [Lanes -> Seq(Commands)]
       /\ active' \in [Lanes -> Nat]
       /\ ready' \in Seq(Commands)
       /\ S \subseteq ToSet(q)
       /\ IsFiniteSet(S)
       /\ ToSet(queue'[l]) = ToSet(q) \ S
       /\ IsInjective(queue'[l])
       /\ active'[l] = active[l] + Cardinality(S)
       /\ queue'[l] # <<>> => active'[l] > 0
       /\ \A k \in Lanes \ {l} : queue'[k] = queue[k] /\ active'[k] = active[k]
  BY <1>1, <1>3, <1>7, <1>8, <1>9, PumpStep
<1> HIDE DEF S
<1>11. status' = Mark([status EXCEPT ![c] = "queued"], S, "created")
  BY DEF Enqueue, Pushed, S, q
<1>12. \A x \in Commands :
          status'[x] = IF x \in S THEN "created" ELSE IF x = c THEN "queued" ELSE status[x]
  BY <1>9, <1>11 DEF Mark, TypeOK
<1>13. \A x \in S : x \in Commands /\ lane[x] = l /\ status[x] \in {"new", "queued"}
  BY <1>2, <1>6, <1>10 DEF In, OfLane, Enqueue, Pushed
<1>14. UNCHANGED <<lane, maxConcurrent, waiters, value, draining, snapshot, cancelling>>
  BY DEF Enqueue, semVars, drainVars
<1>15. status[c] = "new"
  BY DEF Enqueue
<1>16. TypeOK'
  <2>1. status' \in [Commands -> Statuses]
    BY <1>9, <1>11 DEF Mark, TypeOK, Statuses, TaskStatuses
  <2>2. cancelling' \subseteq Tasks'
    BY <1>9, <1>12, <1>13, <1>14, <1>15 DEF TypeOK, Tasks, In, TaskStatuses
  <2>. QED
    BY <2>1, <2>2, <1>9, <1>10, <1>14 DEF TypeOK
<1>17. QueueHolds'
  <2> SUFFICES ASSUME NEW k \in Lanes
               PROVE  /\ ToSet(queue'[k]) = {x \in Commands : status'[x] = "queued" /\ lane[x] = k}
                      /\ IsInjective(queue'[k])
    BY <1>14 DEF QueueHolds, In, OfLane
  <2>1. CASE k = l
    BY <2>1, <1>2, <1>6, <1>10, <1>12, <1>13 DEF In, OfLane
  <2>2. CASE k # l
    <3>1. ToSet(queue[k]) = In({"queued"}) \cap OfLane(k) /\ IsInjective(queue[k])
      BY DEF IInv, QueueHolds
    <3>. QED
      BY <2>2, <3>1, <1>10, <1>12, <1>13, <1>15 DEF In, OfLane
  <2>. QED
    BY <2>1, <2>2
<1>18. HeldAccounting'
  <2> SUFFICES ASSUME NEW k \in Lanes
               PROVE  active'[k] = Cardinality(Held(k)')
    BY DEF HeldAccounting
  <2>1. Held(k) \in SUBSET Commands /\ active[k] = Cardinality(Held(k))
    BY DEF IInv, HeldAccounting, Held, In
  <2>2. CASE k = l
    <3>1. Held(k)' = Held(k) \cup S
      BY <2>2, <1>12, <1>13, <1>14, <1>15 DEF Held, In, OfLane, TaskStatuses
    <3>2. Held(k) \cap S = {} /\ S \in SUBSET Commands
      BY <1>13 DEF Held, In, TaskStatuses
    <3>. QED
      BY <2>1, <2>2, <3>1, <3>2, <1>10, CountDisjoint
  <2>3. CASE k # l
    <3>1. Held(k)' = Held(k)
      BY <2>3, <1>12, <1>13, <1>14, <1>15 DEF Held, In, OfLane, TaskStatuses
    <3>. QED
      BY <2>1, <2>3, <3>1, <1>10
  <2>. QED
    BY <2>2, <2>3
<1>19. BusyLane'
  BY <1>10 DEF IInv, BusyLane
<1>20. PermitAccounting'
  <2>1. In({"granted", "running"})' = In({"granted", "running"})
    BY <1>12, <1>13, <1>15 DEF In
  <2>. QED
    BY <2>1, <1>14 DEF IInv, PermitAccounting
<1>. QED
  BY <1>16, <1>17, <1>18, <1>19, <1>20 DEF IInv

(* A lane gets another limit, and is pumped. *)
LEMMA SetLaneConcurrencyStep ==
  ASSUME IInv, NEW l \in Lanes, NEW n \in LaneLimits, SetLaneConcurrency(l, n)
  PROVE  IInv'
<1>1. LaneLimit(n) \in Nat \ {0}
  BY ConstantsAssumption DEF LaneLimit
<1>2. UNCHANGED <<lane, status, queue, active, ready, waiters, value, draining, snapshot, cancelling>>
  BY DEF SetLaneConcurrency, laneVars, semVars, drainVars
<1>3. maxConcurrent' \in [Lanes -> Nat \ {0}]
  BY <1>1 DEF SetLaneConcurrency, IInv, TypeOK
<1>4. TypeOK'
  BY <1>2, <1>3 DEF IInv, TypeOK, Tasks, In
<1>5. QueueHolds' /\ HeldAccounting' /\ BusyLane' /\ PermitAccounting'
  BY <1>2 DEF IInv, QueueHolds, HeldAccounting, Held, BusyLane, PermitAccounting, In, OfLane
<1>. QED
  BY <1>4, <1>5 DEF IInv

(* A step of drain touches neither the lanes nor the semaphore. *)
LEMMA DrainStep ==
  ASSUME IInv, NEW d \in Drainers, DrainStart(d) \/ DrainReturn(d) \/ DrainCancel(d)
  PROVE  IInv'
<1>1. UNCHANGED <<lane, status, maxConcurrent, queue, active, ready, waiters, value>>
  BY DEF DrainStart, DrainReturn, DrainCancel, laneVars, semVars
<1>2. Tasks' = Tasks /\ Tasks \in SUBSET Commands
  BY <1>1 DEF Tasks, In
<1>3. draining' \subseteq Drainers /\ snapshot' \in [Drainers -> SUBSET Commands]
  BY <1>2 DEF DrainStart, DrainReturn, DrainCancel, IInv, TypeOK
<1>4. cancelling' \subseteq Tasks
  BY DEF DrainStart, DrainReturn, DrainCancel, IInv, TypeOK
<1>5. TypeOK'
  BY <1>1, <1>2, <1>3, <1>4 DEF IInv, TypeOK
<1>6. QueueHolds' /\ HeldAccounting' /\ BusyLane' /\ PermitAccounting'
  BY <1>1 DEF IInv, QueueHolds, HeldAccounting, Held, BusyLane, PermitAccounting, In, OfLane
<1>. QED
  BY <1>5, <1>6 DEF IInv

(***************************************************************************)
(* A step that only moves commands among the statuses of a task (or to     *)
(* "lost") leaves the lanes' part of the invariant alone.                  *)
(***************************************************************************)
LEMMA LanesUntouched ==
  ASSUME IInv, UNCHANGED <<lane, queue, active>>,
         \A x \in Commands : \/ status'[x] = status[x]
                             \/ /\ status[x] \in TaskStatuses
                                /\ status'[x] \in TaskStatuses \cup {"lost"}
  PROVE  QueueHolds' /\ HeldAccounting' /\ BusyLane'
<1>1. In({"queued"})' = In({"queued"})
  BY DEF In, TaskStatuses
<1>2. In(TaskStatuses \cup {"lost"})' = In(TaskStatuses \cup {"lost"})
  BY DEF In, TaskStatuses
<1>3. \A l \in Lanes : OfLane(l)' = OfLane(l)
  BY DEF OfLane
<1>4. \A l \in Lanes : Held(l)' = Held(l)
  BY <1>2, <1>3 DEF Held
<1>5. QueueHolds'
  BY <1>1, <1>3 DEF IInv, QueueHolds
<1>6. HeldAccounting'
  BY <1>4 DEF IInv, HeldAccounting
<1>7. BusyLane'
  BY DEF IInv, BusyLane
<1>. QED
  BY <1>5, <1>6, <1>7

(* _wake_up_next picks at most one waiter, a pending one, and only with a permit left. *)
LEMMA WokenIsOneWaiter ==
  ASSUME TypeOK, NEW w \in Seq(Commands), NEW v \in Int
  PROVE  /\ Woken(w, v) \in SUBSET In({"waiting"})
         /\ Cardinality(Woken(w, v)) \in {0, 1}
         /\ v <= 0 => Cardinality(Woken(w, v)) = 0
<1> DEFINE First == {j \in DOMAIN w : /\ v > 0
                                      /\ status[w[j]] = "waiting"
                                      /\ \A h \in 1 .. j-1 : status[w[h]] # "waiting"}
<1>1. Woken(w, v) = {w[i] : i \in First}
  BY DEF Woken
<1>2. DOMAIN w = 1 .. Len(w) /\ Len(w) \in Nat
  BY LenProperties
<1>3. \A i, j \in First : i = j
  BY <1>2
<1>4. Woken(w, v) \in SUBSET In({"waiting"})
  BY <1>1, <1>2 DEF In
<1>5. CASE First = {}
  <2>1. Woken(w, v) = {}
    BY <1>1, <1>5
  <2>. QED
    BY <2>1, <1>4, FS_EmptySet
<1>6. CASE First # {}
  <2>1. PICK i : i \in First
    BY <1>6
  <2>2. Woken(w, v) = {w[i]}
    BY <1>1, <1>3, <2>1
  <2>3. v > 0
    BY <2>1
  <2>4. Cardinality({w[i]}) = 1
    BY FS_Singleton, Zenon
  <2>5. Cardinality(Woken(w, v)) = 1
    BY <2>2, <2>4
  <2>. QED
    BY <2>3, <2>5, <1>4
<1>. QED
  BY <1>5, <1>6

(***************************************************************************)
(* The permits held after a step that takes one from the commands in Out   *)
(* and gives one to those in W.                                            *)
(***************************************************************************)
LEMMA PermitsAfter ==
  ASSUME NEW Out \in SUBSET Permits, NEW W \in SUBSET Commands,
         W \cap Permits = {}, Permits' = (Permits \ Out) \cup W
  PROVE  Cardinality(Permits') = Cardinality(Permits) - Cardinality(Out) + Cardinality(W)
<1>1. Permits \in SUBSET Commands /\ Out \in SUBSET Commands
  BY DEF Permits, In
<1>2. Cardinality(Permits') = Cardinality(Permits \ Out) + Cardinality(W)
  BY <1>1, CountDisjoint
<1>3. Permits = (Permits \ Out) \cup Out
  OBVIOUS
<1>4. Cardinality(Permits) = Cardinality(Permits \ Out) + Cardinality(Out)
  BY <1>1, <1>3, CountDisjoint
<1>5. /\ Cardinality(Permits \ Out) \in Nat
      /\ Cardinality(Out) \in Nat /\ Cardinality(W) \in Nat
  BY <1>1, FiniteCommands
<1>. QED
  BY <1>2, <1>4, <1>5

(* A task runs for the first time: it has its permit, or waits for one. *)
LEMMA FirstStepStep ==
  ASSUME IInv, NEW c \in Commands, FirstStep(c)
  PROVE  IInv'
<1>1. UNCHANGED <<lane, maxConcurrent, queue, active, draining, snapshot, cancelling>>
  BY DEF FirstStep, drainVars
<1>2. status[c] = "created" /\ ready # <<>> /\ ready' = Tail(ready) /\ Acquire(c)
  BY DEF FirstStep
<1>3. TypeOK
  BY DEF IInv
<1>4. /\ status' \in [Commands -> Statuses]
      /\ status'[c] \in {"waiting", "running"}
      /\ \A x \in Commands \ {c} : status'[x] = status[x]
  BY <1>2, <1>3 DEF Acquire, TypeOK, Statuses, TaskStatuses
<1>5. QueueHolds' /\ HeldAccounting' /\ BusyLane'
  <2>1. \A x \in Commands : \/ status'[x] = status[x]
                            \/ /\ status[x] \in TaskStatuses
                               /\ status'[x] \in TaskStatuses \cup {"lost"}
    BY <1>2, <1>4 DEF TaskStatuses
  <2>. QED
    BY <1>1, <2>1, LanesUntouched
<1>6. ready' \in Seq(Commands)
  BY <1>2, <1>3, HeadTailProperties DEF TypeOK
<1>7. waiters' \in Seq(Commands) /\ value' \in Int
  <2>1. waiters \in Seq(Commands) /\ value \in Int
    BY <1>3 DEF TypeOK
  <2>2. Append(waiters, c) \in Seq(Commands)
    BY <2>1, AppendProperties
  <2>3. waiters' = Append(waiters, c) \/ waiters' = waiters
    BY <1>2 DEF Acquire
  <2>4. value' = value \/ value' = value - 1
    BY <1>2 DEF Acquire
  <2>. QED
    BY <2>1, <2>2, <2>3, <2>4
<1>8. cancelling' \subseteq Tasks'
  BY <1>1, <1>2, <1>3, <1>4 DEF TypeOK, Tasks, In, TaskStatuses
<1>9. TypeOK'
  BY <1>1, <1>3, <1>4, <1>6, <1>7, <1>8 DEF TypeOK
<1>10. PermitAccounting'
  <2>1. value \in Nat /\ value + Cardinality(Permits) = MaxTotal
    BY <1>3 DEF IInv, PermitAccounting, Permits, TypeOK
  <2>2. c \notin Permits
    BY <1>2 DEF Permits, In
  <2>3. Cardinality(Permits) \in Nat
    BY FiniteCommands DEF Permits, In
  <2>4. CASE Locked
    <3>1. value' = value /\ Permits' = Permits
      BY <2>4, <1>2, <1>3, <1>4 DEF Acquire, Permits, In, TypeOK
    <3>. QED
      BY <2>1, <3>1 DEF PermitAccounting, Permits
  <2>5. CASE ~ Locked
    <3>1. value' = value - 1 /\ value # 0
      BY <2>5, <1>2 DEF Acquire, Locked
    <3>2. status' = [status EXCEPT ![c] = "running"]
      BY <2>5, <1>2 DEF Acquire
    <3>3. Permits' = (Permits \ {}) \cup {c}
      BY <3>2, <1>3 DEF Permits, In, TypeOK
    <3>4. Cardinality({c}) = 1 /\ Cardinality({}) = 0
      BY FS_Singleton, FS_EmptySet, Zenon
    <3>5. Cardinality(Permits') = Cardinality(Permits) - Cardinality({}) + Cardinality({c})
      <4>1. {} \in SUBSET Permits /\ {c} \in SUBSET Commands /\ {c} \cap Permits = {}
        BY <2>2
      <4>. QED
        BY <4>1, <3>3, PermitsAfter
    <3>6. value' >= 0 /\ value' + Cardinality(Permits') = MaxTotal
      BY <2>1, <2>3, <3>1, <3>4, <3>5, ConstantsAssumption
    <3>. QED
      BY <3>6 DEF PermitAccounting, Permits
  <2>. QED
    BY <2>4, <2>5
<1>. QED
  BY <1>5, <1>9, <1>10 DEF IInv

(* A task that waited runs with its permit. *)
LEMMA ResumeStep ==
  ASSUME IInv, NEW c \in Commands, Resume(c)
  PROVE  IInv'
<1> DEFINE W == Woken(Tail(waiters), value)
<1>1. UNCHANGED <<lane, maxConcurrent, queue, active, ready, draining, snapshot, cancelling>>
  BY DEF Resume, laneVars, drainVars
<1>2. /\ status[c] = "granted" /\ waiters # <<>> /\ waiters' = Tail(waiters)
      /\ value' = value - Cardinality(W)
      /\ status' = Mark([status EXCEPT ![c] = "running"], W, "granted")
  BY DEF Resume
<1>3. TypeOK
  BY DEF IInv
<1>4. waiters' \in Seq(Commands)
  BY <1>2, <1>3, HeadTailProperties DEF TypeOK
<1>5. /\ W \in SUBSET In({"waiting"})
      /\ Cardinality(W) \in {0, 1}
      /\ value <= 0 => Cardinality(W) = 0
  BY <1>2, <1>3, <1>4, WokenIsOneWaiter DEF TypeOK
<1> HIDE DEF W
<1>6. /\ status' \in [Commands -> Statuses]
      /\ \A x \in Commands : status'[x] = IF x \in W THEN "granted"
                                          ELSE IF x = c THEN "running" ELSE status[x]
  BY <1>2, <1>3 DEF Mark, TypeOK, Statuses, TaskStatuses
<1>7. \A x \in W : x \in Commands /\ status[x] = "waiting"
  BY <1>5 DEF In
<1>8. QueueHolds' /\ HeldAccounting' /\ BusyLane'
  <2>1. \A x \in Commands : \/ status'[x] = status[x]
                            \/ /\ status[x] \in TaskStatuses
                               /\ status'[x] \in TaskStatuses \cup {"lost"}
    BY <1>2, <1>6, <1>7 DEF TaskStatuses
  <2>. QED
    BY <1>1, <2>1, LanesUntouched
<1>9. cancelling' \subseteq Tasks'
  BY <1>1, <1>2, <1>3, <1>6 DEF TypeOK, Tasks, In, TaskStatuses
<1>10. TypeOK'
  <2>1. value' \in Int
    BY <1>2, <1>3, <1>5 DEF TypeOK
  <2>. QED
    BY <1>1, <1>3, <1>4, <1>6, <1>9, <2>1 DEF TypeOK
<1>11. PermitAccounting'
  <2>1. value >= 0 /\ value \in Int /\ value + Cardinality(Permits) = MaxTotal
    BY <1>3 DEF IInv, PermitAccounting, Permits, TypeOK
  <2>2. Permits' = (Permits \ {}) \cup W
    BY <1>2, <1>6, <1>7 DEF Permits, In
  <2>3. {} \in SUBSET Permits /\ W \in SUBSET Commands /\ W \cap Permits = {}
    BY <1>7 DEF Permits, In
  <2>4. Cardinality({}) = 0
    BY FS_EmptySet
  <2>5. Cardinality(Permits') = Cardinality(Permits) + Cardinality(W)
    <3>1. Cardinality(Permits) \in Nat
      BY FiniteCommands DEF Permits, In
    <3>2. Cardinality(Permits') = Cardinality(Permits) - Cardinality({}) + Cardinality(W)
      BY <2>2, <2>3, PermitsAfter
    <3>. QED
      BY <2>4, <3>1, <3>2, <1>5
  <2>6. Cardinality(Permits) \in Nat
    BY FiniteCommands DEF Permits, In
  <2>7. value' >= 0 /\ value' + Cardinality(Permits') = MaxTotal
    BY <2>1, <2>5, <2>6, <1>2, <1>5, ConstantsAssumption
  <2>. QED
    BY <2>7 DEF PermitAccounting, Permits
<1>. QED
  BY <1>8, <1>10, <1>11 DEF IInv

(* A task is cancelled while it waits. *)
LEMMA AbandonStep ==
  ASSUME IInv, NEW c \in Commands, Abandon(c)
  PROVE  IInv'
<1> DEFINE rest == RemoveFirst(waiters, c)
           granted == status[c] = "granted"
           v == IF granted THEN value + 1 ELSE value
           W == IF granted THEN Woken(rest, v) ELSE {}
           Out == IF granted THEN {c} ELSE {}
<1>1. UNCHANGED <<lane, maxConcurrent, queue, active, draining, snapshot>>
  BY DEF Abandon
<1>2. /\ status[c] \in {"created", "waiting", "granted"}
      /\ ready' = RemoveFirst(ready, c) /\ waiters' = rest
      /\ value' = v - Cardinality(W)
      /\ status' = Mark([status EXCEPT ![c] = "lost"], W, "granted")
      /\ cancelling' = cancelling \ {c}
  BY DEF Abandon
<1>3. TypeOK
  BY DEF IInv
<1>4. rest \in Seq(Commands) /\ ready' \in Seq(Commands)
  BY <1>2, <1>3, RemoveFirstType DEF TypeOK
<1>5. v \in Int /\ (~ granted => v = value) /\ (granted => v = value + 1)
  BY <1>3 DEF TypeOK
<1>6. /\ W \in SUBSET In({"waiting"})
      /\ Cardinality(W) \in {0, 1}
      /\ v <= 0 => Cardinality(W) = 0
      /\ ~ granted => W = {}
  BY <1>3, <1>4, <1>5, WokenIsOneWaiter, FS_EmptySet
<1>7. Cardinality(Out) = IF granted THEN 1 ELSE 0
  BY FS_Singleton, FS_EmptySet, Zenon
<1> HIDE DEF W, rest, v
<1>8. \A x \in W : x \in Commands /\ status[x] = "waiting" /\ x # c
  BY <1>6 DEF In
<1>9. /\ status' \in [Commands -> Statuses]
      /\ \A x \in Commands : status'[x] = IF x \in W THEN "granted"
                                          ELSE IF x = c THEN "lost" ELSE status[x]
  BY <1>2, <1>3 DEF Mark, TypeOK, Statuses, TaskStatuses, Ended
<1>10. QueueHolds' /\ HeldAccounting' /\ BusyLane'
  <2>1. \A x \in Commands : \/ status'[x] = status[x]
                            \/ /\ status[x] \in TaskStatuses
                               /\ status'[x] \in TaskStatuses \cup {"lost"}
    BY <1>2, <1>8, <1>9 DEF TaskStatuses
  <2>. QED
    BY <1>1, <2>1, LanesUntouched
<1>11. cancelling' \subseteq Tasks'
  BY <1>2, <1>3, <1>9 DEF TypeOK, Tasks, In, TaskStatuses
<1>12. TypeOK'
  <2>1. value' \in Int
    BY <1>2, <1>5, <1>6
  <2>. QED
    BY <1>1, <1>2, <1>3, <1>4, <1>9, <1>11, <2>1 DEF TypeOK
<1>13. PermitAccounting'
  <2>1. value >= 0 /\ value \in Int /\ value + Cardinality(Permits) = MaxTotal
    BY <1>3 DEF IInv, PermitAccounting, Permits, TypeOK
  <2>2. Permits' = (Permits \ Out) \cup W
    BY <1>2, <1>8, <1>9 DEF Permits, In
  <2>3. Out \in SUBSET Permits /\ W \in SUBSET Commands /\ W \cap Permits = {}
    BY <1>8 DEF Permits, In
  <2>4. Cardinality(Permits') = Cardinality(Permits) - Cardinality(Out) + Cardinality(W)
    <3> HIDE DEF Out
    <3>. QED
      BY <2>2, <2>3, PermitsAfter
  <2>5. Cardinality(Permits) \in Nat
    BY FiniteCommands DEF Permits, In
  <2>6. value' >= 0 /\ value' + Cardinality(Permits') = MaxTotal
    <3> HIDE DEF Out, granted
    <3>. QED
      BY <2>1, <2>4, <2>5, <1>2, <1>5, <1>6, <1>7, ConstantsAssumption
  <2>. QED
    BY <2>6 DEF PermitAccounting, Permits
<1>. QED
  BY <1>10, <1>12, <1>13 DEF IInv

(* A command ends: its permit goes back, its lane is pumped. *)
LEMMA FinishStep ==
  ASSUME IInv, NEW c \in Commands, Finish(c)
  PROVE  IInv'
<1> DEFINE l == lane[c]
           v == value + 1
           W == Woken(waiters, v)
           S == ToSet(Started(l, queue[l], active[l] - 1))
           over == IF c \in cancelling THEN "cancelled" ELSE "done"
<1>1. UNCHANGED <<lane, maxConcurrent, waiters, draining, snapshot>>
  BY DEF Finish, ActiveAtPump
<1>2. /\ status[c] = "running"
      /\ Pump(l, queue[l], active[l] - 1)
      /\ status' = Mark(Mark([status EXCEPT ![c] = over], S, "created"), W, "granted")
      /\ value' = v - Cardinality(W)
      /\ cancelling' = cancelling \ {c}
  BY DEF Finish, Finally, ActiveAtPump, PermitsReturned
<1>3. TypeOK
  BY DEF IInv
<1>4. /\ l \in Lanes /\ queue[l] \in Seq(Commands) /\ active[l] \in Nat
      /\ waiters \in Seq(Commands) /\ v \in Int /\ value \in Int
  BY <1>3 DEF TypeOK
<1>5. /\ ToSet(queue[l]) = In({"queued"}) \cap OfLane(l)
      /\ IsInjective(queue[l])
  BY <1>4 DEF IInv, QueueHolds
<1>6. /\ Held(l) \in SUBSET Commands /\ c \in Held(l)
      /\ active[l] = Cardinality(Held(l))
      /\ Cardinality(Held(l) \ {c}) = active[l] - 1
      /\ active[l] - 1 \in Nat
  <2>1. Held(l) \in SUBSET Commands /\ c \in Held(l)
    BY <1>2 DEF Held, In, OfLane, TaskStatuses
  <2>2. active[l] = Cardinality(Held(l))
    BY <1>4 DEF IInv, HeldAccounting
  <2>3. IsFiniteSet(Held(l)) /\ Held(l) \ {c} \in SUBSET Commands
    BY <2>1, FiniteCommands
  <2>4. Cardinality(Held(l) \ {c}) = Cardinality(Held(l)) - 1
    BY <2>1, <2>3, FS_RemoveElement
  <2>5. Cardinality(Held(l) \ {c}) \in Nat
    BY <2>3, FiniteCommands
  <2>. QED
    BY <2>1, <2>2, <2>4, <2>5
<1>7. /\ queue' \in [Lanes -> Seq(Commands)]
      /\ active' \in [Lanes -> Nat]
      /\ ready' \in Seq(Commands)
      /\ S \subseteq ToSet(queue[l])
      /\ IsFiniteSet(S)
      /\ ToSet(queue'[l]) = ToSet(queue[l]) \ S
      /\ IsInjective(queue'[l])
      /\ active'[l] = active[l] - 1 + Cardinality(S)
      /\ queue'[l] # <<>> => active'[l] > 0
      /\ \A k \in Lanes \ {l} : queue'[k] = queue[k] /\ active'[k] = active[k]
  <2> DEFINE a == active[l] - 1
  <2>1. a \in Nat /\ Pump(l, queue[l], a)
    BY <1>2, <1>6
  <2> HIDE DEF a
  <2>2. /\ queue' \in [Lanes -> Seq(Commands)]
        /\ active' \in [Lanes -> Nat]
        /\ ready' \in Seq(Commands)
        /\ ToSet(Started(l, queue[l], a)) \subseteq ToSet(queue[l])
        /\ IsFiniteSet(ToSet(Started(l, queue[l], a)))
        /\ ToSet(queue'[l]) = ToSet(queue[l]) \ ToSet(Started(l, queue[l], a))
        /\ IsInjective(queue'[l])
        /\ active'[l] = a + Cardinality(ToSet(Started(l, queue[l], a)))
        /\ queue'[l] # <<>> => active'[l] > 0
        /\ \A k \in Lanes \ {l} : queue'[k] = queue[k] /\ active'[k] = active[k]
    BY <2>1, <1>3, <1>4, <1>5, PumpStep
  <2>. QED
    BY <2>2 DEF a
<1>8. /\ W \in SUBSET In({"waiting"})
      /\ Cardinality(W) \in {0, 1}
      /\ v <= 0 => Cardinality(W) = 0
  BY <1>3, <1>4, WokenIsOneWaiter
<1> HIDE DEF S, W, l
<1>9. \A x \in S : x \in Commands /\ lane[x] = l /\ status[x] = "queued"
  BY <1>5, <1>7 DEF In, OfLane
<1>10. \A x \in W : x \in Commands /\ status[x] = "waiting"
  BY <1>8 DEF In
<1>11. /\ status' \in [Commands -> Statuses]
       /\ status'[c] \in {"done", "cancelled"}
       /\ \A x \in Commands \ {c} :
            status'[x] = IF x \in W THEN "granted"
                         ELSE IF x \in S THEN "created" ELSE status[x]
  BY <1>2, <1>3, <1>9, <1>10 DEF Mark, TypeOK, Statuses, TaskStatuses, Ended
<1>12. TypeOK'
  <2>1. cancelling' \subseteq Tasks'
    BY <1>2, <1>3, <1>9, <1>11 DEF TypeOK, Tasks, In, TaskStatuses
  <2>2. value' \in Int
    BY <1>2, <1>4, <1>8
  <2>. QED
    BY <2>1, <2>2, <1>1, <1>3, <1>7, <1>11 DEF TypeOK
<1>13. QueueHolds'
  <2> SUFFICES ASSUME NEW k \in Lanes
               PROVE  /\ ToSet(queue'[k]) = {x \in Commands : status'[x] = "queued" /\ lane[x] = k}
                      /\ IsInjective(queue'[k])
    BY <1>1 DEF QueueHolds, In, OfLane
  <2>1. ToSet(queue[k]) = In({"queued"}) \cap OfLane(k) /\ IsInjective(queue[k])
    BY DEF IInv, QueueHolds
  <2>2. CASE k = l
    BY <2>1, <2>2, <1>2, <1>7, <1>9, <1>10, <1>11 DEF In, OfLane
  <2>3. CASE k # l
    <3>1. ASSUME NEW x \in Commands, lane[x] = k
          PROVE  status'[x] = "queued" <=> status[x] = "queued"
      <4>1. CASE x = c
        BY <4>1, <1>2, <1>11
      <4>2. CASE x # c
        <5>1. x \notin S
          BY <3>1, <2>3, <1>9
        <5>2. status'[x] = IF x \in W THEN "granted" ELSE status[x]
          BY <4>2, <5>1, <1>11
        <5>. QED
          BY <5>2, <1>10
      <4>. QED
        BY <4>1, <4>2
    <3>. QED
      BY <2>1, <2>3, <3>1, <1>7 DEF In, OfLane
  <2>. QED
    BY <2>2, <2>3
<1>14. HeldAccounting'
  <2> SUFFICES ASSUME NEW k \in Lanes
               PROVE  active'[k] = Cardinality(Held(k)')
    BY DEF HeldAccounting
  <2>1. active[k] = Cardinality(Held(k))
    BY DEF IInv, HeldAccounting
  <2>2. CASE k = l
    <3>1. Held(k)' = (Held(k) \ {c}) \cup S
      BY <2>2, <1>1, <1>2, <1>9, <1>10, <1>11 DEF Held, In, OfLane, TaskStatuses
    <3>2. (Held(k) \ {c}) \cap S = {} /\ S \in SUBSET Commands /\ Held(k) \ {c} \in SUBSET Commands
      BY <1>9 DEF Held, In, TaskStatuses
    <3>3. Cardinality(Held(k)') = Cardinality(Held(k) \ {c}) + Cardinality(S)
      BY <3>1, <3>2, CountDisjoint
    <3>. QED
      BY <2>2, <3>3, <1>6, <1>7
  <2>3. CASE k # l
    <3>1. Held(k)' = Held(k)
      BY <2>3, <1>1, <1>2, <1>9, <1>10, <1>11 DEF Held, In, OfLane, TaskStatuses, l
    <3>. QED
      BY <2>1, <2>3, <3>1, <1>7
  <2>. QED
    BY <2>2, <2>3
<1>15. BusyLane'
  BY <1>7 DEF IInv, BusyLane
<1>16. PermitAccounting'
  <2>1. value >= 0 /\ value \in Int /\ value + Cardinality(Permits) = MaxTotal
    BY <1>3 DEF IInv, PermitAccounting, Permits, TypeOK
  <2>2. Permits' = (Permits \ {c}) \cup W
    BY <1>2, <1>9, <1>10, <1>11 DEF Permits, In
  <2>3. {c} \in SUBSET Permits /\ W \in SUBSET Commands /\ W \cap Permits = {}
    BY <1>2, <1>10 DEF Permits, In
  <2>4. Cardinality(Permits') = Cardinality(Permits) - Cardinality({c}) + Cardinality(W)
    BY <2>2, <2>3, PermitsAfter
  <2>5. Cardinality(Permits) \in Nat
    BY FiniteCommands DEF Permits, In
  <2>6. Cardinality({c}) = 1
    BY FS_Singleton, Zenon
  <2>7. value' >= 0 /\ value' + Cardinality(Permits') = MaxTotal
    BY <2>1, <2>4, <2>5, <2>6, <1>2, <1>8, ConstantsAssumption
  <2>. QED
    BY <2>7 DEF PermitAccounting, Permits
<1>. QED
  BY <1>12, <1>13, <1>14, <1>15, <1>16 DEF IInv

(* A step that changes nothing of the queue. *)
LEMMA StutterStep == IInv /\ UNCHANGED vars => IInv'
<1> SUFFICES ASSUME IInv, UNCHANGED vars PROVE IInv'
  OBVIOUS
<1>1. UNCHANGED <<lane, status, maxConcurrent, queue, active, ready>>
  BY DEF vars, laneVars
<1>2. UNCHANGED <<waiters, value, draining, snapshot, cancelling>>
  BY DEF vars, semVars, drainVars
<1>3. TypeOK'
  BY <1>1, <1>2 DEF IInv, TypeOK, Tasks, In
<1>4. QueueHolds' /\ HeldAccounting' /\ BusyLane' /\ PermitAccounting'
  BY <1>1, <1>2 DEF IInv, QueueHolds, HeldAccounting, Held, BusyLane, PermitAccounting, In, OfLane
<1>. QED
  BY <1>3, <1>4 DEF IInv

(* Every step keeps the inductive invariant. *)
LEMMA NextIInv == IInv /\ [Next]_vars => IInv'
<1> SUFFICES ASSUME IInv, [Next]_vars PROVE IInv'
  OBVIOUS
<1>1. CASE \E c \in Commands : Enqueue(c) \/ FirstStep(c) \/ Resume(c) \/ Finish(c) \/ Abandon(c)
  BY <1>1, EnqueueStep, FirstStepStep, ResumeStep, FinishStep, AbandonStep
<1>2. CASE \E l \in Lanes, n \in LaneLimits : SetLaneConcurrency(l, n)
  BY <1>2, SetLaneConcurrencyStep
<1>3. CASE \E d \in Drainers : DrainStart(d) \/ DrainReturn(d) \/ DrainCancel(d)
  BY <1>3, DrainStep
<1>4. CASE UNCHANGED vars
  BY <1>4, StutterStep
<1>. QED
  BY <1>1, <1>2, <1>3, <1>4 DEF Next

(* The inductive invariant holds in every reachable state. *)
THEOREM Invariance == Spec => []IInv
<1>1. Init => IInv
  BY InitIInv
<1>2. IInv /\ [Next]_vars => IInv'
  BY NextIInv
<1>. QED
  BY <1>1, <1>2, PTL DEF Spec

-----------------------------------------------------------------------------
(* The invariants of the runs *)

(* Type correctness, for every number of lanes, commands, permits and drainers. *)
THEOREM TypeCorrectness == Spec => []TypeOK
<1>1. IInv => TypeOK
  BY DEF IInv
<1>. QED
  BY <1>1, Invariance, PTL

(* What is held in a lane is its tasks and, apart from them, the slots it lost. *)
LEMMA HeldIsLiveAndLost ==
  ASSUME NEW l
  PROVE  /\ Held(l) = LiveIn(l) \cup LostIn(l)
         /\ Cardinality(Held(l)) = Cardinality(LiveIn(l)) + Cardinality(LostIn(l))
<1>1. Held(l) = LiveIn(l) \cup LostIn(l)
  BY DEF Held, LiveIn, LostIn, Tasks, In
<1>2. LiveIn(l) \in SUBSET Commands /\ LostIn(l) \in SUBSET Commands
  BY DEF LiveIn, LostIn, OfLane, In
<1>3. LiveIn(l) \cap LostIn(l) = {}
  BY DEF LiveIn, LostIn, Tasks, In, TaskStatuses
<1>. QED
  BY <1>1, <1>2, <1>3, CountDisjoint

(* _run gives back every slot it takes, except those lost to a cancellation: *)
(* src/openbotx/bus/command_queue.py lines 81, 99.                           *)
THEOREM SlotsAccounted == Spec => []SlotAccounting
<1>1. IInv => SlotAccounting
  BY HeldIsLiveAndLost DEF IInv, HeldAccounting, SlotAccounting
<1>. QED
  BY <1>1, Invariance, PTL

(* A lane's deque is never left with nobody to pump it. *)
THEOREM NeverStranded == Spec => []NoStrandedLane
<1>1. IInv => NoStrandedLane
  <2> SUFFICES ASSUME IInv, NEW l \in Lanes, queue[l] # <<>>
               PROVE  LiveIn(l) # {} \/ LostIn(l) # {}
    BY DEF NoStrandedLane
  <2>1. active[l] > 0 /\ active[l] = Cardinality(Held(l))
    BY DEF IInv, BusyLane, HeldAccounting
  <2>2. Held(l) # {}
    BY <2>1, FS_EmptySet
  <2>. QED
    BY <2>2, HeldIsLiveAndLost
<1>. QED
  BY <1>1, Invariance, PTL

(* The global cap of the semaphore is respected and no permit leaks. *)
THEOREM PermitsAccounted == Spec => []PermitAccounting
<1>1. IInv => PermitAccounting
  BY DEF IInv
<1>. QED
  BY <1>1, Invariance, PTL

-----------------------------------------------------------------------------
(* The life of a command *)

(* The commands a call of _pump starts were in the deque it was given. *)
LEMMA StartedAreQueued ==
  ASSUME TypeOK, NEW l \in Lanes, NEW q \in Seq(Commands), NEW a \in Nat
  PROVE  ToSet(Started(l, q, a)) \subseteq ToSet(q)
<1> DEFINE n == StartCount(q, a, maxConcurrent[l])
<1>1. n \in 0 .. Len(q)
  BY StartCountBounds DEF TypeOK
<1> HIDE DEF n
<1>2. /\ SubSeq(q, 1, n) \in Seq(Commands) /\ Len(SubSeq(q, 1, n)) = n
      /\ \A i \in 1 .. n : SubSeq(q, 1, n)[i] = q[i]
  BY <1>1, FirstPart
<1>3. DOMAIN SubSeq(q, 1, n) = 1 .. n /\ DOMAIN q = 1 .. Len(q) /\ Len(q) \in Nat
  BY <1>2, LenProperties
<1>4. ToSet(SubSeq(q, 1, n)) \subseteq ToSet(q)
  BY <1>1, <1>2, <1>3 DEF ToSet
<1>. QED
  BY <1>4 DEF Started, n

(* A command goes its way from deque to semaphore to coroutine in one      *)
(* direction; only a task that was asked to cancel is cancelled or lost.   *)
Goes(x) ==
  \/ status'[x] = status[x]
  \/ status[x] \in {"new", "queued"} /\ status'[x] \in {"queued", "created"}
  \/ status[x] = "created" /\ status'[x] \in {"waiting", "running"}
  \/ status[x] = "waiting" /\ status'[x] = "granted"
  \/ status[x] = "granted" /\ status'[x] = "running"
  \/ status[x] = "running" /\ status'[x] = "done"
  \/ x \in cancelling /\ status[x] \in TaskStatuses /\ status'[x] \in {"cancelled", "lost"}

(* A command goes from one place to the next of its way, or stays. *)
LEMMA CommandGoes ==
  ASSUME IInv, [Next]_vars, NEW x \in Commands
  PROVE  Goes(x)
<1>1. TypeOK /\ QueueHolds
  BY DEF IInv
<1>2. ASSUME NEW c \in Commands, Enqueue(c) PROVE Goes(x)
  <2> DEFINE q == Append(queue[lane[c]], c)
             S == ToSet(Started(lane[c], q, active[lane[c]]))
  <2>1. lane[c] \in Lanes /\ queue[lane[c]] \in Seq(Commands) /\ active[lane[c]] \in Nat
    BY <1>1 DEF TypeOK
  <2>2. q \in Seq(Commands) /\ S \subseteq ToSet(q)
    BY <1>1, <2>1, AppendProperties, StartedAreQueued
  <2>3. ToSet(q) = ToSet(queue[lane[c]]) \cup {c}
    <3>1. /\ Len(q) = Len(queue[lane[c]]) + 1 /\ q[Len(queue[lane[c]]) + 1] = c
          /\ \A i \in 1 .. Len(queue[lane[c]]) : q[i] = queue[lane[c]][i]
      BY <2>1, AppendProperties
    <3>2. DOMAIN q = 1 .. Len(queue[lane[c]]) + 1 /\ DOMAIN queue[lane[c]] = 1 .. Len(queue[lane[c]])
      BY <2>1, <2>2, <3>1, LenProperties
    <3> HIDE DEF q
    <3>. QED
      BY <2>1, <3>1, <3>2 DEF ToSet
  <2>4. status' = Mark([status EXCEPT ![c] = "queued"], S, "created") /\ status[c] = "new"
    BY <1>2 DEF Enqueue, Pushed
  <2> HIDE DEF S, q
  <2>5. \A y \in S : status[y] \in {"new", "queued"}
    BY <1>1, <2>1, <2>2, <2>3, <2>4 DEF QueueHolds, In
  <2>. QED
    BY <1>1, <2>4, <2>5 DEF Mark, TypeOK, Goes
<1>3. ASSUME NEW c \in Commands, FirstStep(c) PROVE Goes(x)
  BY <1>1, <1>3 DEF FirstStep, Acquire, TypeOK, Goes
<1>4. ASSUME NEW c \in Commands, Resume(c) PROVE Goes(x)
  <2> DEFINE W == Woken(Tail(waiters), value)
  <2>1. Tail(waiters) \in Seq(Commands) /\ value \in Int
    BY <1>1, <1>4, HeadTailProperties DEF Resume, TypeOK
  <2>2. W \in SUBSET In({"waiting"})
    BY <1>1, <2>1, WokenIsOneWaiter
  <2>3. status' = Mark([status EXCEPT ![c] = "running"], W, "granted") /\ status[c] = "granted"
    BY <1>4 DEF Resume
  <2> HIDE DEF W
  <2>. QED
    BY <1>1, <2>2, <2>3 DEF Mark, TypeOK, In, Goes
<1>5. ASSUME NEW c \in Commands, Finish(c) PROVE Goes(x)
  <2> DEFINE l == lane[c]
             W == Woken(waiters, value + 1)
             S == ToSet(Started(l, queue[l], active[l] - 1))
             over == IF c \in cancelling THEN "cancelled" ELSE "done"
  <2>1. l \in Lanes /\ queue[l] \in Seq(Commands) /\ waiters \in Seq(Commands) /\ value + 1 \in Int
    BY <1>1 DEF TypeOK
  <2>2. status[c] = "running"
    BY <1>5 DEF Finish
  <2>3. active[l] - 1 \in Nat
    <3>1. Held(l) \in SUBSET Commands /\ c \in Held(l)
      BY <2>2 DEF Held, In, OfLane, TaskStatuses
    <3>2. active[l] = Cardinality(Held(l)) /\ active[l] \in Nat
      BY <1>1, <2>1 DEF IInv, HeldAccounting, TypeOK
    <3>3. active[l] # 0
      BY <3>1, <3>2, FiniteCommands, FS_EmptySet
    <3>. QED
      BY <3>2, <3>3
  <2>4. S \subseteq ToSet(queue[l])
    BY <1>1, <2>1, <2>3, StartedAreQueued
  <2>5. W \in SUBSET In({"waiting"})
    BY <1>1, <2>1, WokenIsOneWaiter
  <2>6. status' = Mark(Mark([status EXCEPT ![c] = over], S, "created"), W, "granted")
    BY <1>5 DEF Finish, ActiveAtPump, PermitsReturned
  <2> HIDE DEF S, W, l
  <2>7. \A y \in S : status[y] = "queued"
    BY <1>1, <2>1, <2>4 DEF QueueHolds, In
  <2>. QED
    BY <1>1, <2>2, <2>5, <2>6, <2>7 DEF Mark, TypeOK, In, Goes, TaskStatuses
<1>6. ASSUME NEW c \in Commands, Abandon(c) PROVE Goes(x)
  <2> DEFINE rest == RemoveFirst(waiters, c)
             v == IF status[c] = "granted" THEN value + 1 ELSE value
             W == IF status[c] = "granted" THEN Woken(rest, v) ELSE {}
  <2>1. rest \in Seq(Commands) /\ v \in Int
    BY <1>1, RemoveFirstType DEF TypeOK
  <2>2. W \in SUBSET In({"waiting"})
    BY <1>1, <2>1, WokenIsOneWaiter
  <2>3. status' = Mark([status EXCEPT ![c] = "lost"], W, "granted")
    BY <1>6 DEF Abandon
  <2>4. c \in cancelling /\ status[c] \in {"created", "waiting", "granted"}
    BY <1>6 DEF Abandon
  <2> HIDE DEF W, rest, v
  <2>. QED
    BY <1>1, <2>2, <2>3, <2>4 DEF Mark, TypeOK, In, Goes, TaskStatuses
<1>7. ASSUME UNCHANGED status PROVE Goes(x)
  BY <1>7 DEF Goes
<1>8. ASSUME NEW l \in Lanes, NEW n \in LaneLimits, SetLaneConcurrency(l, n) PROVE UNCHANGED status
  BY <1>8 DEF SetLaneConcurrency
<1>9. ASSUME NEW d \in Drainers, DrainStart(d) \/ DrainReturn(d) \/ DrainCancel(d)
      PROVE  UNCHANGED status
  BY <1>9 DEF DrainStart, DrainReturn, DrainCancel
<1>10. ASSUME UNCHANGED vars PROVE UNCHANGED status
  BY <1>10 DEF vars
<1>. QED
  BY <1>2, <1>3, <1>4, <1>5, <1>6, <1>7, <1>8, <1>9, <1>10 DEF Next

(* No command is begun twice, or ends and goes on: the way is one-way. *)
THEOREM OneWay == Spec => [][\A x \in Commands : Goes(x)]_vars
<1>1. IInv /\ [Next]_vars => \A x \in Commands : Goes(x)
  BY CommandGoes
<1>. QED
  BY <1>1, Invariance, PTL DEF Spec

-----------------------------------------------------------------------------
(***************************************************************************)
(* The queue implements the scheduler of LaneScheduler.  Commands of a     *)
(* lane begin in their order because each of the three queues a command    *)
(* goes through keeps it, and because the earlier commands are further on. *)
(***************************************************************************)

(* The commands of a lane are in their order. *)
Ordered(s) == \A i, j \in 1 .. Len(s) : i < j /\ lane[s[i]] = lane[s[j]] => s[i] < s[j]

(* Every command of s comes before every one of t in its lane. *)
Before(S, T) == \A x \in S, y \in T : lane[x] = lane[y] => x < y

(* An ordered queue has each command once. *)
LEMMA OrderedIsInjective ==
  ASSUME NEW s \in Seq(Commands), Ordered(s)
  PROVE  IsInjective(s)
<1>1. DOMAIN s = 1 .. Len(s) /\ Len(s) \in Nat
  BY LenProperties
<1>2. \A i \in 1 .. Len(s) : s[i] \in Int
  BY ConstantsAssumption DEF Commands
<1>3. \A i, j \in 1 .. Len(s) : i < j => s[i] # s[j]
  BY <1>1, <1>2 DEF Ordered
<1>. QED
  BY <1>1, <1>3 DEF IsInjective

(* At the end of a queue: a command that comes after those in it. *)
LEMMA OrderedAppend ==
  ASSUME NEW s \in Seq(Commands), NEW c \in Commands, Ordered(s), Before(ToSet(s), {c})
  PROVE  /\ Append(s, c) \in Seq(Commands)
         /\ ToSet(Append(s, c)) = ToSet(s) \cup {c}
         /\ Ordered(Append(s, c))
<1> DEFINE t == Append(s, c)
           n == Len(s)
<1>1. /\ t \in Seq(Commands) /\ Len(t) = n + 1 /\ t[n + 1] = c
      /\ \A i \in 1 .. n : t[i] = s[i]
  BY AppendProperties
<1>2. DOMAIN t = 1 .. n + 1 /\ DOMAIN s = 1 .. n /\ n \in Nat
  BY <1>1, LenProperties
<1> HIDE DEF t
<1>3. ToSet(t) = ToSet(s) \cup {c}
  BY <1>1, <1>2 DEF ToSet
<1>4. \A i \in 1 .. n : lane[s[i]] = lane[c] => s[i] < c
  BY <1>2 DEF Before, ToSet
<1>5. Ordered(t)
  BY <1>1, <1>2, <1>4 DEF Ordered
<1>. QED
  BY <1>1, <1>3, <1>5 DEF t

(* Two queues, one after the other. *)
LEMMA OrderedConcat ==
  ASSUME NEW s \in Seq(Commands), NEW t \in Seq(Commands),
         Ordered(s), Ordered(t), Before(ToSet(s), ToSet(t))
  PROVE  /\ ToSet(s \o t) = ToSet(s) \cup ToSet(t)
         /\ Ordered(s \o t)
<1> DEFINE u == s \o t
           m == Len(s)
           n == Len(t)
<1>1. /\ u \in Seq(Commands) /\ Len(u) = m + n
      /\ \A i \in 1 .. m + n : u[i] = IF i <= m THEN s[i] ELSE t[i - m]
  BY ConcatProperties
<1>2. DOMAIN u = 1 .. m + n /\ DOMAIN s = 1 .. m /\ DOMAIN t = 1 .. n /\ m \in Nat /\ n \in Nat
  BY <1>1, LenProperties
<1> HIDE DEF u, m, n
<1>3. ASSUME NEW i \in 1 .. n
      PROVE  m + i \in 1 .. m + n /\ u[m + i] = t[i]
  <2>1. m + i \in 1 .. m + n /\ ~ (m + i <= m) /\ (m + i) - m = i
    BY <1>2
  <2>2. u[m + i] = t[(m + i) - m]
    BY <2>1, <1>1
  <2>. QED
    BY <2>1, <2>2
<1>4. ToSet(u) = ToSet(s) \cup ToSet(t)
  <2>1. ASSUME NEW x \in ToSet(u) PROVE x \in ToSet(s) \cup ToSet(t)
    <3>1. PICK i \in 1 .. m + n : x = u[i]
      BY <1>2 DEF ToSet
    <3>2. CASE i <= m
      <4>1. i \in DOMAIN s /\ x = s[i]
        BY <3>1, <3>2, <1>1, <1>2
      <4>. QED
        BY <4>1 DEF ToSet
    <3>3. CASE i > m
      <4>1. i - m \in DOMAIN t /\ x = t[i - m]
        BY <3>1, <3>3, <1>1, <1>2
      <4>. QED
        BY <4>1 DEF ToSet
    <3>. QED
      BY <3>2, <3>3, <1>2
  <2>2. ASSUME NEW x \in ToSet(s) PROVE x \in ToSet(u)
    <3>1. PICK i \in 1 .. m : x = s[i]
      BY <1>2 DEF ToSet
    <3>2. i \in 1 .. m + n /\ u[i] = x
      BY <3>1, <1>1, <1>2
    <3>. QED
      BY <3>2, <1>2 DEF ToSet
  <2>3. ASSUME NEW x \in ToSet(t) PROVE x \in ToSet(u)
    BY <1>2, <1>3 DEF ToSet
  <2>. QED
    BY <2>1, <2>2, <2>3
<1>5. Ordered(u)
  <2> SUFFICES ASSUME NEW i \in 1 .. m + n, NEW j \in 1 .. m + n, i < j, lane[u[i]] = lane[u[j]]
               PROVE  u[i] < u[j]
    BY <1>1 DEF Ordered
  <2>1. CASE j <= m
    BY <2>1, <1>1, <1>2 DEF Ordered, m
  <2>2. CASE i > m
    <3>1. i - m \in 1 .. n /\ j - m \in 1 .. n /\ i - m < j - m
      BY <2>2, <1>2
    <3>2. u[i] = t[i - m] /\ u[j] = t[j - m]
      BY <2>2, <1>1, <1>2
    <3>. QED
      BY <3>1, <3>2 DEF Ordered, n
  <2>3. CASE i <= m /\ j > m
    <3>1. u[i] = s[i] /\ u[j] = t[j - m] /\ i \in 1 .. m /\ j - m \in 1 .. n
      BY <2>3, <1>1, <1>2
    <3>2. u[i] \in ToSet(s) /\ u[j] \in ToSet(t)
      BY <3>1, <1>2 DEF ToSet
    <3>. QED
      BY <3>2 DEF Before
  <2>. QED
    BY <2>1, <2>2, <2>3, <1>2
<1>. QED
  BY <1>4, <1>5 DEF u

(* A stretch of a queue of one lane, and what comes after it. *)
LEMMA OrderedSplit ==
  ASSUME NEW q \in Seq(Commands), Ordered(q), NEW n \in 0 .. Len(q),
         \A x, y \in ToSet(q) : lane[x] = lane[y]
  PROVE  /\ Ordered(SubSeq(q, 1, n))
         /\ Ordered(SubSeq(q, n + 1, Len(q)))
         /\ Before(ToSet(SubSeq(q, 1, n)), ToSet(SubSeq(q, n + 1, Len(q))))
<1> DEFINE first == SubSeq(q, 1, n)
           rest  == SubSeq(q, n + 1, Len(q))
<1>1. /\ first \in Seq(Commands) /\ Len(first) = n
      /\ \A i \in 1 .. n : first[i] = q[i]
  BY FirstPart
<1>2. /\ rest \in Seq(Commands) /\ Len(rest) = Len(q) - n
      /\ \A i \in 1 .. Len(q) - n : rest[i] = q[n + i]
  BY LastPart
<1> HIDE DEF first, rest
<1>3. /\ DOMAIN q = 1 .. Len(q) /\ DOMAIN first = 1 .. n /\ DOMAIN rest = 1 .. Len(q) - n
      /\ Len(q) \in Nat
  BY <1>1, <1>2, LenProperties
<1>4. Ordered(first)
  BY <1>1, <1>3 DEF Ordered
<1>5. Ordered(rest)
  <2> SUFFICES ASSUME NEW i \in 1 .. Len(q) - n, NEW j \in 1 .. Len(q) - n, i < j,
                      lane[rest[i]] = lane[rest[j]]
               PROVE  rest[i] < rest[j]
    BY <1>2 DEF Ordered
  <2>1. n + i \in 1 .. Len(q) /\ n + j \in 1 .. Len(q) /\ n + i < n + j
    BY <1>3
  <2>. QED
    BY <2>1, <1>2 DEF Ordered
<1>6. Before(ToSet(first), ToSet(rest))
  <2> SUFFICES ASSUME NEW x \in ToSet(first), NEW y \in ToSet(rest), lane[x] = lane[y]
               PROVE  x < y
    BY DEF Before
  <2>1. PICK i \in 1 .. n : x = q[i]
    BY <1>1, <1>3 DEF ToSet
  <2>2. PICK j \in 1 .. Len(q) - n : y = rest[j]
    BY <1>3 DEF ToSet
  <2>3. /\ n + j \in 1 .. Len(q) /\ i \in 1 .. Len(q) /\ i < n + j
        /\ y = q[n + j]
    BY <2>2, <1>2, <1>3
  <2>. QED
    BY <2>1, <2>2, <2>3 DEF Ordered
<1>. QED
  BY <1>4, <1>5, <1>6 DEF first, rest

(* Without its first. *)
LEMMA OrderedTail ==
  ASSUME NEW s \in Seq(Commands), s # <<>>, Ordered(s)
  PROVE  /\ Tail(s) \in Seq(Commands)
         /\ Head(s) \in ToSet(s)
         /\ ToSet(Tail(s)) = ToSet(s) \ {Head(s)}
         /\ Ordered(Tail(s))
         /\ Before({Head(s)}, ToSet(Tail(s)))
<1> DEFINE t == Tail(s)
           n == Len(s)
<1>1. /\ t \in Seq(Commands) /\ Len(t) = n - 1 /\ n \in Nat /\ n > 0
      /\ Head(s) = s[1]
      /\ \A i \in 1 .. n - 1 : t[i] = s[i + 1]
  BY HeadTailProperties, EmptySeq
<1>2. DOMAIN t = 1 .. n - 1 /\ DOMAIN s = 1 .. n
  BY <1>1, LenProperties
<1>3. IsInjective(s)
  BY OrderedIsInjective
<1> HIDE DEF t
<1>4. s[1] \in ToSet(s)
  BY <1>1, <1>2 DEF ToSet
<1>5. ToSet(t) = ToSet(s) \ {s[1]}
  <2>1. ASSUME NEW x \in ToSet(t) PROVE x \in ToSet(s) /\ x # s[1]
    <3>1. PICK i \in 1 .. n - 1 : x = s[i + 1]
      BY <1>1, <1>2 DEF ToSet
    <3>2. i + 1 \in 1 .. n /\ 1 \in 1 .. n /\ i + 1 # 1
      BY <1>1
    <3>. QED
      BY <3>1, <3>2, <1>2, <1>3 DEF ToSet, IsInjective
  <2>2. ASSUME NEW x \in ToSet(s), x # s[1] PROVE x \in ToSet(t)
    <3>1. PICK i \in 1 .. n : x = s[i]
      BY <1>2 DEF ToSet
    <3>2. i - 1 \in 1 .. n - 1 /\ t[i - 1] = x
      BY <2>2, <3>1, <1>1
    <3>. QED
      BY <3>2, <1>2 DEF ToSet
  <2>. QED
    BY <2>1, <2>2
<1>6. Ordered(t)
  <2> SUFFICES ASSUME NEW i \in 1 .. n - 1, NEW j \in 1 .. n - 1, i < j, lane[t[i]] = lane[t[j]]
               PROVE  t[i] < t[j]
    BY <1>1 DEF Ordered
  <2>1. i + 1 \in 1 .. n /\ j + 1 \in 1 .. n /\ i + 1 < j + 1
    BY <1>1
  <2>. QED
    BY <2>1, <1>1 DEF Ordered
<1>7. Before({s[1]}, ToSet(t))
  <2> SUFFICES ASSUME NEW y \in ToSet(t), lane[s[1]] = lane[y] PROVE s[1] < y
    BY DEF Before
  <2>1. PICK i \in 1 .. n - 1 : y = s[i + 1]
    BY <1>1, <1>2 DEF ToSet
  <2>2. i + 1 \in 1 .. n /\ 1 \in 1 .. n /\ 1 < i + 1
    BY <1>1
  <2>. QED
    BY <2>1, <2>2 DEF Ordered
<1>. QED
  BY <1>1, <1>4, <1>5, <1>6, <1>7 DEF t

(* Without one of its members. *)
LEMMA OrderedRemove ==
  ASSUME NEW s \in Seq(Commands), Ordered(s), NEW e
  PROVE  /\ ToSet(RemoveFirst(s, e)) = ToSet(s) \ {e}
         /\ Ordered(RemoveFirst(s, e))
<1>1. DOMAIN s = 1 .. Len(s) /\ Len(s) \in Nat
  BY LenProperties
<1>2. IsInjective(s)
  BY OrderedIsInjective
<1>3. CASE ~ \E i \in 1 .. Len(s) : s[i] = e
  BY <1>3, <1>1 DEF RemoveFirst, ToSet
<1>4. CASE \E i \in 1 .. Len(s) : s[i] = e
  <2> DEFINE I == {i \in 1 .. Len(s) : s[i] = e}
             k == Min(I)
             u == SubSeq(s, 1, k - 1)
             v == SubSeq(s, k + 1, Len(s))
             t == u \o v
             n == Len(s)
  <2>1. k \in 1 .. n /\ s[k] = e
    <3>1. I # {} /\ I \in SUBSET Nat
      BY <1>4
    <3>. QED
      BY <3>1, LeastElement
  <2>2. RemoveFirst(s, e) = t
    <3>1. I # {}
      BY <1>4
    <3>2. RemoveFirst(s, e) = RemoveAt(s, k)
      BY <1>4, <3>1, Zenon DEF RemoveFirst, SelectInSeq
    <3>. QED
      BY <3>2 DEF RemoveAt
  <2> HIDE DEF k, I
  <2>3. /\ u \in Seq(Commands) /\ Len(u) = k - 1
        /\ \A i \in 1 .. k - 1 : u[i] = s[i]
    <3>1. k - 1 \in 0 .. n
      BY <2>1, <1>1
    <3>. QED
      BY <3>1, FirstPart
  <2>4. /\ v \in Seq(Commands) /\ Len(v) = n - k
        /\ \A i \in 1 .. n - k : v[i] = s[k + i]
    <3>1. k \in 0 .. n
      BY <2>1, <1>1
    <3>. QED
      BY <3>1, LastPart
  <2> HIDE DEF u, v
  <2>5. DOMAIN u = 1 .. k - 1 /\ DOMAIN v = 1 .. n - k
    BY <2>3, <2>4, LenProperties
  <2>6. Ordered(u)
    BY <2>1, <2>3 DEF Ordered
  <2>7. Ordered(v)
    <3> SUFFICES ASSUME NEW i \in 1 .. n - k, NEW j \in 1 .. n - k, i < j, lane[v[i]] = lane[v[j]]
                 PROVE  v[i] < v[j]
      BY <2>4 DEF Ordered
    <3>1. k + i \in 1 .. n /\ k + j \in 1 .. n /\ k + i < k + j
      BY <2>1
    <3>. QED
      BY <3>1, <2>4 DEF Ordered
  <2>8. Before(ToSet(u), ToSet(v))
    <3> SUFFICES ASSUME NEW x \in ToSet(u), NEW y \in ToSet(v), lane[x] = lane[y]
                 PROVE  x < y
      BY DEF Before
    <3>1. PICK i \in 1 .. k - 1 : x = s[i]
      BY <2>3, <2>5 DEF ToSet
    <3>2. PICK j \in 1 .. n - k : y = s[k + j]
      BY <2>4, <2>5 DEF ToSet
    <3>3. i \in 1 .. n /\ k + j \in 1 .. n /\ i < k + j
      BY <2>1
    <3>. QED
      BY <3>1, <3>2, <3>3 DEF Ordered
  <2>9. ToSet(t) = ToSet(u) \cup ToSet(v) /\ Ordered(t)
    BY <2>3, <2>4, <2>6, <2>7, <2>8, OrderedConcat
  <2>10. ToSet(u) \cup ToSet(v) = ToSet(s) \ {e}
    <3>1. ASSUME NEW x \in ToSet(u) PROVE x \in ToSet(s) \ {e}
      <4>1. PICK i \in 1 .. k - 1 : x = s[i]
        BY <2>3, <2>5 DEF ToSet
      <4>2. i \in 1 .. n /\ i # k
        BY <2>1
      <4>. QED
        BY <4>1, <4>2, <2>1, <1>1, <1>2 DEF ToSet, IsInjective
    <3>2. ASSUME NEW x \in ToSet(v) PROVE x \in ToSet(s) \ {e}
      <4>1. PICK j \in 1 .. n - k : x = s[k + j]
        BY <2>4, <2>5 DEF ToSet
      <4>2. k + j \in 1 .. n /\ k + j # k
        BY <2>1
      <4>. QED
        BY <4>1, <4>2, <2>1, <1>1, <1>2 DEF ToSet, IsInjective
    <3>3. ASSUME NEW x \in ToSet(s) \ {e} PROVE x \in ToSet(u) \cup ToSet(v)
      <4>1. PICK i \in 1 .. n : x = s[i]
        BY <1>1 DEF ToSet
      <4>2. i # k
        BY <2>1, <4>1
      <4>3. CASE i < k
        <5>1. i \in 1 .. k - 1 /\ u[i] = x
          BY <2>1, <2>3, <4>1, <4>3
        <5>. QED
          BY <5>1, <2>5 DEF ToSet
      <4>4. CASE i > k
        <5>1. i - k \in 1 .. n - k /\ v[i - k] = x
          BY <2>1, <2>4, <4>1, <4>4
        <5>. QED
          BY <5>1, <2>5 DEF ToSet
      <4>. QED
        BY <4>2, <4>3, <4>4, <2>1
    <3>. QED
      BY <3>1, <3>2, <3>3
  <2>. QED
    BY <2>2, <2>9, <2>10
<1>. QED
  BY <1>3, <1>4

(* A non-empty finite set of integers contains its maximum. *)
LEMMA GreatestElement ==
  ASSUME NEW S \in SUBSET Int, IsFiniteSet(S), S # {}
  PROVE  Max(S) \in S /\ \A x \in S : x <= Max(S)
<1> DEFINE Above(x) == {y \in S : y > x}
           C == {Cardinality(Above(x)) : x \in S}
           Less == {p \in Nat \X Nat : p[1] < p[2]}
<1>1. \A x \in S : IsFiniteSet(Above(x)) /\ Cardinality(Above(x)) \in Nat
  BY FS_Subset, FS_CardinalityType
<1>2. C \in SUBSET Nat /\ C # {}
  BY <1>1
<1>3. IsWellFoundedOn(Less, Nat)
  BY NatLessThanWellFounded, Zenon DEF OpToRel
<1>4. PICK n \in C : \A m \in C : <<m, n>> \notin Less
  <2> HIDE DEF C, Less
  <2>. QED
    BY <1>2, <1>3, WFMin
<1>5. PICK x \in S : n = Cardinality(Above(x))
  BY <1>4
<1>6. ASSUME NEW z \in S, z > x PROVE FALSE
  <2>0. x \in Int /\ z \in Int /\ \A y \in S : y \in Int
    OBVIOUS
  <2>1. Above(z) \subseteq Above(x) /\ z \in Above(x) /\ z \notin Above(z)
    <3>1. \A y \in S : y > z => y > x
      BY <1>6, <2>0
    <3>2. ~ (z > z)
      BY <2>0
    <3>. QED
      BY <1>6, <3>1, <3>2
  <2>2. Cardinality(Above(z)) <= Cardinality(Above(x)) /\ Cardinality(Above(z)) # Cardinality(Above(x))
    <3> HIDE DEF Above
    <3>. QED
      BY <2>1, <1>1, FS_Subset
  <2>3. Cardinality(Above(z)) < n
    BY <2>2, <1>1, <1>5
  <2>4. Cardinality(Above(z)) \in C /\ Cardinality(Above(z)) \in Nat /\ n \in Nat
    BY <1>1, <1>5
  <2>5. <<Cardinality(Above(z)), n>> \in Less
    BY <2>3, <2>4
  <2>. QED
    BY <2>4, <2>5, <1>4
<1>7. \A z \in S : x >= z
  BY <1>6
<1>8. \E y \in S : \A z \in S : y >= z
  BY <1>7
<1>9. Max(S) \in S /\ \A z \in S : Max(S) >= z
  BY <1>8 DEF Max
<1>. QED
  BY <1>9

(* The limits a lane can have are within its cap. *)
LEMMA CapBounds ==
  /\ LaneCap \in Nat \ {0}
  /\ \A n \in LaneLimits : LaneLimit(n) <= LaneCap
<1>1. {1} \cup LaneLimits \in SUBSET Int /\ {1} \cup LaneLimits # {}
  BY ConstantsAssumption
<1>2. IsFiniteSet({1} \cup LaneLimits)
  BY ConstantsAssumption, FS_Singleton, FS_Union
<1>3. LaneCap \in {1} \cup LaneLimits /\ \A x \in {1} \cup LaneLimits : x <= LaneCap
  BY <1>1, <1>2, GreatestElement DEF LaneCap
<1>4. LaneCap \in Int /\ 1 <= LaneCap
  BY <1>1, <1>3
<1>. QED
  BY <1>1, <1>3, <1>4 DEF LaneLimit

-----------------------------------------------------------------------------
(* The invariant behind the order *)

(* The tasks that wait for their first step or for a permit are in a queue of their own. *)
Places ==
  /\ ToSet(ready) = In({"created"})
  /\ ToSet(waiters) = In({"waiting", "granted"})

QueuesOrdered == Ordered(ready) /\ Ordered(waiters) /\ \A l \in Lanes : Ordered(queue[l])

(* How far a command that has not begun has come. *)
Pending == {"queued", "created", "waiting", "granted"}
Rank(st) == IF st = "queued" THEN 1 ELSE IF st = "created" THEN 2 ELSE 3

EarlierIsFurther ==
  \A b, c \in Commands :
    b < c /\ lane[b] = lane[c] /\ status[b] \in Pending /\ status[c] \in Pending
      => Rank(status[b]) >= Rank(status[c])

(* Commands are numbered as they come. *)
NewAreLast == \A b, c \in Commands : b < c /\ status[c] # "new" => status[b] # "new"

(* A lane never has more slots in use than the largest limit it was given. *)
WithinCap == \A l \in Lanes : maxConcurrent[l] <= LaneCap /\ active[l] <= LaneCap

OrderInv == Places /\ QueuesOrdered /\ EarlierIsFurther /\ NewAreLast /\ WithinCap

(* What a call of _pump does to the order. *)
LEMMA PumpOrder ==
  ASSUME TypeOK, NEW l \in Lanes, NEW q \in Seq(Commands), NEW a \in Nat, Pump(l, q, a),
         Ordered(q), \A x \in ToSet(q) : lane[x] = l,
         Ordered(ready), Before(ToSet(ready), ToSet(q)),
         a <= LaneCap, maxConcurrent[l] <= LaneCap
  PROVE  /\ ToSet(ready') = ToSet(ready) \cup ToSet(Started(l, q, a))
         /\ Ordered(ready')
         /\ Ordered(queue'[l])
         /\ Before(ToSet(Started(l, q, a)), ToSet(q) \ ToSet(Started(l, q, a)))
         /\ active'[l] <= LaneCap
<1> DEFINE n == StartCount(q, a, maxConcurrent[l])
           first == SubSeq(q, 1, n)
           rest == SubSeq(q, n + 1, Len(q))
<1>1. maxConcurrent[l] \in Nat \ {0} /\ Len(q) \in Nat
  BY DEF TypeOK
<1>2. n \in 0 .. Len(q)
  BY <1>1, StartCountBounds
<1>3. a + n <= LaneCap
  BY <1>1, CapBounds DEF StartCount
<1>4. /\ queue' = [queue EXCEPT ![l] = rest]
      /\ active' = [active EXCEPT ![l] = a + n]
      /\ ready' = ready \o first
      /\ Started(l, q, a) = first
  BY DEF Pump, Started
<1> HIDE DEF n
<1>5. /\ first \in Seq(Commands)
      /\ ToSet(first) \subseteq ToSet(q)
      /\ ToSet(rest) = ToSet(q) \ ToSet(first)
  BY <1>2, OrderedIsInjective, SplitQueue
<1>6. Ordered(first) /\ Ordered(rest) /\ Before(ToSet(first), ToSet(rest))
  BY <1>2, OrderedSplit
<1> HIDE DEF first, rest
<1>7. Before(ToSet(ready), ToSet(first))
  BY <1>5 DEF Before
<1>8. ready \in Seq(Commands)
  BY DEF TypeOK
<1>9. ToSet(ready') = ToSet(ready) \cup ToSet(first) /\ Ordered(ready')
  BY <1>4, <1>5, <1>6, <1>7, <1>8, OrderedConcat
<1>. QED
  BY <1>3, <1>4, <1>5, <1>6, <1>9 DEF TypeOK

(* The queues are ordered at the start. *)
LEMMA InitOrder == Init => OrderInv
<1> SUFFICES ASSUME Init PROVE OrderInv
  OBVIOUS
<1>1. Places
  BY DEF Init, Places, ToSet, In
<1>2. QueuesOrdered
  BY DEF Init, QueuesOrdered, Ordered
<1>3. EarlierIsFurther /\ NewAreLast
  BY DEF Init, EarlierIsFurther, NewAreLast, Pending
<1>4. WithinCap
  BY CapBounds DEF Init, WithinCap
<1>. QED
  BY <1>1, <1>2, <1>3, <1>4 DEF OrderInv

(* Every command that was submitted came before one that is new. *)
LEMMA NewIsLast ==
  ASSUME NewAreLast, NEW c \in Commands, status[c] = "new",
         \A b \in 1 .. c-1 : status[b] # "new"
  PROVE  \A x \in Commands : status[x] # "new" <=> x < c
<1>1. c \in Int /\ \A x \in Commands : x \in Int /\ x >= 1
  BY ConstantsAssumption DEF Commands
<1>2. ASSUME NEW x \in Commands, x < c PROVE status[x] # "new"
  BY <1>1, <1>2
<1>3. ASSUME NEW x \in Commands, status[x] # "new" PROVE x < c
  BY <1>1, <1>3 DEF NewAreLast
<1>. QED
  BY <1>2, <1>3

(* A new command is the latest: it goes to the end. *)
LEMMA EnqueueOrder ==
  ASSUME IInv, OrderInv, NEW c \in Commands, Enqueue(c)
  PROVE  /\ OrderInv'
         /\ \E S \in SUBSET Commands :
              /\ \A x \in S : status[x] = "queued" \/ x = c
              /\ \A x \in Commands : status'[x] = IF x \in S THEN "created"
                                                  ELSE IF x = c THEN "queued" ELSE status[x]
<1> DEFINE l == lane[c]
           q == Append(queue[l], c)
           S == ToSet(Started(l, q, active[l]))
<1>1. TypeOK /\ QueueHolds
  BY DEF IInv
<1>2. l \in Lanes /\ queue[l] \in Seq(Commands) /\ active[l] \in Nat /\ ready \in Seq(Commands)
  BY <1>1 DEF TypeOK
<1>3. status[c] = "new" /\ \A b \in 1 .. c-1 : status[b] # "new"
  BY DEF Enqueue
<1>4. \A x \in Commands : status[x] # "new" <=> x < c
  BY <1>3, NewIsLast DEF OrderInv
<1>5. ToSet(queue[l]) = In({"queued"}) \cap OfLane(l)
  BY <1>1, <1>2 DEF QueueHolds
<1>6. Before(ToSet(queue[l]), {c})
  BY <1>4, <1>5 DEF Before, In
<1>7. /\ q \in Seq(Commands) /\ Ordered(q)
      /\ ToSet(q) = (In({"queued"}) \cap OfLane(l)) \cup {c}
  BY <1>2, <1>5, <1>6, OrderedAppend DEF OrderInv, QueuesOrdered
<1>8. Pump(l, q, active[l])
  BY DEF Enqueue, Pushed
<1>9. Before(ToSet(ready), ToSet(q))
  <2> SUFFICES ASSUME NEW x \in In({"created"}), NEW y \in ToSet(q), lane[x] = lane[y]
               PROVE  x < y
    BY DEF Before, OrderInv, Places
  <2>1. CASE y = c
    BY <2>1, <1>4 DEF In
  <2>2. CASE y # c
    <3>1. y \in Commands /\ x \in Commands /\ status[y] = "queued" /\ status[x] = "created"
      BY <2>2, <1>7 DEF In
    <3>2. ~ (y < x)
      BY <3>1 DEF OrderInv, EarlierIsFurther, Pending, Rank
    <3>3. x # y /\ x \in Int /\ y \in Int
      BY <3>1, ConstantsAssumption DEF Commands
    <3>. QED
      BY <3>2, <3>3
  <2>. QED
    BY <2>1, <2>2
<1>10. \A x \in ToSet(q) : lane[x] = l
  BY <1>7 DEF OfLane
<1>11. active[l] <= LaneCap /\ maxConcurrent[l] <= LaneCap /\ Ordered(ready)
  BY <1>2 DEF OrderInv, WithinCap, QueuesOrdered
<1> HIDE DEF q, S
<1>12. /\ ToSet(ready') = ToSet(ready) \cup S
       /\ Ordered(ready')
       /\ Ordered(queue'[l])
       /\ Before(S, ToSet(q) \ S)
       /\ active'[l] <= LaneCap
  BY <1>1, <1>2, <1>7, <1>8, <1>9, <1>10, <1>11, PumpOrder DEF S
<1>13. /\ S \subseteq ToSet(q)
       /\ \A k \in Lanes \ {l} : queue'[k] = queue[k] /\ active'[k] = active[k]
  BY <1>1, <1>2, <1>7, <1>8, OrderedIsInjective, PumpStep DEF S
<1>14. status' = Mark([status EXCEPT ![c] = "queued"], S, "created")
  BY DEF Enqueue, Pushed, S, q
<1>15. \A x \in Commands :
          status'[x] = IF x \in S THEN "created" ELSE IF x = c THEN "queued" ELSE status[x]
  BY <1>1, <1>14 DEF Mark, TypeOK
<1>16. \A x \in S : x \in Commands /\ lane[x] = l /\ (status[x] = "queued" \/ x = c)
  BY <1>7, <1>13 DEF In, OfLane
<1>17. UNCHANGED <<lane, maxConcurrent, waiters>>
  BY DEF Enqueue, semVars
<1>18. Places'
  <2>1. In({"created"})' = In({"created"}) \cup S
    BY <1>3, <1>15, <1>16 DEF In
  <2>2. In({"waiting", "granted"})' = In({"waiting", "granted"})
    BY <1>3, <1>15, <1>16 DEF In
  <2>. QED
    BY <2>1, <2>2, <1>12, <1>17 DEF Places, OrderInv
<1>19. QueuesOrdered'
  BY <1>12, <1>13, <1>17 DEF QueuesOrdered, Ordered, OrderInv
<1>20. EarlierIsFurther'
  <2> SUFFICES ASSUME NEW b \in Commands, NEW d \in Commands, b < d, lane[b] = lane[d],
                      status'[b] \in Pending, status'[d] \in Pending,
                      ~ (Rank(status'[b]) >= Rank(status'[d]))
               PROVE  FALSE
    BY <1>17 DEF EarlierIsFurther
  <2>1. b \in Int /\ d \in Int /\ c \in Int /\ ~ (d < b)
    BY ConstantsAssumption DEF Commands
  <2>2. CASE d = c
    <3>1. status'[d] \in {"queued", "created"}
      BY <2>2, <1>15
    <3>2. status'[b] = "queued" /\ status'[d] = "created"
      BY <3>1 DEF Rank, Pending
    <3>3. b \in ToSet(q) \ S /\ d \in S
      BY <3>2, <2>1, <2>2, <1>7, <1>10, <1>15 DEF In, OfLane
    <3>. QED
      BY <3>3, <2>1, <1>12 DEF Before
  <2>3. CASE d # c
    <3>1. status[d] # "new" /\ d < c
      BY <2>3, <1>4, <1>15, <1>16 DEF Pending
    <3>2. b < c /\ b # c
      BY <3>1, <2>1
    <3>3. /\ status[b] \in Pending /\ status[d] \in Pending
          /\ Rank(status[b]) >= Rank(status[d])
      <4>1. status[b] \in Pending /\ status[d] \in Pending
        BY <2>3, <3>2, <1>15, <1>16 DEF Pending
      <4>. QED
        BY <4>1 DEF OrderInv, EarlierIsFurther
    <3>4. b \notin S /\ d \in S /\ status[d] = "queued" /\ status[b] = "queued"
      BY <2>3, <3>2, <3>3, <1>15, <1>16 DEF Rank, Pending
    <3>5. b \in ToSet(q) \ S
      BY <3>4, <1>7, <1>16 DEF In, OfLane
    <3>. QED
      BY <3>4, <3>5, <2>1, <1>12 DEF Before
  <2>. QED
    BY <2>2, <2>3
<1>21. NewAreLast'
  <2>1. \A x \in Commands : x \in Int
    BY ConstantsAssumption DEF Commands
  <2>2. \A x \in Commands : status'[x] # "new" <=> status[x] # "new" \/ x = c
    BY <1>15, <1>16
  <2>. QED
    BY <2>1, <2>2, <1>4 DEF NewAreLast
<1>22. WithinCap'
  BY <1>12, <1>13, <1>17 DEF WithinCap, OrderInv
<1>. QED
  BY <1>15, <1>16, <1>18, <1>19, <1>20, <1>21, <1>22 DEF OrderInv

(* The order of the lanes is not disturbed by tasks that end or get their permit. *)
LEMMA OrderOfLanes ==
  ASSUME EarlierIsFurther, NewAreLast, UNCHANGED lane,
         \A x \in Commands :
           /\ status'[x] = "new" <=> status[x] = "new"
           /\ status'[x] \in Pending => /\ status[x] \in Pending
                                        /\ Rank(status'[x]) = Rank(status[x])
  PROVE  EarlierIsFurther' /\ NewAreLast'
<1>1. EarlierIsFurther'
  BY DEF EarlierIsFurther
<1>2. NewAreLast'
  BY DEF NewAreLast
<1>. QED
  BY <1>1, <1>2

(* Who waits for a permit joins the end of the waiters. *)
LEMMA FirstStepOrder ==
  ASSUME IInv, OrderInv, NEW c \in Commands, FirstStep(c)
  PROVE  OrderInv'
<1>1. TypeOK /\ c \in Int /\ \A x \in Commands : x \in Int
  BY ConstantsAssumption DEF IInv, Commands
<1>2. UNCHANGED <<lane, maxConcurrent, queue, active>>
  BY DEF FirstStep
<1>3. /\ status[c] = "created" /\ ready # <<>> /\ c = Head(ready)
      /\ ready' = Tail(ready) /\ Acquire(c)
  BY DEF FirstStep
<1>4. /\ status'[c] \in {"waiting", "running"}
      /\ \A x \in Commands \ {c} : status'[x] = status[x]
  BY <1>1, <1>3 DEF Acquire, TypeOK
<1>5. /\ Ordered(ready) /\ ready \in Seq(Commands) /\ Ordered(waiters) /\ waiters \in Seq(Commands)
      /\ ToSet(ready) = In({"created"}) /\ ToSet(waiters) = In({"waiting", "granted"})
  BY <1>1 DEF OrderInv, QueuesOrdered, Places, TypeOK
<1>6. /\ ToSet(ready') = In({"created"}) \ {c}
      /\ Ordered(ready')
      /\ Before({c}, In({"created"}) \ {c})
  BY <1>3, <1>5, OrderedTail
<1>7. Before(ToSet(waiters), {c})
  <2> SUFFICES ASSUME NEW x \in In({"waiting", "granted"}), lane[x] = lane[c]
               PROVE  x < c
    BY <1>5 DEF Before
  <2>1. x \in Commands /\ status[x] \in {"waiting", "granted"} /\ x # c
    BY <1>3 DEF In
  <2>2. ~ (c < x)
    BY <2>1, <1>3 DEF OrderInv, EarlierIsFurther, Pending, Rank
  <2>. QED
    BY <1>1, <2>1, <2>2
<1>8. /\ ToSet(waiters') = In({"waiting", "granted"})'
      /\ Ordered(waiters')
  <2>1. CASE status'[c] = "waiting"
    <3>1. waiters' = Append(waiters, c)
      BY <1>1, <1>3, <2>1 DEF Acquire, TypeOK
    <3>2. /\ ToSet(waiters') = In({"waiting", "granted"}) \cup {c}
          /\ Ordered(Append(waiters, c))
      BY <3>1, <1>5, <1>7, OrderedAppend
    <3>3. In({"waiting", "granted"})' = In({"waiting", "granted"}) \cup {c}
      BY <1>4, <2>1 DEF In
    <3>. QED
      BY <3>1, <3>2, <3>3, <1>2 DEF Ordered
  <2>2. CASE status'[c] = "running"
    <3>1. waiters' = waiters
      BY <1>1, <1>3, <2>2 DEF Acquire, TypeOK
    <3>2. In({"waiting", "granted"})' = In({"waiting", "granted"})
      BY <1>3, <1>4, <2>2 DEF In
    <3>. QED
      BY <3>1, <3>2, <1>2, <1>5 DEF Ordered
  <2>. QED
    BY <2>1, <2>2, <1>4
<1>9. Places'
  <2>1. In({"created"})' = In({"created"}) \ {c}
    BY <1>4 DEF In
  <2>. QED
    BY <2>1, <1>6, <1>8 DEF Places
<1>10. QueuesOrdered'
  BY <1>2, <1>6, <1>8 DEF QueuesOrdered, Ordered, OrderInv
<1>11. EarlierIsFurther'
  <2> SUFFICES ASSUME NEW b \in Commands, NEW d \in Commands, b < d, lane[b] = lane[d],
                      status'[b] \in Pending, status'[d] \in Pending
               PROVE  Rank(status'[b]) >= Rank(status'[d])
    BY <1>2 DEF EarlierIsFurther
  <2>1. /\ status[b] \in Pending /\ status[d] \in Pending /\ b # d
        /\ Rank(status[b]) >= Rank(status[d])
    <3>1. status[b] \in Pending /\ status[d] \in Pending
      BY <1>3, <1>4 DEF Pending
    <3>2. b # d
      BY <1>1
    <3>. QED
      BY <3>1, <3>2 DEF OrderInv, EarlierIsFurther
  <2>2. CASE d = c
    <3>1. status'[b] = status[b] /\ status[b] # "queued"
      BY <2>1, <2>2, <1>3, <1>4 DEF Rank
    <3>2. status[b] # "created"
      <4> SUFFICES ASSUME status[b] = "created" PROVE FALSE
        OBVIOUS
      <4>1. b \in In({"created"}) \ {c}
        BY <2>1, <2>2 DEF In
      <4>2. c < b
        BY <4>1, <2>2, <1>6 DEF Before
      <4>. QED
        BY <4>2, <2>2, <1>1
    <3>3. Rank(status'[b]) = 3 /\ Rank(status'[d]) \in {1, 2, 3}
      BY <3>1, <3>2, <2>1 DEF Rank, Pending
    <3>. QED
      BY <3>3
  <2>3. CASE b = c
    <3>1. status'[d] = status[d] /\ status'[b] = "waiting"
      BY <2>1, <2>3, <1>4 DEF Pending
    <3>. QED
      BY <3>1 DEF Rank
  <2>4. CASE b # c /\ d # c
    BY <2>1, <2>4, <1>4
  <2>. QED
    BY <2>2, <2>3, <2>4
<1>12. NewAreLast'
  BY <1>3, <1>4 DEF NewAreLast, OrderInv
<1>13. WithinCap'
  BY <1>2 DEF WithinCap, OrderInv
<1>. QED
  BY <1>9, <1>10, <1>11, <1>12, <1>13 DEF OrderInv

(* Who got a permit leaves the waiters. *)
LEMMA ResumeOrder ==
  ASSUME IInv, OrderInv, NEW c \in Commands, Resume(c)
  PROVE  OrderInv'
<1> DEFINE W == Woken(Tail(waiters), value)
<1>1. TypeOK
  BY DEF IInv
<1>2. UNCHANGED <<lane, maxConcurrent, queue, active, ready>>
  BY DEF Resume, laneVars
<1>3. /\ status[c] = "granted" /\ waiters # <<>> /\ c = Head(waiters) /\ waiters' = Tail(waiters)
      /\ status' = Mark([status EXCEPT ![c] = "running"], W, "granted")
  BY DEF Resume
<1>4. Ordered(waiters) /\ waiters \in Seq(Commands) /\ ToSet(waiters) = In({"waiting", "granted"})
  BY <1>1 DEF OrderInv, QueuesOrdered, Places, TypeOK
<1>5. /\ waiters' \in Seq(Commands)
      /\ ToSet(waiters') = In({"waiting", "granted"}) \ {c}
      /\ Ordered(Tail(waiters))
  BY <1>3, <1>4, OrderedTail
<1>6. W \in SUBSET In({"waiting"})
  BY <1>1, <1>3, <1>5, WokenIsOneWaiter DEF TypeOK
<1> HIDE DEF W
<1>7. \A x \in Commands : status'[x] = IF x \in W THEN "granted"
                                       ELSE IF x = c THEN "running" ELSE status[x]
  BY <1>1, <1>3 DEF Mark, TypeOK
<1>8. \A x \in W : x \in Commands /\ status[x] = "waiting"
  BY <1>6 DEF In
<1>9. Places'
  <2>1. In({"created"})' = In({"created"})
    BY <1>3, <1>7, <1>8 DEF In
  <2>2. In({"waiting", "granted"})' = In({"waiting", "granted"}) \ {c}
    BY <1>3, <1>7, <1>8 DEF In
  <2>. QED
    BY <2>1, <2>2, <1>2, <1>5 DEF Places, OrderInv
<1>10. QueuesOrdered'
  BY <1>2, <1>3, <1>5 DEF QueuesOrdered, Ordered, OrderInv
<1>11. EarlierIsFurther' /\ NewAreLast'
  <2>1. \A x \in Commands :
           /\ status'[x] = "new" <=> status[x] = "new"
           /\ status'[x] \in Pending => /\ status[x] \in Pending
                                        /\ Rank(status'[x]) = Rank(status[x])
    BY <1>3, <1>7, <1>8 DEF Pending, Rank
  <2>. QED
    BY <2>1, <1>2, OrderOfLanes DEF OrderInv
<1>12. WithinCap'
  BY <1>2 DEF WithinCap, OrderInv
<1>. QED
  BY <1>9, <1>10, <1>11, <1>12 DEF OrderInv

(* Who is cancelled leaves the waiters. *)
LEMMA AbandonOrder ==
  ASSUME IInv, OrderInv, NEW c \in Commands, Abandon(c)
  PROVE  OrderInv'
<1> DEFINE rest == RemoveFirst(waiters, c)
           v == IF status[c] = "granted" THEN value + 1 ELSE value
           W == IF status[c] = "granted" THEN Woken(rest, v) ELSE {}
<1>1. TypeOK
  BY DEF IInv
<1>2. UNCHANGED <<lane, maxConcurrent, queue, active>>
  BY DEF Abandon
<1>3. /\ status[c] \in {"created", "waiting", "granted"}
      /\ ready' = RemoveFirst(ready, c) /\ waiters' = rest
      /\ status' = Mark([status EXCEPT ![c] = "lost"], W, "granted")
  BY DEF Abandon
<1>4. /\ Ordered(ready) /\ ready \in Seq(Commands) /\ Ordered(waiters) /\ waiters \in Seq(Commands)
      /\ ToSet(ready) = In({"created"}) /\ ToSet(waiters) = In({"waiting", "granted"})
  BY <1>1 DEF OrderInv, QueuesOrdered, Places, TypeOK
<1>5. /\ ToSet(ready') = In({"created"}) \ {c} /\ Ordered(RemoveFirst(ready, c))
      /\ ToSet(waiters') = In({"waiting", "granted"}) \ {c} /\ Ordered(rest)
  BY <1>3, <1>4, OrderedRemove
<1>6. W \in SUBSET In({"waiting"})
  <2>1. rest \in Seq(Commands) /\ v \in Int
    BY <1>1, <1>4, RemoveFirstType DEF TypeOK
  <2>. QED
    BY <2>1, <1>1, WokenIsOneWaiter
<1> HIDE DEF W, rest
<1>7. \A x \in Commands : status'[x] = IF x \in W THEN "granted"
                                       ELSE IF x = c THEN "lost" ELSE status[x]
  BY <1>1, <1>3 DEF Mark, TypeOK
<1>8. \A x \in W : x \in Commands /\ status[x] = "waiting" /\ x # c
  <2>1. \A x \in W : x \in Commands /\ status[x] = "waiting"
    BY <1>6 DEF In
  <2>2. c \notin W
    <3>1. CASE status[c] = "granted"
      BY <3>1, <2>1
    <3>2. CASE status[c] # "granted"
      BY <3>2 DEF W
    <3>. QED
      BY <3>1, <3>2
  <2>. QED
    BY <2>1, <2>2
<1>9. Places'
  <2>1. In({"created"})' = In({"created"}) \ {c}
    BY <1>7, <1>8 DEF In
  <2>2. In({"waiting", "granted"})' = In({"waiting", "granted"}) \ {c}
    BY <1>7, <1>8 DEF In
  <2>. QED
    BY <2>1, <2>2, <1>5 DEF Places
<1>10. QueuesOrdered'
  BY <1>2, <1>3, <1>5 DEF QueuesOrdered, Ordered, OrderInv
<1>11. EarlierIsFurther' /\ NewAreLast'
  <2>1. \A x \in Commands :
           /\ status'[x] = "new" <=> status[x] = "new"
           /\ status'[x] \in Pending => /\ status[x] \in Pending
                                        /\ Rank(status'[x]) = Rank(status[x])
    BY <1>3, <1>7, <1>8 DEF Pending, Rank
  <2>. QED
    BY <2>1, <1>2, OrderOfLanes DEF OrderInv
<1>12. WithinCap'
  BY <1>2 DEF WithinCap, OrderInv
<1>. QED
  BY <1>9, <1>10, <1>11, <1>12 DEF OrderInv

(* The lane's next commands start in their order. *)
LEMMA FinishOrder ==
  ASSUME IInv, OrderInv, NEW c \in Commands, Finish(c)
  PROVE  /\ OrderInv'
         /\ \E S, W \in SUBSET Commands :
              /\ \A x \in S : status[x] = "queued"
              /\ \A x \in W : status[x] = "waiting"
              /\ status'[c] \in {"done", "cancelled"}
              /\ \A x \in Commands \ {c} : status'[x] = IF x \in W THEN "granted"
                                                       ELSE IF x \in S THEN "created" ELSE status[x]
<1> DEFINE l == lane[c]
           q == queue[l]
           S == ToSet(Started(l, q, active[l] - 1))
           W == Woken(waiters, value + 1)
           over == IF c \in cancelling THEN "cancelled" ELSE "done"
<1>1. TypeOK /\ QueueHolds /\ \A x \in Commands : x \in Int
  BY ConstantsAssumption DEF IInv, Commands
<1>2. /\ l \in Lanes /\ q \in Seq(Commands) /\ ready \in Seq(Commands)
      /\ waiters \in Seq(Commands) /\ value + 1 \in Int
  BY <1>1 DEF TypeOK
<1>3. status[c] = "running"
  BY DEF Finish
<1>4. active[l] \in Nat /\ active[l] - 1 \in Nat
  <2>1. Held(l) \in SUBSET Commands /\ c \in Held(l)
    BY <1>3 DEF Held, In, OfLane, TaskStatuses
  <2>2. active[l] = Cardinality(Held(l)) /\ active[l] \in Nat
    BY <1>1, <1>2 DEF IInv, HeldAccounting, TypeOK
  <2>3. active[l] # 0
    BY <2>1, <2>2, FiniteCommands, FS_EmptySet
  <2>. QED
    BY <2>2, <2>3
<1>5. Pump(l, q, active[l] - 1)
  BY DEF Finish, Finally, ActiveAtPump
<1>6. /\ ToSet(q) = In({"queued"}) \cap OfLane(l) /\ Ordered(q)
      /\ ToSet(ready) = In({"created"}) /\ Ordered(ready)
      /\ ToSet(waiters) = In({"waiting", "granted"}) /\ Ordered(waiters)
  BY <1>1, <1>2 DEF QueueHolds, OrderInv, QueuesOrdered, Places
<1>7. Before(ToSet(ready), ToSet(q))
  <2> SUFFICES ASSUME NEW x \in In({"created"}), NEW y \in In({"queued"}), lane[x] = lane[y]
               PROVE  x < y
    BY <1>6 DEF Before
  <2>1. y \in Commands /\ x \in Commands /\ status[y] = "queued" /\ status[x] = "created"
    BY DEF In
  <2>2. ~ (y < x)
    BY <2>1 DEF OrderInv, EarlierIsFurther, Pending, Rank
  <2>3. x # y /\ x \in Int /\ y \in Int
    BY <2>1, <1>1
  <2>. QED
    BY <2>2, <2>3
<1>8. \A x \in ToSet(q) : lane[x] = l
  BY <1>6 DEF OfLane
<1>9. active[l] - 1 <= LaneCap /\ maxConcurrent[l] <= LaneCap
  BY <1>2, <1>4, CapBounds DEF OrderInv, WithinCap
<1>10. status' = Mark(Mark([status EXCEPT ![c] = over], S, "created"), W, "granted")
  BY DEF Finish, ActiveAtPump, PermitsReturned
<1>11. W \in SUBSET In({"waiting"})
  BY <1>1, <1>2, WokenIsOneWaiter
<1> HIDE DEF W, q
<1>12. /\ ToSet(ready') = ToSet(ready) \cup S
       /\ Ordered(ready')
       /\ Ordered(queue'[l])
       /\ Before(S, ToSet(q) \ S)
       /\ active'[l] <= LaneCap
       /\ S \subseteq ToSet(q)
       /\ \A k \in Lanes \ {l} : queue'[k] = queue[k] /\ active'[k] = active[k]
  <2> DEFINE a == active[l] - 1
  <2>1. a \in Nat /\ Pump(l, q, a) /\ a <= LaneCap
    BY <1>4, <1>5, <1>9
  <2> HIDE DEF a
  <2>2. /\ ToSet(ready') = ToSet(ready) \cup ToSet(Started(l, q, a))
        /\ Ordered(ready')
        /\ Ordered(queue'[l])
        /\ Before(ToSet(Started(l, q, a)), ToSet(q) \ ToSet(Started(l, q, a)))
        /\ active'[l] <= LaneCap
    BY <2>1, <1>1, <1>2, <1>6, <1>7, <1>8, <1>9, PumpOrder
  <2>3. /\ ToSet(Started(l, q, a)) \subseteq ToSet(q)
        /\ \A k \in Lanes \ {l} : queue'[k] = queue[k] /\ active'[k] = active[k]
    BY <2>1, <1>1, <1>2, <1>6, OrderedIsInjective, PumpStep
  <2>. QED
    BY <2>2, <2>3 DEF a
<1> HIDE DEF S
<1>13. \A x \in S : x \in Commands /\ lane[x] = l /\ status[x] = "queued"
  BY <1>6, <1>12 DEF In, OfLane
<1>14. \A x \in W : x \in Commands /\ status[x] = "waiting"
  BY <1>11 DEF In
<1>15. /\ status'[c] \in {"done", "cancelled"}
       /\ \A x \in Commands \ {c} : status'[x] = IF x \in W THEN "granted"
                                                ELSE IF x \in S THEN "created" ELSE status[x]
  BY <1>1, <1>3, <1>10, <1>13, <1>14 DEF Mark, TypeOK
<1>16. UNCHANGED <<lane, maxConcurrent, waiters>>
  BY DEF Finish
<1> HIDE DEF l
<1>17. Places'
  <2>1. In({"created"})' = In({"created"}) \cup S
    BY <1>3, <1>13, <1>14, <1>15 DEF In
  <2>2. In({"waiting", "granted"})' = In({"waiting", "granted"})
    BY <1>3, <1>13, <1>14, <1>15 DEF In
  <2>. QED
    BY <2>1, <2>2, <1>6, <1>12, <1>16 DEF Places
<1>18. QueuesOrdered'
  BY <1>12, <1>16 DEF QueuesOrdered, Ordered, OrderInv
<1>19. EarlierIsFurther'
  <2> SUFFICES ASSUME NEW b \in Commands, NEW d \in Commands, b < d, lane[b] = lane[d],
                      status'[b] \in Pending, status'[d] \in Pending,
                      ~ (Rank(status'[b]) >= Rank(status'[d]))
               PROVE  FALSE
    BY <1>16 DEF EarlierIsFurther
  <2>1. b \in Int /\ d \in Int /\ b # c /\ d # c /\ ~ (d < b)
    BY <1>1, <1>15 DEF Pending
  <2>2. ASSUME NEW x \in {b, d}
        PROVE  /\ status[x] \in Pending
               /\ x \in S => status[x] = "queued" /\ status'[x] = "created"
               /\ x \notin S => Rank(status'[x]) = Rank(status[x])
    <3>1. x \in Commands \ {c} /\ status'[x] \in Pending
      BY <2>1
    <3>. QED
      BY <3>1, <1>13, <1>14, <1>15 DEF Pending, Rank
  <2>3. Rank(status[b]) >= Rank(status[d])
    BY <2>2 DEF OrderInv, EarlierIsFurther
  <2>4. d \in S
    <3> SUFFICES ASSUME d \notin S PROVE FALSE
      OBVIOUS
    <3>1. Rank(status'[d]) = Rank(status[d]) /\ Rank(status'[b]) < Rank(status[b])
      BY <2>2, <2>3 DEF Rank
    <3>. QED
      BY <3>1, <2>2 DEF Rank
  <2>5. b \notin S /\ status[b] = "queued"
    <3>1. status'[d] = "created" /\ Rank(status'[b]) = 1
      BY <2>2, <2>4 DEF Rank
    <3>2. b \notin S /\ Rank(status[b]) = 1
      BY <2>2, <3>1 DEF Rank
    <3>. QED
      BY <3>2, <2>2 DEF Rank
  <2>6. b \in ToSet(q) \ S
    BY <2>4, <2>5, <1>6, <1>13 DEF In, OfLane
  <2>. QED
    BY <2>4, <2>6, <2>1, <1>12 DEF Before
<1>20. NewAreLast'
  <2>1. \A x \in Commands : status'[x] = "new" <=> status[x] = "new"
    BY <1>3, <1>13, <1>14, <1>15
  <2>. QED
    BY <2>1 DEF NewAreLast, OrderInv
<1>21. WithinCap'
  BY <1>12, <1>16 DEF WithinCap, OrderInv
<1>22. S \in SUBSET Commands /\ W \in SUBSET Commands
  BY <1>13, <1>14
<1>. QED
  BY <1>13, <1>14, <1>15, <1>17, <1>18, <1>19, <1>20, <1>21, <1>22 DEF OrderInv

(* With another limit too, the next commands start in their order. *)
LEMMA SetLaneConcurrencyOrder ==
  ASSUME IInv, OrderInv, NEW l \in Lanes, NEW n \in LaneLimits, SetLaneConcurrency(l, n)
  PROVE  OrderInv'
<1>1. UNCHANGED <<lane, status, queue, active, ready, waiters>>
  BY DEF SetLaneConcurrency, laneVars, semVars
<1>2. maxConcurrent' = [maxConcurrent EXCEPT ![l] = LaneLimit(n)] /\ TypeOK
  BY DEF SetLaneConcurrency, IInv
<1>3. WithinCap'
  BY <1>1, <1>2, CapBounds DEF WithinCap, OrderInv, TypeOK
<1>4. Places' /\ QueuesOrdered' /\ EarlierIsFurther' /\ NewAreLast'
  BY <1>1 DEF Places, QueuesOrdered, Ordered, EarlierIsFurther, NewAreLast, In, OrderInv
<1>. QED
  BY <1>3, <1>4 DEF OrderInv

(* A step that leaves the lanes and the semaphore alone. *)
LEMMA QuietOrder ==
  ASSUME OrderInv, UNCHANGED <<lane, status, maxConcurrent, queue, active, ready, waiters>>
  PROVE  OrderInv'
<1>1. Places' /\ QueuesOrdered' /\ EarlierIsFurther' /\ NewAreLast' /\ WithinCap'
  BY DEF Places, QueuesOrdered, Ordered, EarlierIsFurther, NewAreLast, WithinCap, In, OrderInv
<1>. QED
  BY <1>1 DEF OrderInv

(* Every step keeps the order. *)
LEMMA NextOrder == IInv /\ OrderInv /\ [Next]_vars => OrderInv'
<1> SUFFICES ASSUME IInv, OrderInv, [Next]_vars PROVE OrderInv'
  OBVIOUS
<1>1. CASE \E c \in Commands : Enqueue(c) \/ FirstStep(c) \/ Resume(c) \/ Finish(c) \/ Abandon(c)
  BY <1>1, EnqueueOrder, FirstStepOrder, ResumeOrder, FinishOrder, AbandonOrder
<1>2. CASE \E l \in Lanes, n \in LaneLimits : SetLaneConcurrency(l, n)
  BY <1>2, SetLaneConcurrencyOrder
<1>3. CASE \E d \in Drainers : DrainStart(d) \/ DrainReturn(d) \/ DrainCancel(d)
  BY <1>3, QuietOrder DEF DrainStart, DrainReturn, DrainCancel, laneVars, semVars
<1>4. CASE UNCHANGED vars
  BY <1>4, QuietOrder DEF vars, laneVars, semVars
<1>. QED
  BY <1>1, <1>2, <1>3, <1>4 DEF Next

(* The order of the lanes and their cap, in every reachable state. *)
THEOREM OrderInvariance == Spec => []OrderInv
<1>1. Init => OrderInv
  BY InitOrder
<1>2. IInv /\ OrderInv /\ [Next]_vars => OrderInv'
  BY NextOrder
<1>. QED
  BY <1>1, <1>2, Invariance, PTL DEF Spec

-----------------------------------------------------------------------------
(* Every step of the queue is a step of the scheduler, or none *)

phaseBar == [c \in Commands |-> PhaseOf(status[c])]

(* The phase of each status. *)
LEMMA Phases ==
  /\ PhaseOf("new") = "new"
  /\ \A st \in Pending : PhaseOf(st) = "pending"
  /\ PhaseOf("running") = "running"
  /\ \A st \in Ended : PhaseOf(st) = "over"
<1>1. PhaseOf("new") = "new" /\ PhaseOf("running") = "running"
  BY DEF PhaseOf, Ended
<1>2. \A st \in Pending : PhaseOf(st) = "pending"
  BY DEF PhaseOf, Ended, Pending
<1>3. \A st \in Ended : PhaseOf(st) = "over"
  BY DEF PhaseOf, Ended
<1>. QED
  BY <1>1, <1>2, <1>3

(* And back. *)
LEMMA StatusOfPhase ==
  ASSUME NEW st \in Statuses
  PROVE  /\ PhaseOf(st) = "new" <=> st = "new"
         /\ PhaseOf(st) = "pending" <=> st \in Pending
         /\ PhaseOf(st) = "running" <=> st = "running"
<1>1. st = "new" \/ st \in Pending \/ st = "running" \/ st \in Ended
  BY DEF Statuses, TaskStatuses, Pending
<1>2. CASE st = "new"
  BY <1>2, Phases DEF Pending
<1>3. CASE st \in Pending
  BY <1>3, Phases DEF Pending
<1>4. CASE st = "running"
  BY <1>4, Phases DEF Pending
<1>5. CASE st \in Ended
  BY <1>5, Phases DEF Pending, Ended
<1>. QED
  BY <1>1, <1>2, <1>3, <1>4, <1>5

(* One command goes to another phase, the others stay in theirs. *)
LEMMA MovePhase ==
  ASSUME NEW c \in Commands, UNCHANGED lane,
         \A x \in Commands \ {c} : PhaseOf(status'[x]) = PhaseOf(status[x])
  PROVE  Promise!Move(c, PhaseOf(status[c]), PhaseOf(status'[c]))
<1>1. phaseBar[c] = PhaseOf(status[c])
  BY DEF phaseBar
<1>2. phaseBar' = [phaseBar EXCEPT ![c] = PhaseOf(status'[c])]
  BY DEF phaseBar
<1>. QED
  BY <1>1, <1>2 DEF Promise!Move, phaseBar

(* Enqueue is a submission of LaneScheduler, and no more. *)
LEMMA EnqueueRefines ==
  ASSUME IInv, OrderInv, NEW c \in Commands, Enqueue(c)
  PROVE  Promise!Submit(c)
<1>1. PICK S \in SUBSET Commands :
        /\ \A x \in S : status[x] = "queued" \/ x = c
        /\ \A x \in Commands : status'[x] = IF x \in S THEN "created"
                                            ELSE IF x = c THEN "queued" ELSE status[x]
  BY EnqueueOrder
<1>2. status[c] = "new" /\ UNCHANGED lane /\ \A b \in 1 .. c-1 : status[b] # "new"
  BY DEF Enqueue
<1>3. \A x \in Commands \ {c} : PhaseOf(status'[x]) = PhaseOf(status[x])
  BY <1>1, Phases DEF Pending
<1>4. PhaseOf(status[c]) = "new" /\ PhaseOf(status'[c]) = "pending"
  BY <1>1, <1>2, Phases DEF Pending
<1>5. Promise!Move(c, "new", "pending")
  BY <1>2, <1>3, <1>4, MovePhase
<1>6. \A b \in 1 .. c-1 : phaseBar[b] # "new"
  <2> SUFFICES ASSUME NEW b \in 1 .. c-1 PROVE phaseBar[b] # "new"
    OBVIOUS
  <2>1. b \in Commands /\ status[b] # "new"
    BY <1>2, ConstantsAssumption DEF Commands
  <2>2. status[b] \in Statuses
    BY <2>1 DEF IInv, TypeOK
  <2>. QED
    BY <2>1, <2>2, StatusOfPhase DEF phaseBar
<1>. QED
  BY <1>5, <1>6 DEF Promise!Submit, phaseBar

(* The commands that are in progress, of all lanes and of one, in the scheduler's terms. *)
LEMMA RunningCommands ==
  ASSUME TypeOK
  PROVE  /\ Promise!InPhase("running") = In({"running"})
         /\ \A c \in Commands : Promise!SameLane(c) = OfLane(lane[c])
<1>1. \A x \in Commands : phaseBar[x] = "running" <=> status[x] = "running"
  BY StatusOfPhase DEF phaseBar, TypeOK
<1>2. Promise!InPhase("running") = {x \in Commands : phaseBar[x] = "running"}
  BY DEF Promise!InPhase, Promise!Commands, Commands, phaseBar
<1>. QED
  BY <1>1, <1>2 DEF Promise!SameLane, Promise!Commands, Commands, OfLane, In

(* A permit and a slot are enough for the caps: with X running and c not yet, *)
(* each of them holding both.                                                 *)
LEMMA CapsAllow ==
  ASSUME IInv, OrderInv, NEW c \in Commands,
         status[c] \in {"created", "granted"},
         status[c] = "created" => value > 0
  PROVE  /\ Cardinality(In({"running"})) < MaxTotal
         /\ Cardinality(In({"running"}) \cap OfLane(lane[c])) < LaneCap
<1> DEFINE R == In({"running"})
           l == lane[c]
<1>1. TypeOK /\ l \in Lanes
  BY DEF IInv, TypeOK
<1>2. /\ R \in SUBSET Commands /\ R \cap OfLane(l) \in SUBSET Commands /\ c \notin R
      /\ Permits \in SUBSET Commands /\ R \subseteq Permits
      /\ Held(l) \in SUBSET Commands /\ c \in Held(l) /\ R \cap OfLane(l) \subseteq Held(l)
  BY DEF In, Permits, Held, OfLane, TaskStatuses
<1>3. /\ value \in Int /\ value >= 0 /\ value + Cardinality(Permits) = MaxTotal
      /\ active[l] = Cardinality(Held(l)) /\ active[l] <= LaneCap
      /\ LaneCap \in Nat /\ MaxTotal \in Nat
  BY <1>1, CapBounds, ConstantsAssumption
     DEF IInv, PermitAccounting, Permits, HeldAccounting, OrderInv, WithinCap, TypeOK
<1> HIDE DEF R, l
<1>4. /\ Cardinality(R) \in Nat /\ Cardinality(Permits) \in Nat /\ Cardinality(Held(l)) \in Nat
      /\ Cardinality(R \cap OfLane(l)) \in Nat
      /\ IsFiniteSet(Permits) /\ IsFiniteSet(Held(l))
  BY <1>2, FiniteCommands
<1>5. Cardinality(R) <= Cardinality(Permits)
  BY <1>2, <1>4, FS_Subset
<1>6. Cardinality(R) < MaxTotal
  <2>1. CASE status[c] = "created"
    BY <2>1, <1>3, <1>4, <1>5
  <2>2. CASE status[c] = "granted"
    <3>1. c \in Permits
      BY <2>2 DEF Permits, In
    <3>2. Cardinality(R) # Cardinality(Permits)
      BY <3>1, <1>2, <1>4, FS_Subset
    <3>. QED
      BY <3>2, <1>3, <1>4, <1>5
  <2>. QED
    BY <2>1, <2>2
<1>7. Cardinality(R \cap OfLane(l)) < LaneCap
  <2>1. /\ Cardinality(R \cap OfLane(l)) <= Cardinality(Held(l))
        /\ Cardinality(R \cap OfLane(l)) # Cardinality(Held(l))
    BY <1>2, <1>4, FS_Subset
  <2>. QED
    BY <2>1, <1>3, <1>4
<1>. QED
  BY <1>6, <1>7 DEF R, l

(* A command with its permit begins in the scheduler's terms, if it is the *)
(* first of its lane that is still to begin.                               *)
LEMMA BeginRefines ==
  ASSUME IInv, OrderInv, NEW c \in Commands, UNCHANGED lane,
         status[c] \in {"created", "granted"}, status[c] = "created" => value > 0,
         \A b \in Commands : b < c /\ lane[b] = lane[c] => status[b] \notin Pending,
         PhaseOf(status'[c]) = "running",
         \A x \in Commands \ {c} : PhaseOf(status'[x]) = PhaseOf(status[x])
  PROVE  Promise!Begin(c)
<1>1. TypeOK
  BY DEF IInv
<1>2. Promise!Move(c, "pending", "running")
  <2>1. PhaseOf(status[c]) = "pending"
    BY Phases DEF Pending
  <2>. QED
    BY <2>1, MovePhase
<1>3. /\ Cardinality(Promise!InPhase("running")) < MaxTotal
      /\ Cardinality(Promise!InPhase("running") \cap Promise!SameLane(c)) < LaneCap
  BY <1>1, RunningCommands, CapsAllow
<1>4. \A b \in Promise!SameLane(c) : b < c => phaseBar[b] # "pending"
  <2> SUFFICES ASSUME NEW b \in Promise!SameLane(c), b < c PROVE phaseBar[b] # "pending"
    OBVIOUS
  <2>1. b \in Commands /\ lane[b] = lane[c]
    BY <1>1, RunningCommands DEF OfLane
  <2>. QED
    BY <2>1, <1>1, StatusOfPhase DEF phaseBar, TypeOK
<1>. QED
  BY <1>2, <1>3, <1>4 DEF Promise!Begin, phaseBar, Promise!Cardinality, Cardinality

(* A first step starts the command, or changes nothing the abstract one sees. *)
LEMMA FirstStepRefines ==
  ASSUME IInv, OrderInv, NEW c \in Commands, FirstStep(c)
  PROVE  Promise!Begin(c) \/ UNCHANGED Promise!vars
<1>1. TypeOK /\ c \in Int /\ \A x \in Commands : x \in Int
  BY ConstantsAssumption DEF IInv, Commands
<1>2. UNCHANGED lane /\ status[c] = "created" /\ ready # <<>> /\ c = Head(ready) /\ Acquire(c)
  BY DEF FirstStep
<1>3. CASE Locked
  <2>1. status' = [status EXCEPT ![c] = "waiting"]
    BY <1>2, <1>3 DEF Acquire
  <2>2. \A x \in Commands : PhaseOf(status'[x]) = PhaseOf(status[x])
    BY <2>1, <1>1, <1>2, Phases DEF Pending, TypeOK
  <2>3. phaseBar' = phaseBar
    BY <2>2 DEF phaseBar
  <2>. QED
    BY <2>3, <1>2 DEF Promise!vars, phaseBar
<1>4. CASE ~ Locked
  <2>1. value # 0 /\ waiters = <<>> /\ status' = [status EXCEPT ![c] = "running"]
    BY <1>2, <1>4 DEF Acquire, Locked
  <2>2. value > 0
    BY <2>1, <1>1 DEF IInv, PermitAccounting, TypeOK
  <2>3. ASSUME NEW b \in Commands, b < c, lane[b] = lane[c], status[b] \in Pending
        PROVE  FALSE
    <3>1. Rank(status[b]) >= 2
      BY <2>3, <1>2 DEF OrderInv, EarlierIsFurther, Rank, Pending
    <3>2. status[b] # "queued"
      BY <3>1 DEF Rank
    <3>3. In({"waiting", "granted"}) = {}
      BY <2>1 DEF OrderInv, Places, ToSet
    <3>4. status[b] = "created"
      BY <3>2, <3>3, <2>3 DEF Pending, In
    <3>5. Before({c}, ToSet(ready) \ {c}) /\ b \in ToSet(ready)
      <4>1. ready \in Seq(Commands) /\ Ordered(ready) /\ ToSet(ready) = In({"created"})
        BY <1>1 DEF TypeOK, OrderInv, QueuesOrdered, Places
      <4>. QED
        BY <4>1, <3>4, <1>2, OrderedTail DEF In
    <3>6. b # c /\ ~ (c < b)
      BY <2>3, <1>1
    <3>. QED
      BY <3>5, <3>6, <2>3 DEF Before
  <2>4. PhaseOf(status'[c]) = "running"
    BY <2>1, <1>1, Phases DEF TypeOK
  <2>5. \A x \in Commands \ {c} : PhaseOf(status'[x]) = PhaseOf(status[x])
    BY <2>1, <1>1 DEF TypeOK
  <2>6. Promise!Begin(c)
    BY <2>2, <2>3, <2>4, <2>5, <1>2, BeginRefines
  <2>. QED
    BY <2>6
<1>. QED
  BY <1>3, <1>4

(* A resumed task starts its command. *)
LEMMA ResumeRefines ==
  ASSUME IInv, OrderInv, NEW c \in Commands, Resume(c)
  PROVE  Promise!Begin(c)
<1> DEFINE W == Woken(Tail(waiters), value)
<1>1. TypeOK /\ c \in Int /\ \A x \in Commands : x \in Int
  BY ConstantsAssumption DEF IInv, Commands
<1>2. /\ UNCHANGED lane /\ status[c] = "granted" /\ waiters # <<>> /\ c = Head(waiters)
      /\ status' = Mark([status EXCEPT ![c] = "running"], W, "granted")
  BY DEF Resume
<1>3. waiters \in Seq(Commands) /\ Ordered(waiters) /\ ToSet(waiters) = In({"waiting", "granted"})
  BY <1>1 DEF OrderInv, QueuesOrdered, Places, TypeOK
<1>4. Tail(waiters) \in Seq(Commands) /\ Before({c}, ToSet(waiters) \ {c})
  BY <1>2, <1>3, OrderedTail
<1>5. W \in SUBSET In({"waiting"})
  BY <1>1, <1>4, WokenIsOneWaiter DEF TypeOK
<1> HIDE DEF W
<1>6. \A x \in Commands : status'[x] = IF x \in W THEN "granted"
                                       ELSE IF x = c THEN "running" ELSE status[x]
  BY <1>1, <1>2 DEF Mark, TypeOK
<1>7. \A x \in W : x \in Commands /\ status[x] = "waiting"
  BY <1>5 DEF In
<1>8. ASSUME NEW b \in Commands, b < c, lane[b] = lane[c], status[b] \in Pending
      PROVE  FALSE
  <2>1. Rank(status[b]) >= 3
    BY <1>8, <1>2 DEF OrderInv, EarlierIsFurther, Rank, Pending
  <2>2. status[b] \in {"waiting", "granted"}
    BY <2>1, <1>8 DEF Rank, Pending
  <2>3. b # c /\ ~ (c < b)
    BY <1>8, <1>1
  <2>4. b \in ToSet(waiters) \ {c}
    BY <2>2, <2>3, <1>3 DEF In
  <2>. QED
    BY <2>3, <2>4, <1>4, <1>8 DEF Before
<1>9. PhaseOf(status'[c]) = "running"
  BY <1>2, <1>6, <1>7, Phases
<1>10. \A x \in Commands \ {c} : PhaseOf(status'[x]) = PhaseOf(status[x])
  BY <1>6, <1>7, Phases DEF Pending
<1>. QED
  BY <1>2, <1>8, <1>9, <1>10, BeginRefines

(* A command that ends is done. *)
LEMMA FinishRefines ==
  ASSUME IInv, OrderInv, NEW c \in Commands, Finish(c)
  PROVE  Promise!End(c)
<1>1. PICK S, W \in SUBSET Commands :
        /\ \A x \in S : status[x] = "queued"
        /\ \A x \in W : status[x] = "waiting"
        /\ status'[c] \in {"done", "cancelled"}
        /\ \A x \in Commands \ {c} : status'[x] = IF x \in W THEN "granted"
                                                 ELSE IF x \in S THEN "created" ELSE status[x]
  BY FinishOrder
<1>2. status[c] = "running" /\ UNCHANGED lane
  BY DEF Finish
<1>3. \A x \in Commands \ {c} : PhaseOf(status'[x]) = PhaseOf(status[x])
  BY <1>1, Phases DEF Pending
<1>4. PhaseOf(status[c]) = "running" /\ PhaseOf(status'[c]) = "over"
  BY <1>1, <1>2, Phases DEF Ended
<1>5. Promise!Move(c, "running", "over")
  BY <1>2, <1>3, <1>4, MovePhase
<1>. QED
  BY <1>5 DEF Promise!End

(* A command cancelled where it waits is dropped. *)
LEMMA AbandonRefines ==
  ASSUME IInv, OrderInv, NEW c \in Commands, Abandon(c)
  PROVE  Promise!Drop(c)
<1> DEFINE rest == RemoveFirst(waiters, c)
           v == IF status[c] = "granted" THEN value + 1 ELSE value
           W == IF status[c] = "granted" THEN Woken(rest, v) ELSE {}
<1>1. TypeOK
  BY DEF IInv
<1>2. /\ UNCHANGED lane /\ status[c] \in {"created", "waiting", "granted"}
      /\ status' = Mark([status EXCEPT ![c] = "lost"], W, "granted")
  BY DEF Abandon
<1>3. W \in SUBSET In({"waiting"}) /\ c \notin W
  <2>1. rest \in Seq(Commands) /\ v \in Int
    BY <1>1, RemoveFirstType DEF TypeOK
  <2>2. W \in SUBSET In({"waiting"})
    BY <2>1, <1>1, WokenIsOneWaiter
  <2>3. CASE status[c] = "granted"
    <3> HIDE DEF W
    <3>. QED
      BY <2>2, <2>3 DEF In
  <2>4. CASE status[c] # "granted"
    BY <2>2, <2>4
  <2>. QED
    BY <2>3, <2>4
<1> HIDE DEF W
<1>4. \A x \in Commands : status'[x] = IF x \in W THEN "granted"
                                       ELSE IF x = c THEN "lost" ELSE status[x]
  BY <1>1, <1>2 DEF Mark, TypeOK
<1>5. \A x \in W : x \in Commands /\ status[x] = "waiting"
  BY <1>3 DEF In
<1>6. \A x \in Commands \ {c} : PhaseOf(status'[x]) = PhaseOf(status[x])
  BY <1>4, <1>5, Phases DEF Pending
<1>7. PhaseOf(status[c]) = "pending" /\ PhaseOf(status'[c]) = "over"
  BY <1>2, <1>3, <1>4, Phases DEF Pending, Ended
<1>8. Promise!Move(c, "pending", "over")
  BY <1>2, <1>6, <1>7, MovePhase
<1>. QED
  BY <1>8 DEF Promise!Drop

(* Every step is a step of LaneScheduler, or none. *)
LEMMA NextRefines ==
  ASSUME IInv, OrderInv, [Next]_vars
  PROVE  [Promise!Next]_(Promise!vars)
<1>1. Promise!Commands = Commands
  BY DEF Promise!Commands, Commands
<1>2. ASSUME NEW c \in Commands,
             Enqueue(c) \/ FirstStep(c) \/ Resume(c) \/ Finish(c) \/ Abandon(c)
      PROVE  [Promise!Next]_(Promise!vars)
  <2>1. \/ Promise!Submit(c) \/ Promise!Begin(c) \/ Promise!End(c) \/ Promise!Drop(c)
        \/ UNCHANGED Promise!vars
    BY <1>2, EnqueueRefines, FirstStepRefines, ResumeRefines, FinishRefines, AbandonRefines
  <2>. QED
    BY <2>1, <1>1 DEF Promise!Next
<1>3. ASSUME UNCHANGED <<lane, status>> PROVE UNCHANGED Promise!vars
  BY <1>3 DEF Promise!vars
<1>4. CASE \E l \in Lanes, n \in LaneLimits : SetLaneConcurrency(l, n)
  BY <1>3, <1>4 DEF SetLaneConcurrency
<1>5. CASE \E d \in Drainers : DrainStart(d) \/ DrainReturn(d) \/ DrainCancel(d)
  BY <1>3, <1>5 DEF DrainStart, DrainReturn, DrainCancel
<1>6. CASE UNCHANGED vars
  BY <1>3, <1>6 DEF vars
<1>. QED
  BY <1>2, <1>4, <1>5, <1>6 DEF Next

(* The deques, the tasks and the semaphore implement the scheduler: for every  *)
(* number of lanes, commands, permits and drainers, commands of a lane begin   *)
(* in their order, below the cap of the lane and of all lanes.                 *)
THEOREM Implements == Spec => KeepsPromise
<1>1. Init => Promise!Init
  <2> SUFFICES ASSUME Init PROVE Promise!Init
    OBVIOUS
  <2>1. phaseBar = [c \in Commands |-> "new"]
    BY Phases DEF Init, phaseBar
  <2>. QED
    BY <2>1 DEF Init, Promise!Init, Promise!Commands, Commands, phaseBar
<1>2. IInv /\ OrderInv /\ [Next]_vars => [Promise!Next]_(Promise!vars)
  BY NextRefines
<1>. QED
  BY <1>1, <1>2, Invariance, OrderInvariance, PTL DEF Spec, KeepsPromise, Promise!Spec
=============================================================================
