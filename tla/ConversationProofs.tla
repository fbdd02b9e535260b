-------------------------- MODULE ConversationProofs --------------------------
(***************************************************************************)
(* Proofs about Conversation: the cached session is the one on disk, the   *)
(* record only grows, nothing is consolidated without being remembered,    *)
(* and the model is given every exchange within the cap of get_history.    *)
(* And about AgentTurn, the turn that answers a message of it: the limits  *)
(* on repeated calls and the transcripts the model is sent.                *)
(***************************************************************************)
EXTENDS Conversation, AgentTurn, SequenceTheorems, FiniteSetTheorems, NaturalsInduction,
        WellFoundedInduction, TLAPS

-----------------------------------------------------------------------------
(* The inductive invariant *)

(* Where the agent is when it has a session. *)
Working == {"reading", "noting", "thinking", "replying", "clearing", "summarising", "marking"}

TypeOK ==
  /\ at \in [Messages -> {"unsent", "saved", "sent", "over"}]
  /\ lane \in Seq(Messages)
  /\ object \in [Objects -> Sessions]
  /\ cached \in {0} \cup Objects
  /\ held \in {0} \cup Objects
  /\ disk \in Sessions \cup {NoFile}
  /\ agent \in {"idle", "starting"} \cup Working
  /\ agent \in Working <=> held # 0
  /\ current \in Messages
  /\ total \in Nat
  /\ deletes \in Nat

(* The sessions that somebody can still write to or read from. *)
Live == {object[o] : o \in {cached, held} \ {0}} \cup ({disk} \ {NoFile})

(* The agent works on another object than the cache only after a deletion. *)
HeldIsCached == held # 0 /\ held # cached => deletes > 0

(* What a session counts as consolidated is remembered. *)
Sound(s) ==
  /\ s.consolidated <= Len(s.messages)
  /\ \A k \in 1 .. s.consolidated : s.messages[k] \in memory

(* The count that _check_consolidation took stays one of the session's messages, *)
(* and is remembered once the model has called memory_save.                      *)
Counted ==
  cut \/ /\ \A s \in Live : Sound(s)
         /\ agent = "summarising" =>
              object[held].consolidated <= total /\ total <= Len(object[held].messages)
         /\ agent = "marking" =>
              /\ total <= Len(object[held].messages)
              /\ \A k \in 1 .. total : object[held].messages[k] \in memory

(* A message is in the lane once, and the one worked on has left it. *)
LaneIsSent ==
  /\ \A i, j \in DOMAIN lane : lane[i] = lane[j] => i = j
  /\ \A i \in DOMAIN lane : at[lane[i]] = "sent"
  /\ agent # "idle" => at[current] = "sent" /\ \A i \in DOMAIN lane : lane[i] # current

(* The messages the agent can have answered. *)
Unanswered == {"starting", "reading", "noting", "thinking", "clearing"}
Answered(m) ==
  /\ at[m] \in {"sent", "over"}
  /\ \A i \in DOMAIN lane : lane[i] # m
  /\ agent \in Unanswered => m # current

(* A question is on record before its answer. *)
InTurn(s) ==
  \A i, j \in DOMAIN s.messages :
    s.messages[i].role = "assistant" /\ s.messages[j].role = "user"
      /\ s.messages[i].of = s.messages[j].of => j < i

Known(s) == \A i \in DOMAIN s.messages : s.messages[i].role = "assistant" => Answered(s.messages[i].of)

Turns == \A s \in Live : InTurn(s) /\ Known(s)

IInv == TypeOK /\ CacheIsDisk /\ HeldIsCached /\ Counted /\ LaneIsSent /\ Turns /\ ContextComplete

-----------------------------------------------------------------------------
(* Facts about sessions *)

(* A session as it is created is a session. *)
LEMMA EmptySessionType ==
  /\ EmptySession \in Sessions /\ EmptySession.messages = <<>> /\ EmptySession.consolidated = 0
  /\ DOMAIN EmptySession.messages = {}
  BY DEF EmptySession, Sessions

(* A session and one entry more. *)
LEMMA WithIs ==
  ASSUME NEW s \in Sessions, NEW role \in {"user", "assistant"}, NEW m \in Messages
  PROVE  LET e == [role |-> role, of |-> m]
         IN  /\ With(s, role, m).messages = Append(s.messages, e)
             /\ With(s, role, m).consolidated = s.consolidated
             /\ s.messages \in Seq(Entries) /\ s.consolidated \in Nat /\ e \in Entries
<1> DEFINE e == [role |-> role, of |-> m]
<1>1. s.messages \in Seq(Entries) /\ s.consolidated \in Nat /\ e \in Entries
  BY DEF Sessions, Entries
<1>2. With(s, role, m) = [s EXCEPT !.messages = Append(s.messages, e)]
  BY DEF With
<1> HIDE DEF e
<1>3. With(s, role, m).messages = Append(s.messages, e)
  BY <1>2 DEF Sessions
<1>4. With(s, role, m).consolidated = s.consolidated
  BY <1>2 DEF Sessions
<1>. QED
  BY <1>1, <1>3, <1>4 DEF e

(* One more entry makes one more message and leaves the earlier ones where they are. *)
LEMMA OneMore ==
  ASSUME NEW q \in Seq(Entries), NEW e \in Entries
  PROVE  /\ Append(q, e) \in Seq(Entries)
         /\ Len(q) \in Nat /\ DOMAIN q = 1 .. Len(q)
         /\ Len(Append(q, e)) = Len(q) + 1 /\ DOMAIN Append(q, e) = 1 .. Len(q) + 1
         /\ Append(q, e)[Len(q) + 1] = e
         /\ \A i \in 1 .. Len(q) : Append(q, e)[i] = q[i]
<1>1. /\ Append(q, e) \in Seq(Entries)
      /\ Len(Append(q, e)) = Len(q) + 1
      /\ Append(q, e)[Len(q) + 1] = e
      /\ \A i \in 1 .. Len(q) : Append(q, e)[i] = q[i]
  BY AppendProperties
<1>2. /\ Len(q) \in Nat
      /\ DOMAIN q = 1 .. Len(q)
      /\ DOMAIN Append(q, e) = 1 .. Len(q) + 1
  BY <1>1, LenProperties
<1>. QED
  BY <1>1, <1>2

(* One more entry makes a session of a session. *)
LEMMA WithType ==
  ASSUME NEW s \in Sessions, NEW role \in {"user", "assistant"}, NEW m \in Messages
  PROVE  With(s, role, m) \in Sessions
<1> DEFINE e == [role |-> role, of |-> m]
<1>1. s.messages \in Seq(Entries) /\ e \in Entries
  BY WithIs
<1>2. With(s, role, m) = [s EXCEPT !.messages = Append(s.messages, e)]
  BY DEF With
<1> HIDE DEF e
<1>3. Append(s.messages, e) \in Seq(Entries)
  BY <1>1, OneMore
<1>. QED
  BY <1>2, <1>3 DEF Sessions

(* One entry more does not touch what was consolidated. *)
LEMMA WithSound ==
  ASSUME NEW s \in Sessions, NEW role \in {"user", "assistant"}, NEW m \in Messages, Sound(s)
  PROVE  Sound(With(s, role, m))
<1> DEFINE t == With(s, role, m)
           q == s.messages
           e == [role |-> role, of |-> m]
<1>1. /\ t.messages = Append(q, e) /\ t.consolidated = s.consolidated
      /\ q \in Seq(Entries) /\ s.consolidated \in Nat /\ e \in Entries
  BY WithIs
<1>2. s.consolidated <= Len(q) /\ \A k \in 1 .. s.consolidated : q[k] \in memory
  BY DEF Sound
<1> HIDE DEF t, q, e
<1>3. /\ Len(q) \in Nat /\ Len(Append(q, e)) = Len(q) + 1
      /\ \A i \in 1 .. Len(q) : Append(q, e)[i] = q[i]
  BY <1>1, OneMore
<1>4. \A k \in 1 .. s.consolidated : Append(q, e)[k] \in memory
  BY <1>1, <1>2, <1>3
<1>5. s.consolidated <= Len(Append(q, e))
  BY <1>1, <1>2, <1>3
<1>. QED
  BY <1>1, <1>4, <1>5 DEF Sound, t

(* A question is added that was not answered, or an answer. *)
LEMMA WithTurn ==
  ASSUME NEW s \in Sessions, NEW role \in {"user", "assistant"}, NEW m \in Messages,
         InTurn(s), role = "user" => Known(s) /\ ~ Answered(m)
  PROVE  InTurn(With(s, role, m))
<1> DEFINE t == With(s, role, m)
           q == s.messages
           e == [role |-> role, of |-> m]
           n == Len(q)
<1>1. t.messages = Append(q, e) /\ q \in Seq(Entries) /\ e \in Entries
  BY WithIs
<1>2. \A i, j \in DOMAIN q :
        q[i].role = "assistant" /\ q[j].role = "user" /\ q[i].of = q[j].of => j < i
  BY DEF InTurn
<1>3. role = "user" => \A i \in DOMAIN q : q[i].role = "assistant" => q[i].of # m
  BY DEF Known
<1>4. e.role = role /\ e.of = m
  OBVIOUS
<1> HIDE DEF t, q, e
<1>5. /\ n \in Nat /\ DOMAIN q = 1 .. n /\ DOMAIN Append(q, e) = 1 .. n + 1
      /\ Append(q, e)[n + 1] = e
      /\ \A i \in 1 .. n : Append(q, e)[i] = q[i]
  BY <1>1, OneMore
<1> HIDE DEF n
<1>6. ASSUME NEW i \in 1 .. n + 1, NEW j \in 1 .. n + 1,
             Append(q, e)[i].role = "assistant", Append(q, e)[j].role = "user",
             Append(q, e)[i].of = Append(q, e)[j].of
      PROVE  j < i
  <2>1. CASE i \in 1 .. n /\ j \in 1 .. n
    BY <2>1, <1>2, <1>5, <1>6
  <2>2. CASE i = n + 1
    <3>1. j # n + 1
      BY <2>2, <1>4, <1>5, <1>6
    <3>. QED
      BY <3>1, <2>2, <1>5
  <2>3. CASE i \in 1 .. n /\ j = n + 1
    BY <2>3, <1>3, <1>4, <1>5, <1>6
  <2>. QED
    BY <2>1, <2>2, <2>3, <1>5
<1>. QED
  BY <1>1, <1>5, <1>6 DEF InTurn, t

(* What is known of a session stays known of it with one more entry. *)
LEMMA WithKnown ==
  ASSUME NEW s \in Sessions, NEW role \in {"user", "assistant"}, NEW m \in Messages,
         Known(s), role = "assistant" => Answered(m)
  PROVE  Known(With(s, role, m))
<1> DEFINE t == With(s, role, m)
           q == s.messages
           e == [role |-> role, of |-> m]
           n == Len(q)
<1>1. t.messages = Append(q, e) /\ q \in Seq(Entries) /\ e \in Entries
  BY WithIs
<1>2. \A i \in DOMAIN q : q[i].role = "assistant" => Answered(q[i].of)
  BY DEF Known
<1>3. e.role = role /\ e.of = m
  OBVIOUS
<1> HIDE DEF t, q, e
<1>4. /\ n \in Nat /\ DOMAIN q = 1 .. n /\ DOMAIN Append(q, e) = 1 .. n + 1
      /\ Append(q, e)[n + 1] = e
      /\ \A i \in 1 .. n : Append(q, e)[i] = q[i]
  BY <1>1, OneMore
<1> HIDE DEF n
<1>5. ASSUME NEW i \in 1 .. n + 1, Append(q, e)[i].role = "assistant"
      PROVE  Answered(Append(q, e)[i].of)
  <2>1. CASE i = n + 1
    BY <2>1, <1>3, <1>4, <1>5
  <2>2. CASE i \in 1 .. n
    BY <2>2, <1>2, <1>4, <1>5
  <2>. QED
    BY <2>1, <2>2, <1>4
<1>. QED
  BY <1>1, <1>4, <1>5 DEF Known, t

(* A session's messages are a prefix of what they become with one more. *)
LEMMA WithGrows ==
  ASSUME NEW s \in Sessions, NEW role \in {"user", "assistant"}, NEW m \in Messages
  PROVE  IsPrefix(s.messages, With(s, role, m).messages)
<1> DEFINE e == [role |-> role, of |-> m]
           q == s.messages
           t == Append(q, e)
           n == Len(q)
<1>1. With(s, role, m).messages = t /\ q \in Seq(Entries) /\ e \in Entries
  BY WithIs
<1> HIDE DEF q, e
<1>2. /\ n \in Nat /\ Len(t) = n + 1 /\ t \in Seq(Entries)
      /\ \A i \in 1 .. n : t[i] = q[i]
  BY <1>1, OneMore
<1> HIDE DEF t
<1>3. /\ SubSeq(q, 1, n) \in Seq(Entries) /\ Len(SubSeq(q, 1, n)) = n
      /\ \A i \in 1 .. n : SubSeq(q, 1, n)[i] = q[i]
  <2>1. \A i \in 1 .. n : q[i] \in Entries
    BY <1>1
  <2>. QED
    BY <2>1, <1>1, <1>2, SubSeqProperties
<1>4. /\ SubSeq(t, 1, n) \in Seq(Entries) /\ Len(SubSeq(t, 1, n)) = n
      /\ \A i \in 1 .. n : SubSeq(t, 1, n)[i] = t[i]
  <2>1. \A i \in 1 .. n : t[i] \in Entries
    BY <1>2
  <2>. QED
    BY <2>1, <1>2, SubSeqProperties
<1>5. SubSeq(q, 1, n) = SubSeq(t, 1, n)
  BY <1>2, <1>3, <1>4, SeqEqual
<1>6. IsPrefix(q, t)
  BY <1>2, <1>5 DEF IsPrefix
<1>. QED
  BY <1>1, <1>6 DEF q

(* What is there is there. *)
LEMMA PrefixOfItself ==
  ASSUME NEW q \in Seq(Entries)
  PROVE  IsPrefix(q, q)
  BY DEF IsPrefix

-----------------------------------------------------------------------------
(* The session manager *)

(* The object got is the cached one, or one the agent does not have; it    *)
(* holds what is on disk in both cases.                                    *)
LEMMA GotIsDisk ==
  ASSUME TypeOK, CacheIsDisk
  PROVE  /\ Got \in Objects
         /\ cached # 0 => Got = cached
         /\ cached = 0 => Got # held
         /\ Held(Got) = Loaded
         /\ Loaded \in Sessions
         /\ Loaded \in Live \cup {EmptySession}
         /\ disk # NoFile => Loaded = disk
<1>1. /\ (CHOOSE o \in Objects : o # held) \in Objects
      /\ (CHOOSE o \in Objects : o # held) # held
  <2>1. \E o \in Objects : o # held
    BY DEF Objects
  <2>. QED
    BY <2>1
<1>2. Got \in Objects /\ (cached # 0 => Got = cached) /\ (cached = 0 => Got # held)
  BY <1>1 DEF Got, CacheHit, TypeOK
<1>3. Held(Got) = Loaded
  BY <1>2 DEF Held, CacheHit, CacheIsDisk
<1>4. Loaded \in Sessions /\ Loaded \in Live \cup {EmptySession} /\ (disk # NoFile => Loaded = disk)
  BY EmptySessionType DEF Loaded, Live, TypeOK
<1>. QED
  BY <1>2, <1>3, <1>4

(* A save writes one session; no other comes to life. *)
LEMMA SaveStep ==
  ASSUME TypeOK, NEW o \in Objects, NEW s \in Sessions, Save(o, s), held' \in {0, held, o}
  PROVE  /\ object' \in [Objects -> Sessions]
         /\ object'[o] = s
         /\ \A p \in Objects \ {o} : object'[p] = object[p]
         /\ cached' = o /\ disk' = s /\ s # NoFile
         /\ CacheIsDisk'
         /\ Live' \subseteq Live \cup {s}
<1>1. object' = [object EXCEPT ![o] = s] /\ disk' = s /\ cached' = o
  BY DEF Save, CacheAfterSave
<1>2. /\ object' \in [Objects -> Sessions] /\ object'[o] = s
      /\ \A p \in Objects \ {o} : object'[p] = object[p]
  BY <1>1 DEF TypeOK
<1>3. s # NoFile
  BY NoFileAssumption
<1>4. CacheIsDisk'
  BY <1>1, <1>2, <1>3 DEF CacheIsDisk, Loaded
<1>5. Live' \subseteq Live \cup {s}
  <2>1. \A p \in {cached', held'} \ {0} : p = o \/ (p = held /\ p \in Objects \ {o})
    BY <1>1 DEF TypeOK
  <2>2. \A p \in {cached', held'} \ {0} : object'[p] \in Live \cup {s}
    BY <2>1, <1>2 DEF Live
  <2>. QED
    BY <2>2, <1>1 DEF Live
<1>. QED
  BY <1>1, <1>2, <1>3, <1>4, <1>5

(* Every session somebody has is a session. *)
LEMMA LiveAreSessions == TypeOK => Live \subseteq Sessions
  BY DEF TypeOK, Live

(* The agent's session is one of them. *)
LEMMA HeldIsLive ==
  ASSUME TypeOK, agent \in Working
  PROVE  held \in Objects /\ object[held] \in Live /\ object[held] \in Sessions
  BY DEF TypeOK, Live

-----------------------------------------------------------------------------
(* What a step keeps *)

(* What the first of a lane leaves behind, and what one more adds. *)
LEMMA LaneTail ==
  ASSUME NEW q \in Seq(Messages), q # <<>>
  PROVE  /\ Tail(q) \in Seq(Messages) /\ Head(q) = q[1] /\ 1 \in DOMAIN q
         /\ \A i \in DOMAIN Tail(q) : i + 1 \in DOMAIN q /\ i + 1 # 1 /\ Tail(q)[i] = q[i + 1]
<1> DEFINE t == Tail(q)
           n == Len(q)
<1>1. /\ t \in Seq(Messages) /\ n \in Nat /\ n > 0 /\ Len(t) = n - 1 /\ Head(q) = q[1]
      /\ \A i \in 1 .. n - 1 : t[i] = q[i + 1]
  BY HeadTailProperties, EmptySeq
<1>2. DOMAIN t = 1 .. n - 1 /\ DOMAIN q = 1 .. n
  BY <1>1, LenProperties
<1> HIDE DEF t, n
<1>. QED
  BY <1>1, <1>2 DEF t

(* A message that joins the end of a lane. *)
LEMMA LaneAppend ==
  ASSUME NEW q \in Seq(Messages), NEW m \in Messages
  PROVE  /\ Append(q, m) \in Seq(Messages)
         /\ \A i \in DOMAIN Append(q, m) : \/ i \in DOMAIN q /\ Append(q, m)[i] = q[i]
                                           \/ i = Len(q) + 1 /\ Append(q, m)[i] = m
<1> DEFINE t == Append(q, m)
           n == Len(q)
<1>1. /\ t \in Seq(Messages) /\ n \in Nat /\ Len(t) = n + 1 /\ t[n + 1] = m
      /\ \A i \in 1 .. n : t[i] = q[i]
  BY AppendProperties
<1>2. DOMAIN t = 1 .. n + 1 /\ DOMAIN q = 1 .. n
  BY <1>1, LenProperties
<1> HIDE DEF t
<1>3. \A i \in DOMAIN t : i \in DOMAIN q \/ i = n + 1
  BY <1>1, <1>2
<1>. QED
  BY <1>1, <1>2, <1>3 DEF t

(* A message that was answered stays answered: it is not sent, published or worked on again. *)
LEMMA AnsweredStays ==
  ASSUME TypeOK, LaneIsSent, Next, NEW m \in Messages, Answered(m)
  PROVE  Answered(m)'
<1>1. CASE Delete \/ Read
  BY <1>1 DEF Delete, Read, workVars, Answered
<1>2. CASE Stop \/ StopSaving
  BY <1>2 DEF Stop, StopSaving, Restart, Answered, TypeOK, Unanswered
<1>3. ASSUME NEW x \in Messages, SaveSent(x) PROVE Answered(m)'
  BY <1>3 DEF SaveSent, Move, workVars, Answered, TypeOK
<1>4. ASSUME NEW x \in Messages, Publish(x) PROVE Answered(m)'
  <2>1. at[x] \in {"saved", "unsent"} /\ at' = [at EXCEPT ![x] = "sent"]
    BY <1>4 DEF Publish, Move
  <2>2. lane' = Append(lane, x) /\ UNCHANGED <<agent, current>>
    BY <1>4 DEF Publish, workVars
  <2>3. x # m
    BY <2>1 DEF Answered
  <2>4. \A i \in DOMAIN lane' : lane'[i] # m
    BY <2>2, <2>3, LaneAppend DEF Answered, TypeOK
  <2>. QED
    BY <2>1, <2>2, <2>3, <2>4 DEF Answered, TypeOK
<1>5. CASE Begin
  <2>1. /\ lane # <<>> /\ current' = Head(lane) /\ lane' = Tail(lane) /\ agent' = "starting"
        /\ UNCHANGED at
    BY <1>5 DEF Begin
  <2>2. Head(lane) # m /\ \A i \in DOMAIN lane' : lane'[i] # m
    BY <2>1, LaneTail DEF Answered, TypeOK
  <2>. QED
    BY <2>1, <2>2 DEF Answered
<1>6. CASE Open \/ Note \/ Ask
  BY <1>6 DEF Open, Note, Ask, Answered, Unanswered
<1>7. CASE Reply \/ Consolidate \/ Summarise
  BY <1>7 DEF Reply, Consolidate, Summarise, Answered, Unanswered
<1>8. CASE Mark \/ End
  BY <1>8 DEF Mark, End, Answered, Unanswered, TypeOK
<1>. QED
  BY <1>1, <1>2, <1>3, <1>4, <1>5, <1>6, <1>7, <1>8 DEF Next

(* The order of questions and answers, when no more than one session x is new. *)
LEMMA TurnsStay ==
  ASSUME TypeOK, LaneIsSent, Turns, Next,
         NEW x \in Sessions, Live' \subseteq Live \cup {x}, InTurn(x), Known(x)'
  PROVE  Turns'
<1>1. \A m \in Messages : Answered(m) => Answered(m)'
  BY AnsweredStays
<1>2. ASSUME NEW s \in Live PROVE InTurn(s) /\ Known(s)'
  <2>1. InTurn(s) /\ Known(s) /\ s \in Sessions
    BY LiveAreSessions DEF Turns
  <2>2. \A i \in DOMAIN s.messages : s.messages[i].of \in Messages
    <3>1. s.messages \in Seq(Entries)
      BY <2>1 DEF Sessions
    <3>2. \A i \in DOMAIN s.messages : s.messages[i] \in Entries
      BY <3>1
    <3>. QED
      BY <3>2 DEF Entries
  <2>. QED
    BY <1>1, <2>1, <2>2 DEF Known
<1>3. \A s \in Live' : InTurn(s) /\ Known(s)'
  BY <1>2
<1>. QED
  BY <1>3 DEF Turns, InTurn

(* An answer stays known. *)
LEMMA KnownStays ==
  ASSUME TypeOK, LaneIsSent, Next, NEW s \in Sessions, Known(s)
  PROVE  Known(s)'
<1>1. \A m \in Messages : Answered(m) => Answered(m)'
  BY AnsweredStays
<1>2. \A i \in DOMAIN s.messages : s.messages[i].of \in Messages
  <2>1. s.messages \in Seq(Entries)
    BY DEF Sessions
  <2>2. \A i \in DOMAIN s.messages : s.messages[i] \in Entries
    BY <2>1
  <2>. QED
    BY <2>2 DEF Entries
<1>. QED
  BY <1>1, <1>2 DEF Known

(* What was consolidated, when no more than one session x is new. *)
LEMMA SoundStays ==
  ASSUME \A s \in Live : Sound(s), memory \subseteq memory',
         NEW x, Live' \subseteq Live \cup {x}, Sound(x)'
  PROVE  \A s \in Live' : Sound(s)'
<1>1. ASSUME NEW s \in Live PROVE Sound(s)'
  BY DEF Sound
<1>. QED
  BY <1>1

(* A session nothing was written to yet. *)
LEMMA EmptyIsFine ==
  /\ InTurn(EmptySession) /\ Known(EmptySession) /\ Known(EmptySession)'
  /\ Sound(EmptySession) /\ Sound(EmptySession)'
<1>1. EmptySession.messages = <<>> /\ EmptySession.consolidated = 0
  BY DEF EmptySession
<1>2. DOMAIN <<>> = {} /\ Len(<<>>) = 0 /\ 1 .. 0 = {}
  OBVIOUS
<1>. QED
  BY <1>1, <1>2 DEF InTurn, Known, Sound

-----------------------------------------------------------------------------
(* One lemma per action: it keeps the inductive invariant *)

(* It holds at the start. *)
LEMMA InitIInv == Init => IInv
<1> SUFFICES ASSUME Init PROVE IInv
  OBVIOUS
<1>1. TypeOK
  BY EmptySessionType DEF Init, TypeOK, Working
<1>2. Live = {}
  BY DEF Init, Live
<1>3. CacheIsDisk /\ HeldIsCached
  BY DEF Init, CacheIsDisk, HeldIsCached
<1>4. Counted /\ Turns
  BY <1>2 DEF Init, Counted, Turns
<1>5. LaneIsSent /\ ContextComplete
  BY DEF Init, LaneIsSent, ContextComplete
<1>. QED
  BY <1>1, <1>3, <1>4, <1>5 DEF IInv

(* A conversation is deleted: file and cache go together. *)
LEMMA DeleteStep ==
  ASSUME IInv, Delete
  PROVE  IInv'
<1>1. /\ disk' = NoFile /\ cached' = 0 /\ deletes' = deletes + 1
      /\ UNCHANGED <<at, lane, object, held, agent, current, history, total, memory, cut>>
  BY DEF Delete, workVars
<1>2. TypeOK
  BY DEF IInv
<1>3. TypeOK'
  BY <1>1, <1>2 DEF TypeOK
<1>4. Live' \subseteq Live
  BY <1>1 DEF Live
<1>5. CacheIsDisk' /\ HeldIsCached'
  BY <1>1, <1>2 DEF CacheIsDisk, HeldIsCached, TypeOK
<1>6. Counted'
  <2>1. ASSUME ~ cut PROVE \A s \in Live' : Sound(s)'
    BY <2>1, <1>1, <1>4 DEF IInv, Counted, Sound
  <2>. QED
    BY <2>1, <1>1 DEF IInv, Counted
<1>7. LaneIsSent' /\ ContextComplete'
  BY <1>1 DEF IInv, LaneIsSent, ContextComplete
<1>8. Turns'
  BY <1>1, <1>4 DEF IInv, Turns, Known, Answered, InTurn
<1>. QED
  BY <1>3, <1>5, <1>6, <1>7, <1>8 DEF IInv

(* The page reads a conversation, which may bring it into the cache. *)
LEMMA ReadStep ==
  ASSUME IInv, Read
  PROVE  IInv'
<1>1. /\ cached = 0 /\ cached' = Got /\ object' = [object EXCEPT ![Got] = Held(Got)]
      /\ UNCHANGED <<at, lane, held, disk, agent, current, history, total, memory, deletes, cut>>
  BY DEF Read, workVars
<1>2. TypeOK
  BY DEF IInv
<1>3. /\ Got \in Objects /\ Got # held /\ Held(Got) = Loaded /\ Loaded \in Sessions
      /\ Loaded \in Live \cup {EmptySession}
  BY <1>1, GotIsDisk DEF IInv
<1>4. /\ object' \in [Objects -> Sessions] /\ object'[Got] = Loaded
      /\ \A o \in Objects \ {Got} : object'[o] = object[o]
  BY <1>1, <1>2, <1>3 DEF TypeOK
<1>5. held # 0 => object'[held] = object[held]
  BY <1>2, <1>3, <1>4 DEF TypeOK
<1>6. TypeOK'
  BY <1>1, <1>2, <1>3, <1>4 DEF TypeOK
<1>7. Live' \subseteq Live \cup {EmptySession}
  <2>1. \A o \in {cached', held'} \ {0} : object'[o] \in Live \cup {EmptySession}
    BY <1>1, <1>3, <1>4, <1>5 DEF Live
  <2>. QED
    BY <2>1, <1>1 DEF Live
<1>8. CacheIsDisk' /\ HeldIsCached'
  BY <1>1, <1>3, <1>4 DEF CacheIsDisk, Loaded, HeldIsCached, IInv
<1>9. Counted'
  <2>1. ASSUME ~ cut PROVE \A s \in Live' : Sound(s)'
    BY <2>1, <1>1, <1>7, SoundStays, EmptyIsFine DEF IInv, Counted
  <2>2. agent \in {"summarising", "marking"} => object'[held] = object[held]
    BY <1>2, <1>5 DEF TypeOK, Working
  <2>. QED
    BY <2>1, <2>2, <1>1 DEF IInv, Counted
<1>10. LaneIsSent'
  BY <1>1 DEF IInv, LaneIsSent
<1>11. ContextComplete'
  <2>1. agent = "thinking" => object'[held] = object[held]
    BY <1>2, <1>5 DEF TypeOK, Working
  <2>. QED
    BY <2>1, <1>1 DEF IInv, ContextComplete
<1>12. Turns'
  BY <1>7, TurnsStay, EmptyIsFine, EmptySessionType DEF IInv, Next
<1>. QED
  BY <1>6, <1>8, <1>9, <1>10, <1>11, <1>12 DEF IInv

(* What a stop within a save leaves of a session is in order if the session was. *)
LEMMA CutIs ==
  ASSUME NEW s \in Sessions, NEW t \in Cuts(s)
  PROVE  t \in Sessions /\ (InTurn(s) => InTurn(t)) /\ (Known(s) => Known(t))
<1>1. CASE t = EmptySession
  BY <1>1, EmptyIsFine, EmptySessionType
<1>2. ASSUME NEW k \in 0 .. Len(s.messages) - 1, t = [s EXCEPT !.messages = SubSeq(s.messages, 1, k)]
      PROVE  t \in Sessions /\ (InTurn(s) => InTurn(t)) /\ (Known(s) => Known(t))
  <2> DEFINE q == s.messages
             p == SubSeq(q, 1, k)
  <2>1. q \in Seq(Entries)
    BY DEF Sessions
  <2>2. k \in 0 .. Len(q) - 1 /\ Len(q) \in Nat
    BY <2>1, LenProperties
  <2> HIDE DEF q
  <2>3. \A i \in 1 .. k : q[i] \in Entries
    BY <2>1, <2>2
  <2>4. p \in Seq(Entries) /\ Len(p) = k /\ \A i \in 1 .. k : p[i] = q[i]
    BY <2>1, <2>2, <2>3, SubSeqProperties
  <2>5. DOMAIN p = 1 .. k /\ DOMAIN q = 1 .. Len(q)
    BY <2>1, <2>4, LenProperties
  <2> HIDE DEF p
  <2>6. \A i \in DOMAIN p : i \in DOMAIN q /\ p[i] = q[i]
    BY <2>2, <2>4, <2>5
  <2>7. t \in Sessions /\ t.messages = p
    BY <1>2, <2>4 DEF Sessions, p, q
  <2>8. ASSUME InTurn(s) PROVE InTurn(t)
    <3>1. \A i, j \in DOMAIN q :
            q[i].role = "assistant" /\ q[j].role = "user" /\ q[i].of = q[j].of => j < i
      BY <2>8 DEF InTurn, q
    <3>. QED
      BY <3>1, <2>6, <2>7 DEF InTurn
  <2>9. ASSUME Known(s) PROVE Known(t)
    <3>1. \A i \in DOMAIN q : q[i].role = "assistant" => Answered(q[i].of)
      BY <2>9 DEF Known, q
    <3>. QED
      BY <3>1, <2>6, <2>7 DEF Known
  <2>. QED
    BY <2>7, <2>8, <2>9
<1>. QED
  BY <1>1, <1>2 DEF Cuts

(* A stop leaves the file, or what a save had written of it. *)
LEMMA RestartStep ==
  ASSUME IInv, Stop \/ StopSaving
  PROVE  IInv'
<1>1. /\ cached' = 0 /\ held' = 0 /\ agent' = "idle" /\ total' = 0 /\ lane' = <<>>
      /\ at' = [m \in Messages |-> IF at[m] = "unsent" THEN "unsent" ELSE "over"]
      /\ UNCHANGED <<object, current, memory, deletes>>
  BY DEF Stop, StopSaving, Restart
<1>2. TypeOK
  BY DEF IInv
<1>3. ASSUME StopSaving
      PROVE  disk' \in Sessions /\ InTurn(disk') /\ Known(disk')
  <2>1. CASE Saving /\ disk # NoFile /\ disk' \in Cuts(disk)
    <3>1. disk \in Sessions /\ InTurn(disk) /\ Known(disk)
      BY <2>1, <1>2 DEF TypeOK, IInv, Turns, Live
    <3>. QED
      BY <2>1, <3>1, CutIs
  <2>2. CASE agent = "marking" /\ disk' \in Cuts([object[held] EXCEPT !.consolidated = CountedBefore])
    <3> DEFINE s == object[held]
               u == [s EXCEPT !.consolidated = CountedBefore]
    <3>1. s \in Live /\ s \in Sessions
      BY <2>2, <1>2, HeldIsLive DEF Working
    <3>2. InTurn(s) /\ Known(s)
      BY <3>1 DEF IInv, Turns
    <3>3. CountedBefore \in Nat
      BY <1>2 DEF TypeOK, CountedBefore
    <3> HIDE DEF s
    <3>4. u \in Sessions /\ u.messages = s.messages
      BY <3>1, <3>3 DEF Sessions
    <3>5. InTurn(u) /\ Known(u)
      BY <3>2, <3>4 DEF InTurn, Known
    <3>6. disk' \in Cuts(u)
      BY <2>2 DEF s
    <3> HIDE DEF u
    <3>. QED
      BY <3>4, <3>5, <3>6, CutIs
  <2>. QED
    BY <1>3, <2>1, <2>2 DEF StopSaving
<1>4. TypeOK'
  <2>1. disk' \in Sessions \cup {NoFile}
    BY <1>2, <1>3 DEF Stop, TypeOK
  <2>. QED
    BY <2>1, <1>1, <1>2 DEF TypeOK, Working
<1>5. CacheIsDisk' /\ HeldIsCached' /\ LaneIsSent' /\ ContextComplete'
  BY <1>1 DEF CacheIsDisk, HeldIsCached, LaneIsSent, ContextComplete
<1>6. Live' = {disk'} \ {NoFile}
  BY <1>1 DEF Live
<1>7. CASE Stop
  <2>1. UNCHANGED <<disk, cut>>
    BY <1>7 DEF Stop
  <2>2. Live' \subseteq Live
    BY <1>6, <2>1 DEF Live
  <2>3. Counted'
    BY <1>1, <2>1, <2>2 DEF Counted, Sound, IInv
  <2>4. Turns'
    <3>1. Live' \subseteq Live \cup {EmptySession} /\ Next
      BY <2>2, <1>7 DEF Next
    <3>. QED
      BY <3>1, TurnsStay, EmptyIsFine, EmptySessionType DEF IInv
  <2>. QED
    BY <2>3, <2>4, <1>4, <1>5 DEF IInv
<1>8. CASE StopSaving
  <2>1. PICK t : t = disk'
    OBVIOUS
  <2>2. Counted'
    BY <1>8 DEF StopSaving, Counted
  <2>3. t \in Sessions /\ InTurn(t) /\ Known(t) /\ Live' \subseteq Live \cup {t} /\ Next
    BY <2>1, <1>3, <1>6, <1>8 DEF Next
  <2>4. Known(t)'
    BY <2>3, KnownStays DEF IInv
  <2>5. Turns'
    BY <2>3, <2>4, TurnsStay DEF IInv
  <2>. QED
    BY <2>2, <2>5, <1>4, <1>5 DEF IInv
<1>. QED
  BY <1>7, <1>8

(* A message of the HTTP route is saved, maybe in the session the agent works on. *)
LEMMA SaveSentStep ==
  ASSUME IInv, NEW m \in Messages, SaveSent(m)
  PROVE  IInv'
<1>0. PICK x : x = With(Loaded, "user", m)
  OBVIOUS
<1>1. TypeOK /\ CacheIsDisk /\ LaneIsSent /\ Turns
  BY DEF IInv
<1>2. /\ Got \in Objects /\ Held(Got) = Loaded /\ Loaded \in Sessions
      /\ Loaded \in Live \cup {EmptySession}
      /\ cached # 0 => Got = cached
      /\ cached = 0 => Got # held
  BY <1>1, GotIsDisk
<1>3. /\ Save(Got, x) /\ at[m] = "unsent" /\ at' = [at EXCEPT ![m] = "saved"]
      /\ UNCHANGED <<lane, held, agent, current, history, total, memory, deletes, cut>>
  BY <1>0, <1>2 DEF SaveSent, Move, workVars
<1>4. x \in Sessions
  BY <1>0, <1>2, WithType
<1>5. /\ object' \in [Objects -> Sessions]
      /\ object'[Got] = x
      /\ \A p \in Objects \ {Got} : object'[p] = object[p]
      /\ cached' = Got /\ disk' = x /\ x # NoFile
      /\ CacheIsDisk'
      /\ Live' \subseteq Live \cup {x}
  BY <1>1, <1>2, <1>3, <1>4, SaveStep
<1>6. ~ Answered(m)
  BY <1>3 DEF Answered
<1>7. held # 0 => \/ object'[held] = object[held]
                  \/ Got = held /\ Loaded = object[held] /\ object'[held] = With(object[held], "user", m)
  <2>1. CASE Got = held
    <3>1. held # 0 => cached = held
      BY <2>1, <1>1, <1>2 DEF TypeOK
    <3>2. held # 0 => Loaded = object[held]
      BY <3>1, <1>1 DEF CacheIsDisk
    <3>. QED
      BY <2>1, <3>2, <1>0, <1>5
  <2>2. CASE Got # held
    BY <2>2, <1>1, <1>5 DEF TypeOK
  <2>. QED
    BY <2>1, <2>2
<1>8. TypeOK'
  BY <1>1, <1>2, <1>3, <1>4, <1>5 DEF TypeOK
<1>9. HeldIsCached'
  BY <1>1, <1>2, <1>3, <1>5 DEF IInv, HeldIsCached
<1>10. LaneIsSent'
  <2>1. \A i \in DOMAIN lane : lane[i] \in Messages /\ lane[i] # m
    BY <1>1, <1>3 DEF LaneIsSent, TypeOK
  <2>2. agent # "idle" => current # m
    BY <1>1, <1>3 DEF LaneIsSent
  <2>. QED
    BY <2>1, <2>2, <1>1, <1>3 DEF LaneIsSent, TypeOK
<1>11. Known(Loaded) /\ InTurn(Loaded)
  BY <1>1, <1>2, EmptyIsFine DEF Turns
<1>12. InTurn(x) /\ Known(x)'
  <2>1. InTurn(x) /\ Known(x)
    BY <1>0, <1>2, <1>6, <1>11, WithTurn, WithKnown
  <2>2. Next
    BY DEF Next
  <2>. QED
    BY <2>1, <2>2, <1>1, <1>4, KnownStays
<1>13. Turns'
  <2>1. Next
    BY DEF Next
  <2>. QED
    BY <2>1, <1>1, <1>4, <1>5, <1>12, TurnsStay
<1>14. Counted'
  <2> SUFFICES ASSUME ~ cut PROVE Counted'
    BY <1>3 DEF Counted
  <2>1. \A s \in Live : Sound(s)
    BY DEF IInv, Counted
  <2>2. Sound(x)
    <3>1. Sound(Loaded)
      BY <2>1, <1>2, EmptyIsFine
    <3>. QED
      BY <3>1, <1>0, <1>2, WithSound
  <2>3. Sound(x)'
    BY <2>2, <1>3 DEF Sound
  <2>4. \A s \in Live' : Sound(s)'
    <3>1. memory \subseteq memory'
      BY <1>3
    <3>. QED
      BY <3>1, <2>1, <2>3, <1>5, SoundStays
  <2>5. ASSUME agent \in {"summarising", "marking"}
        PROVE  /\ object'[held].consolidated = object[held].consolidated
               /\ \A t \in Nat : t <= Len(object[held].messages) => t <= Len(object'[held].messages)
               /\ \A t \in Nat : t <= Len(object[held].messages) =>
                     \A k \in 1 .. t : object'[held].messages[k] = object[held].messages[k]
    <3>1. held # 0 /\ object[held] \in Sessions
      BY <2>5, <1>1 DEF TypeOK, Working
    <3>2. CASE object'[held] = object[held]
      BY <3>2
    <3>3. CASE object'[held] = With(object[held], "user", m)
      <4> DEFINE q == object[held].messages
                 e == [role |-> "user", of |-> m]
      <4>1. /\ object'[held].messages = Append(q, e) /\ q \in Seq(Entries) /\ e \in Entries
            /\ object'[held].consolidated = object[held].consolidated
        BY <3>1, <3>3, WithIs
      <4> HIDE DEF q, e
      <4>2. /\ Len(q) \in Nat /\ Len(Append(q, e)) = Len(q) + 1
            /\ \A i \in 1 .. Len(q) : Append(q, e)[i] = q[i]
        BY <4>1, OneMore
      <4>3. \A t \in Nat : t <= Len(q) => /\ t <= Len(Append(q, e))
                                          /\ \A k \in 1 .. t : Append(q, e)[k] = q[k]
        BY <4>2
      <4>. QED
        BY <4>1, <4>3 DEF q
    <3>. QED
      BY <3>1, <3>2, <3>3, <1>7
  <2>6. agent = "summarising" =>
          object'[held].consolidated <= total /\ total <= Len(object'[held].messages)
    BY <2>5, <1>1 DEF IInv, Counted, TypeOK
  <2>7. agent = "marking" =>
          /\ total <= Len(object'[held].messages)
          /\ \A k \in 1 .. total : object'[held].messages[k] \in memory
    BY <2>5, <1>1 DEF IInv, Counted, TypeOK
  <2>. QED
    BY <2>4, <2>6, <2>7, <1>3 DEF Counted
<1>15. ContextComplete'
  <2> SUFFICES ASSUME agent = "thinking" PROVE ContextComplete'
    BY <1>3 DEF ContextComplete
  <2>1. held # 0 /\ object[held] \in Sessions /\ object[held] \in Live
    BY <1>1 DEF TypeOK, Working, Live
  <2>2. CASE object'[held] = object[held]
    BY <2>2, <1>3 DEF IInv, ContextComplete
  <2>3. CASE object'[held] = With(object[held], "user", m)
    <3> DEFINE q == object[held].messages
               u == [role |-> "user", of |-> m]
               w == Append(q, u)
               reply(e) == [role |-> "assistant", of |-> e.of]
    <3>1. object'[held].messages = w /\ q \in Seq(Entries) /\ u \in Entries /\ u.of = m
      BY <2>1, <2>3, WithIs
    <3>2. \A i \in DOMAIN q : q[i].role = "assistant" => q[i].of # m
      BY <2>1, <1>1, <1>6 DEF Turns, Known
    <3>3. \A i \in DOMAIN q : reply(q[i]) \in ToSet(q) =>
            q[i] \in ToSet(history) \/ Len(q) - i >= MaxMessages
      BY DEF IInv, ContextComplete
    <3>4. \A e : reply(e).role = "assistant" /\ reply(e).of = e.of /\ reply(e) # u
      OBVIOUS
    <3> HIDE DEF q, u, reply
    <3>5. /\ Len(q) \in Nat /\ DOMAIN q = 1 .. Len(q) /\ DOMAIN w = 1 .. Len(q) + 1
          /\ Len(w) = Len(q) + 1 /\ w[Len(q) + 1] = u
          /\ \A i \in 1 .. Len(q) : w[i] = q[i]
      BY <3>1, OneMore
    <3> HIDE DEF w
    <3>6. \A y \in ToSet(w) : y = u \/ y \in ToSet(q)
      <4>1. ASSUME NEW i \in 1 .. Len(q) + 1 PROVE w[i] = u \/ w[i] \in ToSet(q)
        BY <3>5 DEF ToSet
      <4>. QED
        BY <4>1, <3>5 DEF ToSet
    <3>7. ASSUME NEW i \in DOMAIN w, reply(w[i]) \in ToSet(w)
          PROVE  w[i] \in ToSet(history) \/ Len(w) - i >= MaxMessages
      <4>1. reply(w[i]) \in ToSet(q)
        BY <3>4, <3>6, <3>7
      <4>2. w[i].of # m
        BY <4>1, <3>2, <3>4 DEF ToSet
      <4>3. i \in DOMAIN q /\ w[i] = q[i]
        BY <4>2, <3>1, <3>5
      <4>4. q[i] \in ToSet(history) \/ Len(q) - i >= MaxMessages
        BY <4>1, <4>3, <3>3
      <4>. QED
        BY <4>3, <4>4, <3>5, MaxMessagesAssumption
    <3>. QED
      BY <3>1, <3>7, <1>3 DEF ContextComplete, reply
  <2>. QED
    BY <2>1, <2>2, <2>3, <1>7
<1>. QED
  BY <1>5, <1>8, <1>9, <1>10, <1>13, <1>14, <1>15 DEF IInv

(* The steps that write no session. *)
LEMMA NothingWritten ==
  ASSUME IInv, Next, UNCHANGED <<object, cached, disk, deletes, cut>>,
         held' \in {0, held}, memory \subseteq memory'
  PROVE  /\ CacheIsDisk' /\ HeldIsCached' /\ Turns' /\ Live' \subseteq Live
         /\ ~ cut => \A s \in Live' : Sound(s)'
<1>1. TypeOK /\ CacheIsDisk /\ HeldIsCached /\ LaneIsSent /\ Turns
  BY DEF IInv
<1>2. Live' \subseteq Live
  BY DEF Live
<1>3. CacheIsDisk' /\ HeldIsCached'
  BY <1>1 DEF CacheIsDisk, Loaded, HeldIsCached
<1>4. Turns'
  <2>1. Live' \subseteq Live \cup {EmptySession}
    BY <1>2
  <2>. QED
    BY <2>1, <1>1, TurnsStay, EmptyIsFine, EmptySessionType
<1>5. ASSUME ~ cut PROVE \A s \in Live' : Sound(s)'
  <2>1. Live' \subseteq Live \cup {EmptySession} /\ \A s \in Live : Sound(s)
    BY <1>2, <1>5 DEF IInv, Counted
  <2>. QED
    BY <2>1, SoundStays, EmptyIsFine
<1>. QED
  BY <1>2, <1>3, <1>4, <1>5

(* A message is published: nothing of a session changes. *)
LEMMA PublishStep ==
  ASSUME IInv, NEW m \in Messages, Publish(m)
  PROVE  IInv'
<1>1. /\ at[m] \in {"saved", "unsent"} /\ at' = [at EXCEPT ![m] = "sent"]
      /\ lane' = Append(lane, m)
      /\ UNCHANGED <<object, cached, held, disk, agent, current, history, total, memory, deletes, cut>>
  BY DEF Publish, Move, sessionVars, workVars
<1>2. TypeOK /\ LaneIsSent
  BY DEF IInv
<1>3. /\ lane' \in Seq(Messages)
      /\ \A i \in DOMAIN lane' : \/ i \in DOMAIN lane /\ lane'[i] = lane[i]
                                 \/ i = Len(lane) + 1 /\ lane'[i] = m
  BY <1>1, <1>2, LaneAppend DEF TypeOK
<1>4. \A i \in DOMAIN lane : lane[i] # m /\ lane[i] \in Messages
  BY <1>1, <1>2 DEF LaneIsSent, TypeOK
<1>5. agent # "idle" => current # m /\ current \in Messages
  BY <1>1, <1>2 DEF LaneIsSent, TypeOK
<1>6. TypeOK'
  BY <1>1, <1>2, <1>3 DEF TypeOK
<1>7. LaneIsSent'
  <2>1. \A i, j \in DOMAIN lane' : lane'[i] = lane'[j] => i = j
    BY <1>2, <1>3, <1>4 DEF LaneIsSent
  <2>2. \A i \in DOMAIN lane' : at'[lane'[i]] = "sent"
    BY <1>1, <1>2, <1>3, <1>4 DEF LaneIsSent, TypeOK
  <2>3. agent # "idle" => at'[current] = "sent" /\ \A i \in DOMAIN lane' : lane'[i] # current
    BY <1>1, <1>2, <1>3, <1>5 DEF LaneIsSent, TypeOK
  <2>. QED
    BY <2>1, <2>2, <2>3, <1>1 DEF LaneIsSent
<1>8. /\ CacheIsDisk' /\ HeldIsCached' /\ Turns'
      /\ ~ cut => \A s \in Live' : Sound(s)'
  BY <1>1, NothingWritten DEF Next
<1>9. Counted' /\ ContextComplete'
  BY <1>1, <1>8 DEF Counted, ContextComplete, IInv
<1>. QED
  BY <1>6, <1>7, <1>8, <1>9 DEF IInv

(* The agent takes the next message of its lane. *)
LEMMA BeginStep ==
  ASSUME IInv, Begin
  PROVE  IInv'
<1>1. /\ agent = "idle" /\ lane # <<>> /\ current' = Head(lane) /\ lane' = Tail(lane)
      /\ agent' = "starting"
      /\ UNCHANGED <<at, object, cached, held, disk, history, total, memory, deletes, cut>>
  BY DEF Begin, sessionVars
<1>2. TypeOK /\ LaneIsSent
  BY DEF IInv
<1>3. /\ lane' \in Seq(Messages) /\ current' = lane[1] /\ 1 \in DOMAIN lane /\ current' \in Messages
      /\ \A i \in DOMAIN lane' : i + 1 \in DOMAIN lane /\ i + 1 # 1 /\ lane'[i] = lane[i + 1]
  BY <1>1, <1>2, LaneTail DEF TypeOK
<1>4. TypeOK'
  BY <1>1, <1>2, <1>3 DEF TypeOK, Working
<1>5. LaneIsSent'
  <2>1. \A i, j \in DOMAIN lane' : lane'[i] = lane'[j] => i = j
    <3> SUFFICES ASSUME NEW i \in DOMAIN lane', NEW j \in DOMAIN lane', lane'[i] = lane'[j]
                 PROVE  i = j
      OBVIOUS
    <3>1. i + 1 = j + 1
      BY <1>2, <1>3 DEF LaneIsSent
    <3>2. i \in Int /\ j \in Int
      BY <1>3, LenProperties
    <3>. QED
      BY <3>1, <3>2
  <2>2. \A i \in DOMAIN lane' : at'[lane'[i]] = "sent"
    BY <1>1, <1>2, <1>3 DEF LaneIsSent
  <2>3. at'[current'] = "sent" /\ \A i \in DOMAIN lane' : lane'[i] # current'
    BY <1>1, <1>2, <1>3 DEF LaneIsSent
  <2>. QED
    BY <2>1, <2>2, <2>3 DEF LaneIsSent
<1>6. /\ CacheIsDisk' /\ HeldIsCached' /\ Turns'
      /\ ~ cut => \A s \in Live' : Sound(s)'
  BY <1>1, NothingWritten DEF Next
<1>7. Counted' /\ ContextComplete'
  BY <1>1, <1>6 DEF Counted, ContextComplete
<1>. QED
  BY <1>4, <1>5, <1>6, <1>7 DEF IInv

(* The agent gets the session from the cache or the disk. *)
LEMMA OpenStep ==
  ASSUME IInv, Open
  PROVE  IInv'
<1>1. /\ agent = "starting" /\ held' = Got /\ agent' \in {"clearing", "reading"}
      /\ UNCHANGED <<at, lane, current, history, total, memory, deletes, cut>>
  BY DEF Open
<1>2. TypeOK /\ CacheIsDisk /\ LaneIsSent /\ Turns /\ Next
  BY DEF IInv, Next
<1>3. /\ Got \in Objects /\ Held(Got) = Loaded /\ Loaded \in Sessions
      /\ Loaded \in Live \cup {EmptySession}
  BY <1>2, GotIsDisk
<1>4. PICK x \in Live \cup {EmptySession} :
        /\ object' \in [Objects -> Sessions] /\ object'[Got] = x
        /\ cached' = Got /\ disk' \in Sessions \cup {NoFile}
        /\ CacheIsDisk' /\ Live' \subseteq Live \cup {x}
  <2>1. CASE kind[current] = "new"
    <3>1. Save(Got, EmptySession)
      BY <2>1 DEF Open, Cleared
    <3>2. /\ object' \in [Objects -> Sessions] /\ object'[Got] = EmptySession
          /\ cached' = Got /\ disk' = EmptySession
          /\ CacheIsDisk' /\ Live' \subseteq Live \cup {EmptySession}
      BY <3>1, <1>1, <1>2, <1>3, SaveStep, EmptySessionType
    <3>. QED
      BY <3>2, EmptySessionType
  <2>2. CASE kind[current] # "new"
    <3>1. cached' = Got /\ object' = [object EXCEPT ![Got] = Loaded] /\ UNCHANGED disk
      BY <2>2, <1>3 DEF Open
    <3>2. object' \in [Objects -> Sessions] /\ object'[Got] = Loaded
      BY <3>1, <1>2, <1>3 DEF TypeOK
    <3>3. CacheIsDisk'
      BY <3>1, <3>2, <1>3 DEF CacheIsDisk, Loaded
    <3>4. Live' \subseteq Live \cup {Loaded}
      BY <3>1, <3>2, <1>1 DEF Live
    <3>. QED
      BY <3>1, <3>2, <3>3, <3>4, <1>2, <1>3 DEF TypeOK
  <2>. QED
    BY <2>1, <2>2
<1>5. x \in Sessions /\ InTurn(x) /\ Known(x)'
  <2>1. x \in Sessions
    BY <1>2, LiveAreSessions, EmptySessionType
  <2>2. InTurn(x) /\ Known(x)
    BY <1>2, EmptyIsFine DEF Turns
  <2>. QED
    BY <2>1, <2>2, <1>2, KnownStays
<1>6. TypeOK'
  BY <1>1, <1>2, <1>3, <1>4 DEF TypeOK, Working, Objects
<1>7. HeldIsCached'
  BY <1>1, <1>4 DEF HeldIsCached
<1>8. Counted'
  <2> SUFFICES ASSUME ~ cut PROVE \A s \in Live' : Sound(s)'
    BY <1>1 DEF Counted
  <2>1. (\A s \in Live : Sound(s)) /\ Sound(x)
    BY EmptyIsFine DEF IInv, Counted
  <2>2. Sound(x)' /\ memory \subseteq memory'
    BY <2>1, <1>1 DEF Sound
  <2>. QED
    BY <2>1, <2>2, <1>4, SoundStays
<1>9. LaneIsSent' /\ ContextComplete'
  BY <1>1, <1>2 DEF LaneIsSent, ContextComplete
<1>10. Turns'
  BY <1>2, <1>4, <1>5, TurnsStay
<1>. QED
  BY <1>4, <1>6, <1>7, <1>8, <1>9, <1>10 DEF IInv

(* The agent saves the current message, or its answer, in the session it has. *)
LEMMA AgentSaves ==
  ASSUME IInv, Next, NEW role \in {"user", "assistant"}, NEW x, x = With(object[held], role, current),
         Save(held, x), agent \in Working, agent' \in {"noting", "replying"},
         role = "user" => agent \in Unanswered,
         role = "assistant" => agent' = "replying",
         UNCHANGED <<at, lane, held, current, history, total, memory, deletes, cut>>
  PROVE  IInv'
<1>1. TypeOK /\ CacheIsDisk /\ LaneIsSent /\ Turns
  BY DEF IInv
<1>2. held \in Objects /\ object[held] \in Live /\ object[held] \in Sessions /\ current \in Messages
  BY <1>1, HeldIsLive DEF TypeOK
<1>3. x \in Sessions
  BY <1>2, WithType
<1>4. /\ object' \in [Objects -> Sessions] /\ object'[held] = x
      /\ cached' = held /\ disk' = x /\ CacheIsDisk' /\ Live' \subseteq Live \cup {x}
  BY <1>1, <1>2, <1>3, SaveStep
<1>5. TypeOK'
  BY <1>1, <1>2, <1>3, <1>4 DEF TypeOK, Working
<1>6. HeldIsCached' /\ LaneIsSent' /\ ContextComplete'
  BY <1>1, <1>4 DEF HeldIsCached, LaneIsSent, ContextComplete, Working
<1>7. Counted'
  <2> SUFFICES ASSUME ~ cut PROVE \A s \in Live' : Sound(s)'
    BY DEF Counted
  <2>1. \A s \in Live : Sound(s)
    BY DEF IInv, Counted
  <2>2. Sound(x)
    BY <2>1, <1>2, WithSound
  <2>3. Sound(x)' /\ memory \subseteq memory'
    BY <2>2 DEF Sound
  <2>. QED
    BY <2>1, <2>3, <1>4, SoundStays
<1>8. InTurn(x) /\ Known(x)'
  <2>1. InTurn(object[held]) /\ Known(object[held])
    BY <1>1, <1>2 DEF Turns
  <2>2. role = "user" => ~ Answered(current)
    BY DEF Answered
  <2>3. InTurn(x)
    BY <2>1, <2>2, <1>2, WithTurn
  <2>4. Known(x)'
    <3>1. CASE role = "user"
      <4>1. Known(x)
        BY <2>1, <3>1, <1>2, WithKnown
      <4>. QED
        BY <4>1, <1>1, <1>3, KnownStays
    <3>2. CASE role = "assistant"
      <4>1. Answered(current)'
        BY <3>2, <1>1 DEF Answered, LaneIsSent, Unanswered, Working
      <4>2. PICK s : s = object[held]
        OBVIOUS
      <4>3. Known(s)' /\ s \in Sessions /\ x = With(s, role, current)
        BY <4>2, <2>1, <1>1, <1>2, KnownStays
      <4>4. Known(x)'
        <5>1. PICK c : c = current
          OBVIOUS
        <5> DEFINE q == s.messages
                   e == [role |-> role, of |-> c]
                   n == Len(q)
        <5>2. x.messages = Append(q, e) /\ q \in Seq(Entries) /\ e \in Entries
          BY <4>3, <5>1, <1>2, WithIs
        <5>3. \A i \in DOMAIN q : q[i].role = "assistant" => Answered(q[i].of)'
          BY <4>3 DEF Known
        <5>4. e.of = c /\ Answered(c)'
          BY <4>1, <5>1 DEF Answered
        <5> HIDE DEF q, e
        <5>5. /\ n \in Nat /\ DOMAIN q = 1 .. n /\ DOMAIN Append(q, e) = 1 .. n + 1
              /\ Append(q, e)[n + 1] = e
              /\ \A i \in 1 .. n : Append(q, e)[i] = q[i]
          BY <5>2, OneMore
        <5> HIDE DEF n
        <5>6. ASSUME NEW i \in 1 .. n + 1, Append(q, e)[i].role = "assistant"
              PROVE  Answered(Append(q, e)[i].of)'
          <6>1. CASE i = n + 1
            BY <6>1, <5>4, <5>5
          <6>2. CASE i \in 1 .. n
            BY <6>2, <5>3, <5>5, <5>6
          <6>. QED
            BY <6>1, <6>2, <5>5
        <5>. QED
          BY <5>2, <5>5, <5>6 DEF Known
      <4>. QED
        BY <4>4
    <3>. QED
      BY <3>1, <3>2
  <2>. QED
    BY <2>3, <2>4
<1>9. Turns'
  BY <1>1, <1>3, <1>4, <1>8, TurnsStay
<1>. QED
  BY <1>4, <1>5, <1>6, <1>7, <1>9 DEF IInv

(* The question is saved. *)
LEMMA NoteStep ==
  ASSUME IInv, Note
  PROVE  IInv'
<1>1. PICK x : x = With(object[held], "user", current)
  OBVIOUS
<1>2. /\ Save(held, x) /\ agent = "reading" /\ agent' = "noting"
      /\ UNCHANGED <<at, lane, held, current, history, total, memory, deletes, cut>>
  BY <1>1 DEF Note
<1>3. Next /\ agent \in Working /\ agent \in Unanswered
  BY <1>2 DEF Next, Working, Unanswered
<1>. QED
  BY <1>1, <1>2, <1>3, AgentSaves

(* The answer is saved. *)
LEMMA ReplyStep ==
  ASSUME IInv, Reply
  PROVE  IInv'
<1>1. PICK x : x = With(object[held], "assistant", current)
  OBVIOUS
<1>2. /\ Save(held, x) /\ agent = "thinking" /\ agent' = "replying"
      /\ UNCHANGED <<at, lane, held, current, history, total, memory, deletes, cut>>
  BY <1>1 DEF Reply
<1>3. Next /\ agent \in Working
  BY <1>2 DEF Next, Working
<1>. QED
  BY <1>1, <1>2, <1>3, AgentSaves

(* The history leaves out at most the last entry, and that only if it is a question. *)
LEMMA HistoryMisses ==
  ASSUME NEW q \in Seq(Entries), NEW i \in DOMAIN q, q[i] \notin ToSet(HistoryFor(q))
  PROVE  /\ q[i].role = "user"
         /\ \A j \in DOMAIN q : j <= i
<1> DEFINE n == Len(q)
           p == SubSeq(q, 1, n - 1)
<1>1. n \in Nat /\ DOMAIN q = 1 .. n
  BY LenProperties
<1>2. CASE q # <<>> /\ Last(q).role = "user"
  <2>1. HistoryFor(q) = p /\ q[n].role = "user" /\ n # 0
    BY <1>2, EmptySeq DEF HistoryFor, Front, Last
  <2>2. \A k \in 1 .. n - 1 : q[k] \in Entries
    BY <1>1
  <2>3. p \in Seq(Entries) /\ Len(p) = n - 1 /\ \A k \in 1 .. n - 1 : p[k] = q[k]
    BY <2>1, <2>2, <1>1, SubSeqProperties
  <2>4. DOMAIN p = 1 .. n - 1
    BY <2>3, LenProperties
  <2> HIDE DEF p, n
  <2>5. i = n
    <3> SUFFICES ASSUME i # n PROVE FALSE
      OBVIOUS
    <3>1. i \in DOMAIN p /\ p[i] = q[i]
      BY <1>1, <2>3, <2>4
    <3>. QED
      BY <3>1, <2>1 DEF ToSet
  <2>. QED
    BY <2>1, <2>5, <1>1
<1>3. CASE ~ (q # <<>> /\ Last(q).role = "user")
  BY <1>3 DEF HistoryFor, ToSet
<1>. QED
  BY <1>2, <1>3

(* What get_history returns: the end of the session, with all of the last max_messages. *)
LEMMA RecentIs ==
  ASSUME NEW q \in Seq(Entries)
  PROVE  /\ Recent(q) \in Seq(Entries)
         /\ \E d \in Nat :
              /\ Len(q) = Len(Recent(q)) + d
              /\ \A i \in DOMAIN q : i > d \/ Len(q) - i >= MaxMessages
              /\ \A i \in DOMAIN Recent(q) : i + d \in DOMAIN q /\ Recent(q)[i] = q[i + d]
<1> DEFINE n == Len(q)
           d == IF n > MaxMessages THEN n - MaxMessages ELSE 0
           p == SubSeq(q, d + 1, n)
<1>1. n \in Nat /\ DOMAIN q = 1 .. n /\ MaxMessages \in Nat \ {0}
  BY LenProperties, MaxMessagesAssumption
<1>2. Recent(q) = p
  BY <1>1 DEF Recent
<1> HIDE DEF n
<1>3. d \in 0 .. n /\ \A i \in 1 .. n : i > d \/ n - i >= MaxMessages
  BY <1>1
<1> HIDE DEF d
<1>4. \A i \in d + 1 .. n : q[i] \in Entries
  BY <1>1, <1>3
<1>5. /\ p \in Seq(Entries) /\ Len(p) = n - d
      /\ \A i \in 1 .. n - d : p[i] = q[d + i]
  <2>1. d + 1 \in Int /\ n \in Int /\ (IF d + 1 <= n THEN n - (d + 1) + 1 ELSE 0) = n - d
    BY <1>1, <1>3
  <2>2. /\ p \in Seq(Entries)
        /\ Len(p) = IF d + 1 <= n THEN n - (d + 1) + 1 ELSE 0
        /\ \A i \in 1 .. (n - (d + 1) + 1) : p[i] = q[d + 1 + i - 1]
    BY <1>4, <2>1, SubSeqProperties
  <2>3. n - (d + 1) + 1 = n - d /\ \A i \in 1 .. n - d : d + 1 + i - 1 = d + i
    BY <1>1, <1>3
  <2>4. \A i \in 1 .. n - d : p[i] = q[d + i]
    <3> TAKE i \in 1 .. n - d
    <3>1. p[i] = q[d + 1 + i - 1]
      BY <2>2, <2>3
    <3>. QED
      BY <3>1, <2>3
  <2>. QED
    BY <2>1, <2>2, <2>4
<1>6. DOMAIN p = 1 .. n - d
  BY <1>5, LenProperties
<1> HIDE DEF p
<1>7. \A i \in DOMAIN p : i + d \in DOMAIN q /\ p[i] = q[i + d]
  BY <1>1, <1>3, <1>5, <1>6
<1>8. n = Len(p) + d /\ d \in Nat
  BY <1>1, <1>3, <1>5
<1>. QED
  BY <1>1, <1>2, <1>3, <1>5, <1>7, <1>8 DEF n

(* The model is asked with the history of the session. *)
LEMMA AskStep ==
  ASSUME IInv, Ask
  PROVE  IInv'
<1>1. /\ agent \in {"noting", "reading"} /\ agent' = "thinking"
      /\ history' = HistoryFor(Recent(object[held].messages))
      /\ UNCHANGED <<at, lane, object, cached, held, disk, current, total, memory, deletes, cut>>
  BY DEF Ask, sessionVars
<1>2. TypeOK /\ LaneIsSent /\ Turns
  BY DEF IInv
<1>3. /\ CacheIsDisk' /\ HeldIsCached' /\ Turns'
      /\ ~ cut => \A s \in Live' : Sound(s)'
  BY <1>1, NothingWritten DEF Next
<1>4. TypeOK' /\ LaneIsSent' /\ Counted'
  BY <1>1, <1>2, <1>3 DEF TypeOK, Working, LaneIsSent, Counted
<1>5. ContextComplete'
  <2> DEFINE q == object[held].messages
  <2>1. q \in Seq(Entries) /\ InTurn(object[held])
    BY <1>1, <1>2, HeldIsLive DEF Working, Turns, Sessions
  <2>2. \A i, j \in DOMAIN q :
          q[i].role = "assistant" /\ q[j].role = "user" /\ q[i].of = q[j].of => j < i
    BY <2>1 DEF InTurn
  <2> HIDE DEF q
  <2>3. PICK d \in Nat :
          /\ Len(q) = Len(Recent(q)) + d
          /\ \A i \in DOMAIN q : i > d \/ Len(q) - i >= MaxMessages
          /\ \A i \in DOMAIN Recent(q) : i + d \in DOMAIN q /\ Recent(q)[i] = q[i + d]
    BY <2>1, RecentIs
  <2>4. PICK p : p = Recent(q)
    OBVIOUS
  <2>5. /\ p \in Seq(Entries) /\ Len(p) \in Nat /\ Len(q) \in Nat
        /\ DOMAIN p = 1 .. Len(p) /\ DOMAIN q = 1 .. Len(q)
    BY <2>1, <2>4, RecentIs, LenProperties
  <2>6. ASSUME NEW i \in DOMAIN q, [role |-> "assistant", of |-> q[i].of] \in ToSet(q)
        PROVE  q[i] \in ToSet(HistoryFor(p)) \/ Len(q) - i >= MaxMessages
    <3> SUFFICES ASSUME q[i] \notin ToSet(HistoryFor(p)), i > d PROVE FALSE
      BY <2>3
    <3>1. PICK k \in DOMAIN q : [role |-> "assistant", of |-> q[i].of] = q[k]
      BY <2>6 DEF ToSet
    <3>2. i - d \in DOMAIN p /\ p[i - d] = q[i]
      <4>1. i - d \in DOMAIN p /\ (i - d) + d = i
        BY <2>3, <2>4, <2>5
      <4>. QED
        BY <4>1, <2>3, <2>4
    <3>3. q[i].role = "user" /\ \A j \in DOMAIN p : j <= i - d
      BY <2>5, <3>2, HistoryMisses
    <3>4. \A x : [role |-> "assistant", of |-> x].role = "assistant"
             /\ [role |-> "assistant", of |-> x].of = x
      OBVIOUS
    <3>5. i < k
      BY <2>2, <3>1, <3>3, <3>4
    <3>6. k - d \in DOMAIN p
      BY <2>3, <2>4, <2>5, <3>5
    <3>. QED
      BY <3>3, <3>5, <3>6, <2>5
  <2>. QED
    BY <2>4, <2>6, <1>1 DEF ContextComplete, q
<1>. QED
  BY <1>3, <1>4, <1>5 DEF IInv

(* A consolidation begins: it remembers what it is to look at. *)
LEMMA ConsolidateStep ==
  ASSUME IInv, Consolidate
  PROVE  IInv'
<1>1. /\ agent = "replying" /\ agent' = "summarising" /\ total' = Len(object[held].messages)
      /\ UNCHANGED <<at, lane, object, cached, held, disk, current, history, memory, deletes, cut>>
  BY DEF Consolidate, sessionVars
<1>2. TypeOK /\ LaneIsSent /\ object[held] \in Live /\ object[held] \in Sessions
  BY <1>1, HeldIsLive DEF IInv, Working
<1>3. /\ CacheIsDisk' /\ HeldIsCached' /\ Turns'
      /\ ~ cut => \A s \in Live' : Sound(s)'
  BY <1>1, NothingWritten DEF Next
<1>4. total' \in Nat
  <2>1. object[held].messages \in Seq(Entries)
    BY <1>2 DEF Sessions
  <2>. QED
    BY <2>1, <1>1, LenProperties
<1>5. TypeOK' /\ LaneIsSent' /\ ContextComplete'
  BY <1>1, <1>2, <1>4 DEF TypeOK, Working, LaneIsSent, ContextComplete
<1>6. Counted'
  <2>1. ~ cut => object[held].consolidated <= Len(object[held].messages)
    BY <1>2 DEF IInv, Counted, Sound
  <2>2. total' <= Len(object[held].messages)
    BY <1>1, <1>4
  <2>. QED
    BY <2>1, <2>2, <1>1, <1>3 DEF Counted
<1>. QED
  BY <1>3, <1>5, <1>6 DEF IInv

(* What a consolidation looks at is what there is between the two counts. *)
LEMMA Stretch ==
  ASSUME NEW q \in Seq(Entries), NEW a \in Nat, NEW b \in Nat, a <= b, b <= Len(q),
         NEW k \in a + 1 .. b
  PROVE  q[k] \in ToSet(SubSeq(q, a + 1, b))
<1> DEFINE p == SubSeq(q, a + 1, b)
<1>1. Len(q) \in Nat /\ a + 1 \in Int /\ a + 1 <= b /\ \A i \in a + 1 .. b : q[i] \in Entries
  OBVIOUS
<1>2. /\ p \in Seq(Entries)
      /\ Len(p) = IF a + 1 <= b THEN b - (a + 1) + 1 ELSE 0
      /\ \A i \in 1 .. b - (a + 1) + 1 : p[i] = q[a + 1 + i - 1]
  BY <1>1, SubSeqProperties
<1> HIDE DEF p
<1>3. Len(p) = b - a /\ DOMAIN p = 1 .. b - a
  <2>1. Len(p) = b - a
    BY <1>1, <1>2
  <2>. QED
    BY <2>1, <1>2, LenProperties
<1>4. k - a \in 1 .. b - a /\ k - a \in 1 .. b - (a + 1) + 1 /\ a + 1 + (k - a) - 1 = k
  OBVIOUS
<1>5. p[k - a] = q[k]
  BY <1>2, <1>4
<1>. QED
  BY <1>3, <1>4, <1>5 DEF ToSet, p

(* The stretch is handed to memory_save. *)
LEMMA SummariseStep ==
  ASSUME IInv, Summarise
  PROVE  IInv'
<1> DEFINE s == object[held]
           p == SubSeq(s.messages, s.consolidated + 1, total)
<1>1. /\ agent = "summarising" /\ agent' = "marking" /\ memory' = memory \cup ToSet(p)
      /\ UNCHANGED <<at, lane, object, cached, held, disk, current, history, total, deletes, cut>>
  BY DEF Summarise, sessionVars
<1>2. TypeOK /\ LaneIsSent /\ s \in Live /\ s \in Sessions
  BY <1>1, HeldIsLive DEF IInv, Working
<1>3. /\ CacheIsDisk' /\ HeldIsCached' /\ Turns'
      /\ ~ cut => \A x \in Live' : Sound(x)'
  BY <1>1, NothingWritten DEF Next
<1>4. TypeOK' /\ LaneIsSent' /\ ContextComplete'
  BY <1>1, <1>2 DEF TypeOK, Working, LaneIsSent, ContextComplete
<1>5. ASSUME ~ cut
      PROVE  total <= Len(s.messages) /\ \A k \in 1 .. total : s.messages[k] \in memory'
  <2>1. /\ s.consolidated <= total /\ total <= Len(s.messages)
        /\ \A k \in 1 .. s.consolidated : s.messages[k] \in memory
    BY <1>1, <1>2, <1>5 DEF IInv, Counted, Sound
  <2>2. s.messages \in Seq(Entries) /\ s.consolidated \in Nat /\ total \in Nat
    BY <1>2 DEF Sessions, TypeOK
  <2>3. ASSUME NEW k \in 1 .. total PROVE s.messages[k] \in memory'
    <3> DEFINE q == s.messages
               a == s.consolidated
    <3> HIDE DEF s
    <3>1. CASE k <= a
      BY <3>1, <2>1, <2>2, <1>1
    <3>2. CASE k > a
      <4>1. k \in a + 1 .. total
        BY <3>2, <2>2
      <4>2. q[k] \in ToSet(SubSeq(q, a + 1, total))
        BY <4>1, <2>1, <2>2, Stretch
      <4>. QED
        BY <4>2, <1>1
    <3>. QED
      BY <3>1, <3>2, <2>2
  <2>. QED
    BY <2>1, <2>3
<1>6. Counted'
  BY <1>1, <1>3, <1>5 DEF Counted
<1>. QED
  BY <1>3, <1>4, <1>6 DEF IInv

(* The new count is written into the session the consolidation holds. *)
LEMMA MarkStep ==
  ASSUME IInv, Mark
  PROVE  IInv'
<1>1. PICK x : x = [object[held] EXCEPT !.consolidated = total]
  OBVIOUS
<1>2. /\ agent = "marking" /\ Save(held, x) /\ agent' = "idle" /\ held' = 0 /\ total' = 0
      /\ at' = [at EXCEPT ![current] = "over"]
      /\ UNCHANGED <<lane, current, memory, deletes, cut>>
  BY <1>1 DEF Mark, CountedBefore
<1>3. TypeOK /\ CacheIsDisk /\ LaneIsSent /\ Turns /\ Next
  BY DEF IInv, Next
<1>4. held \in Objects /\ object[held] \in Live /\ object[held] \in Sessions /\ total \in Nat
  BY <1>2, <1>3, HeldIsLive DEF Working, TypeOK
<1>5. x \in Sessions /\ x.messages = object[held].messages /\ x.consolidated = total
  BY <1>1, <1>4 DEF Sessions
<1>6. /\ object' \in [Objects -> Sessions] /\ object'[held] = x
      /\ cached' = held /\ disk' = x /\ CacheIsDisk' /\ Live' \subseteq Live \cup {x}
  BY <1>2, <1>3, <1>4, <1>5, SaveStep
<1>7. TypeOK'
  BY <1>2, <1>3, <1>4, <1>5, <1>6 DEF TypeOK, Working
<1>8. HeldIsCached' /\ ContextComplete'
  BY <1>2 DEF HeldIsCached, ContextComplete
<1>9. LaneIsSent'
  <2>1. \A i \in DOMAIN lane : lane[i] # current /\ lane[i] \in Messages
    BY <1>2, <1>3 DEF LaneIsSent, TypeOK
  <2>. QED
    BY <2>1, <1>2, <1>3 DEF LaneIsSent, TypeOK
<1>10. Counted'
  <2> SUFFICES ASSUME ~ cut PROVE \A s \in Live' : Sound(s)'
    BY <1>2 DEF Counted
  <2>1. /\ \A s \in Live : Sound(s)
        /\ total <= Len(object[held].messages)
        /\ \A k \in 1 .. total : object[held].messages[k] \in memory
    BY <1>2 DEF IInv, Counted
  <2>2. Sound(x)' /\ memory \subseteq memory'
    BY <2>1, <1>2, <1>5 DEF Sound
  <2>. QED
    BY <2>1, <2>2, <1>6, SoundStays
<1>11. InTurn(x) /\ Known(x)'
  <2>1. InTurn(x) /\ Known(x)
    BY <1>3, <1>4, <1>5 DEF Turns, InTurn, Known
  <2>. QED
    BY <2>1, <1>3, <1>5, KnownStays
<1>12. Turns'
  BY <1>3, <1>5, <1>6, <1>11, TurnsStay
<1>. QED
  BY <1>6, <1>7, <1>8, <1>9, <1>10, <1>12 DEF IInv

(* The agent is done with a message. *)
LEMMA EndStep ==
  ASSUME IInv, End
  PROVE  IInv'
<1>1. /\ agent \in {"clearing", "replying", "summarising", "marking"}
      /\ agent' = "idle" /\ held' = 0 /\ total' = 0
      /\ at' = [at EXCEPT ![current] = "over"]
      /\ UNCHANGED <<lane, object, cached, disk, current, memory, deletes, cut>>
  BY DEF End
<1>2. TypeOK /\ LaneIsSent
  BY DEF IInv
<1>3. /\ CacheIsDisk' /\ HeldIsCached' /\ Turns'
      /\ ~ cut => \A s \in Live' : Sound(s)'
  BY <1>1, NothingWritten DEF Next
<1>4. TypeOK' /\ ContextComplete' /\ Counted'
  BY <1>1, <1>2, <1>3 DEF TypeOK, Working, ContextComplete, Counted
<1>5. LaneIsSent'
  <2>1. \A i \in DOMAIN lane : lane[i] # current /\ lane[i] \in Messages
    BY <1>1, <1>2 DEF LaneIsSent, TypeOK
  <2>. QED
    BY <2>1, <1>1, <1>2 DEF LaneIsSent, TypeOK
<1>. QED
  BY <1>3, <1>4, <1>5 DEF IInv

(* A step that changes nothing. *)
LEMMA StutterStep ==
  ASSUME IInv, UNCHANGED vars
  PROVE  IInv'
<1>1. UNCHANGED <<at, lane, object, cached, held, disk, agent, current, history, total, memory, deletes, cut>>
  BY DEF vars, sessionVars, workVars
<1>2. TypeOK' /\ CacheIsDisk' /\ HeldIsCached' /\ LaneIsSent' /\ ContextComplete'
  BY <1>1 DEF IInv, TypeOK, CacheIsDisk, Loaded, HeldIsCached, LaneIsSent, ContextComplete
<1>3. Live' = Live
  BY <1>1 DEF Live
<1>4. Counted' /\ Turns'
  BY <1>1, <1>3 DEF IInv, Counted, Sound, Turns, InTurn, Known, Answered
<1>. QED
  BY <1>2, <1>4 DEF IInv

(* Every step keeps the inductive invariant. *)
LEMMA NextIInv == IInv /\ [Next]_vars => IInv'
<1> SUFFICES ASSUME IInv, [Next]_vars PROVE IInv'
  OBVIOUS
<1>1. CASE Delete \/ Read \/ Stop \/ StopSaving
  BY <1>1, DeleteStep, ReadStep, RestartStep
<1>2. CASE \E m \in Messages : SaveSent(m) \/ Publish(m)
  BY <1>2, SaveSentStep, PublishStep
<1>3. CASE Begin \/ Open \/ Note \/ Ask \/ Reply
  BY <1>3, BeginStep, OpenStep, NoteStep, AskStep, ReplyStep
<1>4. CASE Consolidate \/ Summarise \/ Mark \/ End
  BY <1>4, ConsolidateStep, SummariseStep, MarkStep, EndStep
<1>5. CASE UNCHANGED vars
  BY <1>5, StutterStep
<1>. QED
  BY <1>1, <1>2, <1>3, <1>4, <1>5 DEF Next

-----------------------------------------------------------------------------
(* The properties of the runs *)

(* The inductive invariant holds in every reachable state. *)
THEOREM Invariance == Spec => []IInv
<1>1. Init => IInv
  BY InitIInv
<1>2. IInv /\ [Next]_vars => IInv'
  BY NextIInv
<1>. QED
  BY <1>1, <1>2, PTL DEF Spec

(* For every number of messages, and whoever deletes, reads and writes the     *)
(* session in between: the page and a restart show the same conversation.      *)
THEOREM PageShowsFile == Spec => []CacheIsDisk
<1>1. IInv => CacheIsDisk
  BY DEF IInv
<1>. QED
  BY <1>1, Invariance, PTL

(* As long as no stop cut the file, whatever counts as consolidated was *)
(* handed to memory_save.                                               *)
THEOREM MemoryHasNoGap == Spec => []NothingSkipped
<1>1. IInv => NothingSkipped
  BY DEF IInv, Counted, NothingSkipped, Live, Sound
<1>. QED
  BY <1>1, Invariance, PTL

(* The history the model is given leaves out no exchange that is among the *)
(* last max_messages of the session, for any max_messages.                 *)
THEOREM ContextIsComplete == Spec => []ContextComplete
<1>1. IInv => ContextComplete
  BY DEF IInv
<1>. QED
  BY <1>1, Invariance, PTL

(* The exceptions of RecordGrows are all there are. *)
Grows ==
  \/ disk = NoFile
  \/ Delete
  \/ Open /\ kind[current] = "new"
  \/ held # 0 /\ held # cached /\ deletes > 0
  \/ StopSaving
  \/ disk' # NoFile /\ IsPrefix(disk.messages, disk'.messages)

(* What a step writes over the file of a session extends it, the named exceptions apart. *)
LEMMA DiskGrows ==
  ASSUME IInv, [Next]_vars
  PROVE  Grows
<1>1. TypeOK /\ CacheIsDisk /\ HeldIsCached
  BY DEF IInv
<1> SUFFICES ASSUME disk # NoFile, ~ Delete, ~ (Open /\ kind[current] = "new"), ~ StopSaving,
                    ~ (held # 0 /\ held # cached /\ deletes > 0)
             PROVE  disk' # NoFile /\ IsPrefix(disk.messages, disk'.messages)
  BY DEF Grows
<1>2. disk \in Sessions /\ Loaded = disk /\ disk.messages \in Seq(Entries)
  BY <1>1 DEF TypeOK, Loaded, Sessions
<1>3. held # 0 => held = cached /\ object[held] = disk
  BY <1>1, <1>2 DEF HeldIsCached, CacheIsDisk
<1>4. ASSUME UNCHANGED disk
      PROVE  disk' # NoFile /\ IsPrefix(disk.messages, disk'.messages)
  BY <1>2, <1>4, PrefixOfItself
<1>5. ASSUME NEW o, NEW role \in {"user", "assistant"}, NEW m \in Messages,
             Save(o, With(disk, role, m))
      PROVE  disk' # NoFile /\ IsPrefix(disk.messages, disk'.messages)
  <2>1. disk' = With(disk, role, m)
    BY <1>5 DEF Save
  <2>2. disk' \in Sessions
    BY <2>1, <1>2, WithType
  <2>3. IsPrefix(disk.messages, disk'.messages)
    BY <2>1, <1>2, WithGrows
  <2>. QED
    BY <2>2, <2>3, NoFileAssumption
<1>6. CASE Read \/ Stop \/ Begin \/ Ask \/ Consolidate \/ Summarise \/ End \/ UNCHANGED vars
  <2>1. UNCHANGED disk
    BY <1>6 DEF Read, Stop, Begin, Ask, Consolidate, Summarise, End, vars, sessionVars
  <2>. QED
    BY <2>1, <1>4
<1>7. ASSUME NEW m \in Messages, SaveSent(m)
      PROVE  disk' # NoFile /\ IsPrefix(disk.messages, disk'.messages)
  <2>1. Save(Got, With(disk, "user", m))
    BY <1>1, <1>2, <1>7, GotIsDisk DEF SaveSent
  <2>. QED
    BY <2>1, <1>5
<1>8. ASSUME NEW m \in Messages, Publish(m)
      PROVE  disk' # NoFile /\ IsPrefix(disk.messages, disk'.messages)
  <2>1. UNCHANGED disk
    BY <1>8 DEF Publish, sessionVars
  <2>. QED
    BY <2>1, <1>4
<1>9. CASE Open
  <2>1. UNCHANGED disk
    BY <1>9 DEF Open
  <2>. QED
    BY <2>1, <1>4
<1>10. CASE Note \/ Reply
  <2>1. agent \in Working /\ current \in Messages
    BY <1>1, <1>10 DEF Note, Reply, Working, TypeOK
  <2>2. object[held] = disk
    BY <2>1, <1>1, <1>3 DEF TypeOK
  <2>3. CASE Note
    BY <2>1, <2>2, <2>3, <1>5 DEF Note
  <2>4. CASE Reply
    BY <2>1, <2>2, <2>4, <1>5 DEF Reply
  <2>. QED
    BY <2>3, <2>4, <1>10
<1>11. CASE Mark
  <2>1. agent \in Working /\ total \in Nat
    BY <1>1, <1>11 DEF Mark, Working, TypeOK
  <2>2. object[held] = disk
    BY <2>1, <1>1, <1>3 DEF TypeOK
  <2>3. disk' = [disk EXCEPT !.consolidated = total]
    BY <2>2, <1>11 DEF Mark, Save, CountedBefore
  <2>4. disk' \in Sessions /\ disk'.messages = disk.messages
    BY <2>1, <2>3, <1>2 DEF Sessions
  <2>. QED
    BY <2>4, <1>2, PrefixOfItself, NoFileAssumption
<1>. QED
  BY <1>6, <1>7, <1>8, <1>9, <1>10, <1>11 DEF Next

(* The record of a session only grows: no request and no turn of the agent    *)
(* overwrites what another one wrote, the named exceptions apart.             *)
THEOREM RecordOnlyGrows == Spec => RecordGrows
<1>1. IInv /\ [Next]_vars => Grows
  BY DiskGrows
<1>2. Spec => [][Grows]_vars
  BY <1>1, Invariance, PTL DEF Spec
<1>. QED
  BY <1>2 DEF RecordGrows, Grows
-----------------------------------------------------------------------------
(* The loop of a turn. *)

LoopTypes ==
  /\ recent \in Seq(Signatures)
  /\ executed \in Seq(Signatures)
  /\ counts \in [Signatures -> Nat]

(* What is remembered is the end of what was executed, as much of it as the window takes. *)
RemembersLast ==
  LET n == Len(executed) - Len(recent) IN
  /\ n \in Nat
  /\ n = 0 \/ Len(recent) = Window
  /\ Len(recent) <= Window
  /\ \A k \in 1 .. Len(recent) : recent[k] = executed[n + k]

NotInWindow == \A i, j \in 1 .. Len(executed) : i < j /\ executed[i] = executed[j] => j - i > Window

(* Every execution of a signature was counted, and none that reached the breaker's count. *)
Executions(s) == {i \in 1 .. Len(executed) : executed[i] = s}
CallsCounted ==
  \A s \in Signatures :
    Cardinality(Executions(s)) <= counts[s] /\ Cardinality(Executions(s)) < BreakAt

LoopInv == LoopTypes /\ RemembersLast /\ NotInWindow /\ CallsCounted

(* Nothing was executed. *)
LEMMA LoopInit == TurnInit => LoopInv
<1> SUFFICES ASSUME TurnInit PROVE LoopInv
  OBVIOUS
<1>1. recent = <<>> /\ executed = <<>> /\ counts = [s \in Signatures |-> 0]
  BY DEF TurnInit
<1>2. \A s \in Signatures : Executions(s) = {}
  BY <1>1 DEF Executions
<1>3. CallsCounted
  BY <1>1, <1>2, LimitsAssumption, FS_EmptySet DEF CallsCounted
<1>4. LoopTypes
  BY <1>1 DEF LoopTypes
<1>5. Len(recent) = 0 /\ Len(executed) = 0 /\ Window \in Nat
  BY <1>1, LimitsAssumption
<1>6. RemembersLast
  BY <1>5 DEF RemembersLast
<1>7. NotInWindow
  BY <1>5 DEF NotInWindow
<1>. QED
  BY <1>3, <1>4, <1>6, <1>7 DEF LoopInv

(* A signature that is counted is none of the remembered ones, and is below the count of the breaker. *)
LEMMA CallToolsInv == ASSUME LoopInv, NEW s \in Signatures, CallTools(s) PROVE LoopInv'
<1> DEFINE n == Len(executed)
           r == Len(recent)
           all == Append(recent, s)
<1>1. LoopTypes /\ RemembersLast /\ NotInWindow /\ CallsCounted
  BY DEF LoopInv
<1>2. /\ ~ Repeats(s) /\ ~ Breaks(s)
      /\ counts' = [counts EXCEPT ![s] = @ + 1]
      /\ recent' = Remembered(s) /\ executed' = Append(executed, s)
  BY DEF CallTools
<1>3. Window \in Nat /\ BreakAt \in Nat /\ n \in Nat /\ r \in Nat /\ n - r \in Nat /\ (n = r \/ r = Window)
  BY <1>1, LimitsAssumption DEF LoopTypes, RemembersLast
<1>4. /\ executed' \in Seq(Signatures) /\ Len(executed') = n + 1 /\ executed'[n + 1] = s
      /\ \A i \in 1 .. n : executed'[i] = executed[i]
  BY <1>1, <1>2, AppendProperties DEF LoopTypes
<1>5. \A k \in 1 .. r : recent[k] # s
  BY <1>2 DEF Repeats, Contains
<1>6. LoopTypes'
  <2>1. all \in Seq(Signatures) /\ Tail(all) \in Seq(Signatures)
    BY <1>1, AppendProperties, HeadTailProperties DEF LoopTypes
  <2>2. recent' \in Seq(Signatures)
    BY <1>2, <2>1 DEF Remembered
  <2>3. counts' \in [Signatures -> Nat]
    BY <1>1, <1>2 DEF LoopTypes
  <2>. QED
    BY <1>4, <2>2, <2>3 DEF LoopTypes
<1>7. RemembersLast'
  <2>1. /\ all \in Seq(Signatures) /\ all # <<>> /\ Len(all) = r + 1 /\ all[r + 1] = s
        /\ \A k \in 1 .. r : all[k] = recent[k]
    BY <1>1, AppendProperties DEF LoopTypes
  <2>2. \A k \in 1 .. r + 1 : all[k] = executed'[n - r + k]
    <3>1. ASSUME NEW k \in 1 .. r PROVE all[k] = executed'[n - r + k]
      <4>1. recent[k] = executed[n - r + k]
        BY <1>1 DEF RemembersLast
      <4>2. n - r + k \in 1 .. n
        BY <1>3
      <4>. QED
        BY <1>4, <2>1, <4>1, <4>2
    <3>2. n - r + (r + 1) = n + 1
      BY <1>3
    <3>3. all[r + 1] = executed'[n - r + (r + 1)]
      BY <1>4, <2>1, <3>2
    <3>4. ASSUME NEW k \in 1 .. r + 1 PROVE k \in 1 .. r \/ k = r + 1
      BY <1>3
    <3>. QED
      BY <3>1, <3>3, <3>4
  <2>3. CASE r + 1 > Window
    <3>1. r = Window
      BY <1>1, <1>3, <2>3 DEF RemembersLast
    <3>2. recent' = Tail(all)
      BY <1>2, <2>1, <2>3 DEF Remembered
    <3>3. Len(Tail(all)) = Len(all) - 1 /\ \A k \in 1 .. Len(Tail(all)) : Tail(all)[k] = all[k + 1]
      BY <2>1, HeadTailProperties
    <3>4. Len(recent') = r /\ \A k \in 1 .. r : recent'[k] = all[k + 1]
      BY <1>3, <2>1, <3>2, <3>3
    <3>5. ASSUME NEW k \in 1 .. r PROVE recent'[k] = executed'[(n + 1 - r) + k]
      <4>1. k + 1 \in 1 .. r + 1 /\ n - r + (k + 1) = (n + 1 - r) + k
        BY <1>3
      <4>. QED
        BY <2>2, <3>4, <4>1
    <3>6. Len(executed') - Len(recent') = n + 1 - r /\ n + 1 - r \in Nat
      BY <1>3, <1>4, <3>4
    <3>7. \A k \in 1 .. Len(recent') : recent'[k] = executed'[(Len(executed') - Len(recent')) + k]
      BY <3>4, <3>5, <3>6
    <3>8. Len(recent') = Window /\ Len(recent') <= Window
      BY <1>3, <3>1, <3>4
    <3>. QED
      BY <3>6, <3>7, <3>8 DEF RemembersLast
  <2>4. CASE ~ (r + 1 > Window)
    <3>1. recent' = all /\ n = r
      BY <1>2, <1>3, <2>1, <2>4 DEF Remembered
    <3>2. Len(recent') = r + 1 /\ Len(executed') - Len(recent') = 0 /\ n - r = 0
      BY <1>3, <1>4, <2>1, <3>1
    <3>3. \A k \in 1 .. r + 1 : recent'[k] = executed'[0 + k]
      BY <2>2, <3>1, <3>2
    <3>. QED
      BY <1>3, <2>4, <3>2, <3>3 DEF RemembersLast
  <2>. QED
    BY <2>3, <2>4
<1>8. NotInWindow'
  <2> SUFFICES ASSUME NEW i \in 1 .. Len(executed'), NEW j \in 1 .. Len(executed'), i < j,
                      executed'[i] = executed'[j]
               PROVE  j - i > Window
    BY DEF NotInWindow
  <2>1. i \in 1 .. n
    BY <1>3, <1>4
  <2>2. CASE j \in 1 .. n
    BY <1>1, <1>4, <2>1, <2>2 DEF NotInWindow
  <2>3. CASE j = n + 1
    <3>1. executed[i] = s
      BY <1>4, <2>1, <2>3
    <3>2. i <= n - r
      <4>1. ASSUME i > n - r PROVE FALSE
        <5>1. i - (n - r) \in 1 .. r /\ (n - r) + (i - (n - r)) = i
          BY <1>3, <2>1, <4>1
        <5>2. recent[i - (n - r)] = executed[i]
          BY <1>1, <5>1 DEF RemembersLast
        <5>. QED
          BY <1>5, <3>1, <5>1, <5>2
      <4>. QED
        BY <1>3, <2>1, <4>1
    <3>. QED
      BY <1>3, <2>1, <2>3, <3>2
  <2>. QED
    BY <1>3, <1>4, <2>2, <2>3
<1>9. CallsCounted'
  <2>1. ASSUME NEW u \in Signatures
        PROVE  Cardinality(Executions(u)') <= counts'[u] /\ Cardinality(Executions(u)') < BreakAt
    <3>1. /\ Cardinality(Executions(u)) <= counts[u] /\ Cardinality(Executions(u)) < BreakAt
          /\ counts[u] \in Nat
      BY <1>1 DEF CallsCounted, LoopTypes
    <3>2. IsFiniteSet(Executions(u)) /\ Cardinality(Executions(u)) \in Nat /\ n + 1 \notin Executions(u)
      <4>1. IsFiniteSet(1 .. n) /\ Executions(u) \subseteq 1 .. n
        BY <1>3, FS_Interval DEF Executions
      <4>2. IsFiniteSet(Executions(u))
        BY <4>1, FS_Subset
      <4>. QED
        BY <1>3, <4>1, <4>2, FS_CardinalityType
    <3>3. CASE u = s
      <4>1. Executions(u)' = Executions(u) \cup {n + 1}
        BY <1>3, <1>4, <3>3 DEF Executions
      <4>2. Cardinality(Executions(u)') = Cardinality(Executions(u)) + 1
        BY <3>2, <4>1, FS_AddElement
      <4>3. counts[u] + 1 < BreakAt /\ counts'[u] = counts[u] + 1
        BY <1>1, <1>2, <1>3, <3>1, <3>3 DEF Breaks, LoopTypes
      <4>. QED
        BY <1>3, <3>1, <3>2, <4>2, <4>3
    <3>4. CASE u # s
      <4>1. Executions(u)' = Executions(u)
        BY <1>3, <1>4, <3>4 DEF Executions
      <4>2. counts'[u] = counts[u]
        BY <1>1, <1>2, <3>4 DEF LoopTypes
      <4>. QED
        BY <3>1, <4>1, <4>2
    <3>. QED
      BY <3>3, <3>4
  <2>. QED
    BY <2>1 DEF CallsCounted
<1>. QED
  BY <1>6, <1>7, <1>8, <1>9 DEF LoopInv

(* The loop that stops for a repetition counts it, and executes nothing. *)
LEMMA StoppedInv == ASSUME LoopInv, NEW s \in Signatures, Stopped(s) PROVE LoopInv'
<1>1. /\ counts' = [counts EXCEPT ![s] = @ + 1]
      /\ recent' = recent /\ executed' = executed
  BY DEF Stopped
<1>2. LoopTypes'
  BY <1>1 DEF LoopInv, LoopTypes
<1>3. RemembersLast'
  BY <1>1 DEF LoopInv, RemembersLast
<1>4. NotInWindow'
  BY <1>1 DEF LoopInv, NotInWindow
<1>5. \A u \in Signatures : Executions(u)' = Executions(u)
  BY <1>1 DEF Executions
<1>6. \A u \in Signatures : counts[u] <= counts'[u] /\ counts[u] \in Nat /\ counts'[u] \in Nat
  BY <1>1 DEF LoopInv, LoopTypes
<1>7. \A u \in Signatures : Cardinality(Executions(u)) \in Nat
  <2> TAKE u \in Signatures
  <2>1. IsFiniteSet(1 .. Len(executed)) /\ Executions(u) \subseteq 1 .. Len(executed)
    BY FS_Interval DEF Executions, LoopInv, LoopTypes
  <2>. QED
    BY <2>1, FS_Subset, FS_CardinalityType
<1>8. CallsCounted'
  BY <1>5, <1>6, <1>7 DEF LoopInv, CallsCounted
<1>. QED
  BY <1>2, <1>3, <1>4, <1>8 DEF LoopInv

(* All other steps execute nothing. *)
LEMMA LoopStep == LoopInv /\ [TurnNext]_turnVars => LoopInv'
<1> SUFFICES ASSUME LoopInv, [TurnNext]_turnVars PROVE LoopInv'
  OBVIOUS
<1>1. CASE \E s \in Signatures : Stopped(s) \/ CallTools(s)
  BY <1>1, StoppedInv, CallToolsInv
<1>2. CASE \/ Prepare \/ Overflow \/ Fails \/ Answer \/ RunTool \/ NextIteration \/ LastIteration
           \/ UNCHANGED turnVars
  <2>1. recent' = recent /\ executed' = executed /\ counts' = counts
    BY <1>2, Zenon DEF Prepare, Overflow, Fails, Answer, RunTool, NextIteration, LastIteration,
                       Ends, loopVars, turnVars
  <2>2. LoopTypes' /\ RemembersLast' /\ NotInWindow'
    BY <2>1, Zenon DEF LoopInv, LoopTypes, RemembersLast, NotInWindow
  <2>3. CallsCounted'
    BY <2>1 DEF LoopInv, CallsCounted, Executions
  <2>. QED
    BY <2>2, <2>3 DEF LoopInv
<1>. QED
  BY <1>1, <1>2 DEF TurnNext

(***************************************************************************)
(* _recent_tool_hashes and _tool_call_counts, for windows and counts of    *)
(* any size: whatever the model asks for, no set of calls is executed      *)
(* twice within the window nor as often as the breaker counts, whichever   *)
(* of the two limits is the smaller.                                       *)
(***************************************************************************)
THEOREM LimitsHold == TurnSpec => []ToolsNotRepeated
<1>1. LoopInv => ToolsNotRepeated
  BY DEF LoopInv, NotInWindow, CallsCounted, Executions, ToolsNotRepeated
<1>. QED
  BY <1>1, LoopInit, LoopStep, PTL DEF TurnSpec
-----------------------------------------------------------------------------
(* What the provider is sent: a transcript that is well formed *)

(* What holds of 0 and goes from each number to the next holds up to n. *)
LEMMA UpTo ==
  ASSUME NEW n \in Nat, NEW T, 0 \in T, \A k \in 1..n : k - 1 \in T => k \in T
  PROVE  \A k \in 0..n : k \in T
<1> DEFINE Missing == {k \in 0..n : k \notin T}
           Less == {p \in Nat \X Nat : p[1] < p[2]}
<1>1. SUFFICES ASSUME Missing # {}
               PROVE  FALSE
  OBVIOUS
<1>2. IsWellFoundedOn(Less, Nat)
  BY NatLessThanWellFounded, Zenon DEF OpToRel
<1>3. Missing \subseteq Nat
  OBVIOUS
<1> HIDE DEF Missing
<1>4. PICK k \in Missing : \A j \in Missing : <<j, k>> \notin Less
  BY <1>1, <1>2, <1>3, WFMin
<1>5. k \in 1..n /\ k \notin T
  BY DEF Missing
<1>6. k - 1 \in Missing
  BY <1>5 DEF Missing
<1>7. <<k - 1, k>> \in Less
  BY <1>5
<1>. QED
  BY <1>4, <1>6, <1>7

(* The least of some numbers is one of them. *)
LEMMA LeastOfMany ==
  ASSUME NEW S \in SUBSET Nat, S # {}
  PROVE  Min(S) \in S
<1> DEFINE Less == {p \in Nat \X Nat : p[1] < p[2]}
<1>1. IsWellFoundedOn(Less, Nat)
  BY NatLessThanWellFounded, Zenon DEF OpToRel
<1>2. PICK n \in S : \A m \in S : <<m, n>> \notin Less
  BY <1>1, WFMin
<1>3. \A m \in S : n <= m
  <2> SUFFICES ASSUME NEW m \in S, ~ (n <= m)
               PROVE  FALSE
    OBVIOUS
  <2>1. m < n /\ m \in Nat /\ n \in Nat
    OBVIOUS
  <2>2. <<m, n>> \in Less
    BY <2>1
  <2>. QED
    BY <2>2, <1>2
<1>. QED
  BY <1>3 DEF Min

(* f begins with b, and every value is what g makes of the one before. *)
Follows(f, b, n, g) == f[0] = b /\ \A k \in 1..n : f[k] = g[<<f[k - 1], k>>]

(* Such a function exists. *)
LEMMA StepByStep ==
  ASSUME NEW S, NEW b \in S, NEW n \in Nat, NEW g \in [S \X (1..n) -> S]
  PROVE  \E f \in [0..n -> S] : Follows(f, b, n, g)
<1> DEFINE Has(m) == \E f \in [0..m -> S] :
                       f[0] = b /\ \A k \in 1..m : f[k] = g[<<f[k - 1], k>>]
           T == {m \in 0..n : Has(m)}
<1>1. 0 \in T
  <2>1. [k \in 0..0 |-> b] \in [0..0 -> S]
    OBVIOUS
  <2>2. [k \in 0..0 |-> b][0] = b /\ 1..0 = {}
    OBVIOUS
  <2>3. Has(0)
    BY <2>1, <2>2
  <2>. QED
    BY <2>3
<1>2. ASSUME NEW m \in 1..n, m - 1 \in T
      PROVE  m \in T
  <2>1. PICK f \in [0..(m - 1) -> S] :
          f[0] = b /\ \A k \in 1..(m - 1) : f[k] = g[<<f[k - 1], k>>]
    BY <1>2
  <2> DEFINE h == [k \in 0..m |-> IF k = m THEN g[<<f[m - 1], m>>] ELSE f[k]]
  <2>2. f[m - 1] \in S
    OBVIOUS
  <2>3. g[<<f[m - 1], m>>] \in S
    BY <2>2
  <2>4. h \in [0..m -> S]
    BY <2>3
  <2>5. h[0] = b
    BY <2>1
  <2>6. ASSUME NEW k \in 1..m PROVE h[k] = g[<<h[k - 1], k>>]
    <3>1. k - 1 \in 0..m /\ k - 1 # m
      OBVIOUS
    <3>2. h[k - 1] = f[k - 1]
      BY <3>1
    <3>3. CASE k = m
      <4>1. h[k] = g[<<f[m - 1], m>>]
        BY <3>3
      <4>. QED
        BY <4>1, <3>2, <3>3, Zenon
    <3>4. CASE k # m
      <4>1. k \in 1..(m - 1)
        BY <3>4
      <4>. QED
        BY <4>1, <3>2, <3>4, <2>1
    <3>. QED
      BY <3>3, <3>4
  <2> HIDE DEF h
  <2>. QED
    BY <2>4, <2>5, <2>6
<1> HIDE DEF T
<1>3. n \in T
  BY <1>1, <1>2, UpTo
<1>. QED
  BY <1>3 DEF T, Follows

(* The messages a transcript is made of. *)
Msg ==
  [role : {"system"}] \cup [role : {"user"}, text : BOOLEAN]
  \cup [role : {"assistant"}, turn : Nat, calls : Nat]
  \cup [role : {"tool"}, turn : Nat, call : Nat \ {0}]

(* The type of each kind of message. *)
LEMMA MsgKinds ==
  /\ System \in Msg
  /\ \A t \in BOOLEAN : User(t) \in Msg
  /\ Says \in Msg
  /\ \A i, n \in Nat : CallsFor(i, n) \in Msg
  /\ \A i \in Nat, k \in Nat \ {0} : Result(i, k) \in Msg
BY DEF Msg, System, User, Says, CallsFor, Result

(* What a message of each role has. *)
LEMMA MsgParts ==
  ASSUME NEW m \in Msg
  PROVE  /\ m.role \in {"system", "user", "assistant", "tool"}
         /\ m.role = "assistant" => m.calls \in Nat /\ m.turn \in Nat
         /\ m.role = "tool" => m.call \in Nat \ {0} /\ m.turn \in Nat
BY DEF Msg

(* Taking one message more leaves a transcript. *)
LEMMA AcceptType ==
  ASSUME NEW v \in Seq(Msg), NEW m \in Msg
  PROVE  Accept(v, m) \in Seq(Msg)
BY DEF Accept

(* Validation goes through the transcript message by message. *)
LEMMA ValidatedSteps ==
  ASSUME NEW ms \in Seq(Msg)
  PROVE  \E f \in [0..Len(ms) -> Seq(Msg)] :
           /\ f[0] = <<>>
           /\ \A k \in 1..Len(ms) : f[k] = Accept(f[k - 1], ms[k])
           /\ Validated(ms) = f[Len(ms)]
<1> DEFINE n == Len(ms)
           Body(h) == [k \in 0..n |-> IF k = 0 THEN <<>> ELSE Accept(h[k - 1], ms[k])]
           g == [p \in Seq(Msg) \X (1..n) |-> Accept(p[1], ms[p[2]])]
           c == CHOOSE h : h = Body(h)
<1>1. n \in Nat /\ \A k \in 1..n : ms[k] \in Msg
  OBVIOUS
<1> HIDE DEF n
<1>2. g \in [Seq(Msg) \X (1..n) -> Seq(Msg)]
  BY <1>1, AcceptType
<1>3. <<>> \in Seq(Msg)
  OBVIOUS
<1>4. PICK f \in [0..n -> Seq(Msg)] : Follows(f, <<>>, n, g)
  <2> HIDE DEF g
  <2>. QED
    BY <1>1, <1>2, <1>3, StepByStep, Zenon
<1>5. \A k \in 1..n : f[k] = Accept(f[k - 1], ms[k])
  <2> SUFFICES ASSUME NEW k \in 1..n PROVE f[k] = Accept(f[k - 1], ms[k])
    OBVIOUS
  <2>1. k - 1 \in 0..n
    BY <1>1
  <2>2. f[k - 1] \in Seq(Msg)
    BY <2>1
  <2>. QED
    BY <2>2, <1>4 DEF Follows
<1>6. f = Body(f)
  BY <1>1, <1>4, <1>5 DEF Follows
<1>7. c = Body(c)
  BY <1>6
<1>8. c[0] = <<>> /\ \A k \in 1..n : c[k] = Accept(c[k - 1], ms[k])
  <2> HIDE DEF c
  <2>1. \A k \in 0..n : c[k] = IF k = 0 THEN <<>> ELSE Accept(c[k - 1], ms[k])
    BY <1>7
  <2>. QED
    BY <2>1, <1>1
<1>9. \A k \in 0..n : c[k] \in Seq(Msg)
  <2> DEFINE T == {k \in 0..n : c[k] \in Seq(Msg)}
  <2> HIDE DEF c
  <2>1. 0 \in T
    BY <1>1, <1>3, <1>8
  <2>2. \A k \in 1..n : k - 1 \in T => k \in T
    <3> SUFFICES ASSUME NEW k \in 1..n, k - 1 \in T PROVE k \in T
      OBVIOUS
    <3>1. c[k - 1] \in Seq(Msg) /\ ms[k] \in Msg /\ c[k] = Accept(c[k - 1], ms[k])
      BY <1>1, <1>8
    <3>2. c[k] \in Seq(Msg)
      BY <3>1, AcceptType
    <3>. QED
      BY <3>2, <1>1
  <2> HIDE DEF T
  <2>3. \A k \in 0..n : k \in T
    BY <1>1, <2>1, <2>2, UpTo
  <2>. QED
    BY <2>3 DEF T
<1>10. c \in [0..n -> Seq(Msg)]
  <2> HIDE DEF c
  <2>. QED
    BY <1>7, <1>9
<1>11. Validated(ms) = c[n]
  BY DEF Validated, n
<1> HIDE DEF c
<1>. QED
  BY <1>8, <1>10, <1>11 DEF n

(* So does the choice of the messages of some roles. *)
LEMMA OfRolesSteps ==
  ASSUME NEW ms \in Seq(Msg), NEW R
  PROVE  \E f \in [0..Len(ms) -> Seq(Msg)] :
           /\ f[0] = <<>>
           /\ \A k \in 1..Len(ms) :
                f[k] = IF ms[k].role \in R THEN Append(f[k - 1], ms[k]) ELSE f[k - 1]
           /\ OfRoles(ms, R) = f[Len(ms)]
<1> DEFINE n == Len(ms)
           Taken(v, m) == IF m.role \in R THEN Append(v, m) ELSE v
           Body(h) == [k \in 0..n |->
                         IF k = 0 THEN <<>>
                         ELSE IF ms[k].role \in R THEN Append(h[k - 1], ms[k])
                         ELSE h[k - 1]]
           g == [p \in Seq(Msg) \X (1..n) |-> Taken(p[1], ms[p[2]])]
           c == CHOOSE h : h = Body(h)
<1>1. n \in Nat /\ \A k \in 1..n : ms[k] \in Msg
  OBVIOUS
<1> HIDE DEF n
<1>0. \A v \in Seq(Msg), m \in Msg : Taken(v, m) \in Seq(Msg)
  OBVIOUS
<1>2. g \in [Seq(Msg) \X (1..n) -> Seq(Msg)]
  <2> HIDE DEF Taken
  <2>. QED
    BY <1>0, <1>1
<1>3. <<>> \in Seq(Msg)
  OBVIOUS
<1>4. PICK f \in [0..n -> Seq(Msg)] : Follows(f, <<>>, n, g)
  <2> HIDE DEF g
  <2>. QED
    BY <1>1, <1>2, <1>3, StepByStep, Zenon
<1>5. \A k \in 1..n : f[k] = Taken(f[k - 1], ms[k])
  <2> SUFFICES ASSUME NEW k \in 1..n PROVE f[k] = Taken(f[k - 1], ms[k])
    OBVIOUS
  <2>1. k - 1 \in 0..n
    BY <1>1
  <2>2. f[k - 1] \in Seq(Msg)
    BY <2>1
  <2> HIDE DEF Taken
  <2>. QED
    BY <2>2, <1>4 DEF Follows
<1>6. f = Body(f)
  <2>1. f[0] = <<>>
    BY <1>4 DEF Follows
  <2>2. \A k \in 0..n : f[k] = IF k = 0 THEN <<>>
                               ELSE IF ms[k].role \in R THEN Append(f[k - 1], ms[k])
                               ELSE f[k - 1]
    <3> SUFFICES ASSUME NEW k \in 0..n, k # 0
                 PROVE  f[k] = IF ms[k].role \in R THEN Append(f[k - 1], ms[k])
                               ELSE f[k - 1]
      BY <2>1
    <3>1. k \in 1..n
      BY <1>1
    <3>. QED
      BY <3>1, <1>5
  <2>. QED
    BY <2>2
<1>7. c = Body(c)
  BY <1>6
<1>8. c[0] = <<>> /\ \A k \in 1..n : c[k] = Taken(c[k - 1], ms[k])
  <2> HIDE DEF c
  <2>1. \A k \in 0..n : c[k] = IF k = 0 THEN <<>>
                               ELSE IF ms[k].role \in R THEN Append(c[k - 1], ms[k])
                               ELSE c[k - 1]
    BY <1>7
  <2>2. c[0] = <<>>
    BY <2>1, <1>1
  <2>3. ASSUME NEW k \in 1..n PROVE c[k] = Taken(c[k - 1], ms[k])
    <3>1. k \in 0..n /\ k # 0
      BY <1>1
    <3>. QED
      BY <3>1, <2>1
  <2>. QED
    BY <2>2, <2>3
<1>9. \A k \in 0..n : c[k] \in Seq(Msg)
  <2> DEFINE T == {k \in 0..n : c[k] \in Seq(Msg)}
  <2> HIDE DEF c, Taken
  <2>1. 0 \in T
    BY <1>1, <1>3, <1>8
  <2>2. \A k \in 1..n : k - 1 \in T => k \in T
    <3> SUFFICES ASSUME NEW k \in 1..n, k - 1 \in T PROVE k \in T
      OBVIOUS
    <3>1. c[k - 1] \in Seq(Msg) /\ ms[k] \in Msg /\ c[k] = Taken(c[k - 1], ms[k])
      BY <1>1, <1>8
    <3>2. c[k] \in Seq(Msg)
      BY <3>1, <1>0
    <3>. QED
      BY <3>2, <1>1
  <2> HIDE DEF T
  <2>3. \A k \in 0..n : k \in T
    BY <1>1, <2>1, <2>2, UpTo
  <2>. QED
    BY <2>3 DEF T
<1>10. c \in [0..n -> Seq(Msg)]
  <2> HIDE DEF c
  <2>. QED
    BY <1>7, <1>9
<1>11. OfRoles(ms, R) = c[n]
  BY DEF OfRoles, n
<1> HIDE DEF c
<1>. QED
  BY <1>8, <1>10, <1>11 DEF n

(* One system message, and it is the first. *)
OnlyFirstIsSystem(ms) ==
  Len(ms) >= 1 /\ ms[1].role = "system" /\ \A i \in 2..Len(ms) : ms[i].role # "system"

(* What is left of ms behind its first d messages. *)
IsTail(s, ms, d) ==
  /\ s \in Seq(Msg)
  /\ d \in 0..Len(ms)
  /\ Len(s) = Len(ms) - d
  /\ \A i \in 1..Len(s) : s[i] = ms[i + d]

(* The system messages of a transcript are its first. *)
LEMMA SystemIsFirst ==
  ASSUME NEW ms \in Seq(Msg), OnlyFirstIsSystem(ms)
  PROVE  SystemOf(ms) = <<ms[1]>>
<1>1. PICK f \in [0..Len(ms) -> Seq(Msg)] :
        /\ f[0] = <<>>
        /\ \A k \in 1..Len(ms) :
             f[k] = IF ms[k].role \in {"system"} THEN Append(f[k - 1], ms[k]) ELSE f[k - 1]
        /\ OfRoles(ms, {"system"}) = f[Len(ms)]
  BY OfRolesSteps
<1> DEFINE T == {k \in 0..Len(ms) : k = 0 \/ f[k] = <<ms[1]>>}
<1>2. 0 \in T
  OBVIOUS
<1>3. ASSUME NEW k \in 1..Len(ms), k - 1 \in T
      PROVE  k \in T
  <2>1. CASE k = 1
    <3>1. f[1] = Append(f[1 - 1], ms[1])
      BY <1>1, <2>1 DEF OnlyFirstIsSystem
    <3>2. f[1] = <<ms[1]>>
      BY <1>1, <3>1
    <3>. QED
      BY <3>2, <2>1
  <2>2. CASE k # 1
    <3>1. f[k] = f[k - 1]
      BY <1>1, <2>2 DEF OnlyFirstIsSystem
    <3>. QED
      BY <3>1, <2>2, <1>3
  <2>. QED
    BY <2>1, <2>2
<1> HIDE DEF T
<1>4. Len(ms) \in T
  <2>1. Len(ms) \in Nat
    OBVIOUS
  <2>2. \A k \in 1..Len(ms) : k - 1 \in T => k \in T
    BY <1>3
  <2>3. \A k \in 0..Len(ms) : k \in T
    BY <1>2, <2>1, <2>2, UpTo, Zenon
  <2>. QED
    BY <2>1, <2>3
<1>. QED
  <2>1. Len(ms) # 0
    BY DEF OnlyFirstIsSystem
  <2>. QED
    BY <1>1, <1>4, <2>1 DEF T, SystemOf

(* The dialogue of a transcript is all that follows. *)
LEMMA DialogueIsTail ==
  ASSUME NEW ms \in Seq(Msg), OnlyFirstIsSystem(ms)
  PROVE  IsTail(DialogueOf(ms), ms, 1)
<1> DEFINE R == {"user", "assistant", "tool"}
<1>1. PICK f \in [0..Len(ms) -> Seq(Msg)] :
        /\ f[0] = <<>>
        /\ \A k \in 1..Len(ms) :
             f[k] = IF ms[k].role \in R THEN Append(f[k - 1], ms[k]) ELSE f[k - 1]
        /\ OfRoles(ms, R) = f[Len(ms)]
  <2> HIDE DEF R
  <2>. QED
    BY OfRolesSteps
<1> DEFINE T == {k \in 0..Len(ms) :
                   \/ k = 0
                   \/ Len(f[k]) = k - 1 /\ \A i \in 1..(k - 1) : f[k][i] = ms[i + 1]}
<1>2. 0 \in T
  OBVIOUS
<1>3. ASSUME NEW k \in 1..Len(ms), k - 1 \in T
      PROVE  k \in T
  <2>1. CASE k = 1
    <3>1. f[1] = <<>>
      BY <1>1, <2>1 DEF OnlyFirstIsSystem
    <3>. QED
      BY <3>1, <2>1
  <2>2. CASE k # 1
    <3>1. ms[k].role \in R
      BY <2>2, MsgParts DEF OnlyFirstIsSystem
    <3>2. f[k] = Append(f[k - 1], ms[k])
      BY <1>1, <3>1
    <3>3. f[k - 1] \in Seq(Msg) /\ ms[k] \in Msg
      OBVIOUS
    <3>4. Len(f[k - 1]) = k - 2 /\ \A i \in 1..(k - 2) : f[k - 1][i] = ms[i + 1]
      BY <1>3, <2>2
    <3>5. Len(f[k]) = k - 1
      BY <3>2, <3>3, <3>4
    <3>6. ASSUME NEW i \in 1..(k - 1) PROVE f[k][i] = ms[i + 1]
      <4>1. CASE i = k - 1
        BY <4>1, <3>2, <3>3, <3>4
      <4>2. CASE i # k - 1
        <5>1. i \in 1..(k - 2)
          BY <4>2
        <5>. QED
          BY <5>1, <3>2, <3>3, <3>4
      <4>. QED
        BY <4>1, <4>2
    <3>. QED
      BY <3>5, <3>6
  <2>. QED
    BY <2>1, <2>2
<1> HIDE DEF T
<1>4. Len(ms) \in T
  <2>1. Len(ms) \in Nat
    OBVIOUS
  <2>2. \A k \in 1..Len(ms) : k - 1 \in T => k \in T
    BY <1>3
  <2>3. \A k \in 0..Len(ms) : k \in T
    BY <1>2, <2>1, <2>2, UpTo, Zenon
  <2>. QED
    BY <2>1, <2>3
<1>5. f[Len(ms)] \in Seq(Msg) /\ DialogueOf(ms) = f[Len(ms)]
  BY <1>1 DEF DialogueOf
<1>. QED
  BY <1>4, <1>5 DEF T, IsTail, OnlyFirstIsSystem

(* The end of a sequence is a tail of it. *)
LEMMA SubSeqIsTail ==
  ASSUME NEW ms \in Seq(Msg), NEW d \in 0..Len(ms)
  PROVE  IsTail(SubSeq(ms, d + 1, Len(ms)), ms, d)
<1> DEFINE s == SubSeq(ms, d + 1, Len(ms))
<1>1. \A i \in (d + 1)..Len(ms) : ms[i] \in Msg
  OBVIOUS
<1>2. s \in Seq(Msg)
  BY <1>1, SubSeqProperties
<1>3. Len(s) = Len(ms) - d
  BY SubSeqProperties
<1>4. \A i \in 1..Len(s) : s[i] = ms[i + d]
  BY SubSeqProperties
<1>. QED
  BY <1>2, <1>3, <1>4 DEF IsTail

(* A tail of a tail is a tail. *)
LEMMA TailOfTail ==
  ASSUME NEW ms \in Seq(Msg), NEW s, NEW t, NEW d, NEW e,
         IsTail(s, ms, d), IsTail(t, s, e)
  PROVE  IsTail(t, ms, d + e)
<1>1. Len(ms) \in Nat /\ Len(s) \in Nat /\ Len(t) \in Nat /\ d \in Nat /\ e \in Nat
  BY DEF IsTail
<1>2. Len(s) = Len(ms) - d /\ Len(t) = Len(s) - e
  BY DEF IsTail
<1>3. ASSUME NEW i \in 1..Len(t) PROVE t[i] = ms[i + (d + e)]
  <2>1. t[i] = s[i + e]
    BY DEF IsTail
  <2>2. i + e \in 1..Len(s)
    BY <1>1, <1>2
  <2>3. s[i + e] = ms[(i + e) + d]
    BY <2>2 DEF IsTail
  <2>4. (i + e) + d = i + (d + e)
    BY <1>1
  <2>. QED
    BY <2>1, <2>3, <2>4
<1>4. d + e \in 0..Len(ms) /\ Len(t) = Len(ms) - (d + e) /\ t \in Seq(Msg)
  BY <1>1, <1>2 DEF IsTail
<1>. QED
  BY <1>3, <1>4 DEF IsTail

(* What is left without the results at its beginning begins with no result. *)
LEMMA FromNoResultIsTail ==
  ASSUME NEW ms \in Seq(Msg)
  PROVE  \E d \in 0..Len(ms) :
           /\ IsTail(FromNoResult(ms), ms, d)
           /\ Len(FromNoResult(ms)) >= 1 => FromNoResult(ms)[1].role # "tool"
<1> DEFINE I == {i \in 1..Len(ms) : ms[i].role # "tool"}
           p == Min(I)
<1>1. CASE I = {}
  <2>1. FromNoResult(ms) = <<>>
    BY <1>1 DEF FromNoResult, SelectInSeq
  <2>2. IsTail(<<>>, ms, Len(ms))
    BY DEF IsTail
  <2>. QED
    BY <2>1, <2>2
<1>2. CASE I # {}
  <2>1. p \in I
    <3>1. I \in SUBSET Nat
      OBVIOUS
    <3> HIDE DEF I
    <3>. QED
      BY <1>2, <3>1, LeastOfMany
  <2>2. p \in 1..Len(ms) /\ ms[p].role # "tool"
    <3> HIDE DEF p
    <3>. QED
      BY <2>1
  <2>3. FromNoResult(ms) = SubSeq(ms, p, Len(ms))
    <3>1. SelectInSeq(ms, LAMBDA m : m.role # "tool") = p
      BY <1>2 DEF SelectInSeq
    <3> HIDE DEF p
    <3>2. p # 0
      BY <2>2
    <3>. QED
      BY <3>1, <3>2 DEF FromNoResult
  <2> HIDE DEF p
  <2>4. p - 1 \in 0..Len(ms) /\ (p - 1) + 1 = p
    BY <2>2
  <2>5. IsTail(FromNoResult(ms), ms, p - 1)
    BY <2>3, <2>4, SubSeqIsTail
  <2>6. Len(FromNoResult(ms)) >= 1 => FromNoResult(ms)[1].role # "tool"
    BY <2>2, <2>4, <2>5 DEF IsTail
  <2>. QED
    BY <2>4, <2>5, <2>6
<1>. QED
  BY <1>1, <1>2

(* Where the call of a result is. *)
LEMMA CallIs ==
  ASSUME NEW ms, NEW i, HasItsCall(ms, i)
  PROVE  /\ i - ms[i].call >= 1
         /\ ms[i - ms[i].call].role = "assistant"
         /\ ms[i - ms[i].call].turn = ms[i].turn
         /\ ms[i].call <= ms[i - ms[i].call].calls
BY DEF HasItsCall

(* A tail that begins with no result is as well formed as the whole. *)
LEMMA TailWellFormed ==
  ASSUME NEW ms \in Seq(Msg), WellFormed(ms), NEW s, NEW d, IsTail(s, ms, d),
         Len(s) >= 1 => s[1].role # "tool"
  PROVE  WellFormed(s)
<1>1. s \in Seq(Msg) /\ Len(ms) \in Nat /\ Len(s) \in Nat /\ d \in Nat /\ Len(s) = Len(ms) - d
  BY DEF IsTail
<1>2. \A i \in 1..Len(s) : s[i] = ms[i + d] /\ i + d \in 1..Len(ms) /\ s[i] \in Msg
  BY <1>1 DEF IsTail
<1>3. ASSUME NEW i \in 1..Len(s), s[i].role = "tool"
      PROVE  HasItsCall(s, i)
  <2> DEFINE c == s[i].call
             j == (i + d) - c
  <2>1. c \in Nat \ {0} /\ i \in Nat
    BY <1>2, <1>3, MsgParts
  <2>2. j >= 1 /\ ms[j].role = "assistant" /\ ms[j].turn = s[i].turn /\ c <= ms[j].calls
    <3> DEFINE h == i + d
    <3>1. h \in 1..Len(ms) /\ ms[h] = s[i]
      BY <1>2
    <3>2. j = h - ms[h].call
      BY <3>1
    <3> HIDE DEF h, j
    <3>3. HasItsCall(ms, h)
      BY <3>1, <1>3 DEF WellFormed
    <3>. QED
      BY <3>1, <3>2, <3>3, CallIs
  <2> HIDE DEF c
  <2>3. j \in 1..Len(ms) /\ j \in Nat
    BY <2>1, <2>2, <1>1, <1>2
  <2>4. HasItsResults(ms, j)
    BY <2>2, <2>3 DEF WellFormed
  <2>5. ms[j].calls \in Nat
    BY <2>2, <2>3, MsgParts
  <2>6. j > d
    <3> SUFFICES ASSUME j <= d PROVE FALSE
      BY <2>3, <1>1
    <3> DEFINE k == d + 1 - j
    <3>1. k \in 1..ms[j].calls /\ j + k = d + 1
      BY <2>1, <2>2, <2>3, <2>5, <1>1
    <3> HIDE DEF j
    <3>2. ms[d + 1] = Result(ms[j].turn, k)
      BY <3>1, <2>4 DEF HasItsResults
    <3>3. s[1] = ms[1 + d] /\ Len(s) >= 1 /\ 1 + d = d + 1
      BY <1>1, <1>2
    <3>. QED
      BY <3>2, <3>3 DEF Result
  <2>7. i - c \in 1..Len(s) /\ (i - c) + d = j
    BY <2>1, <2>3, <2>6, <1>1
  <2>8. s[i - c] = ms[j]
    BY <2>7, <1>2
  <2>. QED
    BY <2>2, <2>7, <2>8 DEF HasItsCall, c
<1>4. ASSUME NEW i \in 1..Len(s), s[i].role = "assistant"
      PROVE  HasItsResults(s, i)
  <2> DEFINE n == s[i].calls
  <2>1. n \in Nat /\ i \in Nat
    BY <1>2, <1>4, MsgParts
  <2>2. i + d + n <= Len(ms) /\ \A k \in 1..n : ms[i + d + k] = Result(s[i].turn, k)
    BY <1>2, <1>4 DEF WellFormed, HasItsResults
  <2> HIDE DEF n
  <2>3. i + n <= Len(s)
    BY <2>1, <2>2, <1>1
  <2>4. ASSUME NEW k \in 1..n PROVE s[i + k] = Result(s[i].turn, k)
    <3>1. i + k \in 1..Len(s) /\ (i + k) + d = i + d + k
      BY <2>1, <2>3, <1>1
    <3>2. s[i + k] = ms[(i + k) + d]
      BY <3>1, <1>2
    <3>. QED
      BY <3>1, <3>2, <2>2
  <2>. QED
    BY <2>3, <2>4 DEF HasItsResults, n
<1>. QED
  BY <1>3, <1>4 DEF WellFormed

(* Two well formed transcripts make a third. *)
LEMMA BothWellFormed ==
  ASSUME NEW a \in Seq(Msg), NEW b \in Seq(Msg), WellFormed(a), WellFormed(b)
  PROVE  a \o b \in Seq(Msg) /\ WellFormed(a \o b)
<1> DEFINE c == a \o b
           m == Len(a)
           n == Len(b)
<1>1. c \in Seq(Msg) /\ Len(c) = m + n /\ m \in Nat /\ n \in Nat
  BY ConcatProperties
<1>2. \A i \in 1..m : c[i] = a[i] /\ a[i] \in Msg
  BY ConcatProperties
<1>3. \A i \in 1..n : c[i + m] = b[i] /\ b[i] \in Msg
  <2> SUFFICES ASSUME NEW i \in 1..n PROVE c[i + m] = b[i]
    OBVIOUS
  <2>. QED
    BY ConcatProperties
<1> HIDE DEF c, m, n
<1>4. ASSUME NEW i \in 1..Len(c)
      PROVE  /\ c[i].role = "tool" => HasItsCall(c, i)
             /\ c[i].role = "assistant" => HasItsResults(c, i)
  <2>1. CASE i \in 1..m
    <3>1. c[i] = a[i] /\ i \in Nat
      BY <2>1, <1>2
    <3>2. ASSUME c[i].role = "tool" PROVE HasItsCall(c, i)
      <4> DEFINE j == i - a[i].call
      <4>1. j >= 1 /\ a[j].role = "assistant" /\ a[j].turn = a[i].turn
              /\ a[i].call <= a[j].calls
        BY <2>1, <3>1, <3>2 DEF WellFormed, HasItsCall, m
      <4>2. a[i].call \in Nat \ {0}
        BY <2>1, <1>2, <3>1, <3>2, MsgParts
      <4>3. j \in 1..m
        BY <4>1, <4>2, <2>1, <1>1
      <4>. QED
        BY <4>1, <4>3, <3>1, <1>2 DEF HasItsCall
    <3>3. ASSUME c[i].role = "assistant" PROVE HasItsResults(c, i)
      <4>1. i + a[i].calls <= m /\ \A k \in 1..a[i].calls : a[i + k] = Result(a[i].turn, k)
        BY <2>1, <3>1, <3>3 DEF WellFormed, HasItsResults, m
      <4>2. a[i].calls \in Nat
        BY <2>1, <1>2, <3>1, <3>3, MsgParts
      <4>3. \A k \in 1..a[i].calls : i + k \in 1..m
        BY <4>1, <4>2, <1>1, <3>1
      <4>. QED
        BY <4>1, <4>2, <4>3, <3>1, <1>1, <1>2 DEF HasItsResults
    <3>. QED
      BY <3>2, <3>3
  <2>2. CASE i \notin 1..m
    <3> DEFINE h == i - m
    <3>1. h \in 1..n /\ i = h + m /\ h \in Nat
      BY <2>2, <1>1
    <3> HIDE DEF h
    <3>2. c[i] = b[h]
      BY <3>1, <1>3
    <3>3. ASSUME c[i].role = "tool" PROVE HasItsCall(c, i)
      <4> DEFINE j == h - b[h].call
      <4>1. j >= 1 /\ b[j].role = "assistant" /\ b[j].turn = b[h].turn
              /\ b[h].call <= b[j].calls
        BY <3>1, <3>2, <3>3 DEF WellFormed, HasItsCall, n
      <4>2. b[h].call \in Nat \ {0}
        BY <3>1, <1>3, <3>2, <3>3, MsgParts
      <4>3. j \in 1..n /\ j + m = i - b[h].call
        BY <4>1, <4>2, <3>1, <1>1
      <4>4. c[i - b[h].call] = b[j]
        BY <4>3, <1>3
      <4>5. i - b[h].call >= 1
        BY <4>3, <1>1
      <4>. QED
        BY <4>1, <4>4, <4>5, <3>2 DEF HasItsCall
    <3>4. ASSUME c[i].role = "assistant" PROVE HasItsResults(c, i)
      <4>1. h + b[h].calls <= n /\ \A k \in 1..b[h].calls : b[h + k] = Result(b[h].turn, k)
        BY <3>1, <3>2, <3>4 DEF WellFormed, HasItsResults, n
      <4>2. b[h].calls \in Nat
        BY <3>1, <1>3, <3>2, <3>4, MsgParts
      <4>3. i + b[h].calls <= Len(c)
        BY <4>1, <4>2, <3>1, <1>1
      <4>4. ASSUME NEW k \in 1..b[h].calls PROVE c[i + k] = Result(b[h].turn, k)
        <5>1. h + k \in 1..n /\ (h + k) + m = i + k
          BY <4>1, <4>2, <3>1, <1>1
        <5>2. c[i + k] = b[h + k]
          BY <5>1, <1>3
        <5>. QED
          BY <5>2, <4>1
      <4>. QED
        BY <4>3, <4>4, <3>2 DEF HasItsResults
    <3>. QED
      BY <3>3, <3>4
  <2>. QED
    BY <2>1, <2>2
<1>. QED
  BY <1>1, <1>4 DEF WellFormed, c

(* What the loop works on: one system message first, and well formed. *)
Good(ms) == ms \in Seq(Msg) /\ OnlyFirstIsSystem(ms) /\ WellFormed(ms)

(* A good transcript and messages that are well formed are a good one. *)
LEMMA GoodThen ==
  ASSUME NEW a, Good(a), NEW t \in Seq(Msg), WellFormed(t),
         \A i \in 1..Len(t) : t[i].role # "system"
  PROVE  Good(a \o t)
<1>1. a \in Seq(Msg) /\ a \o t \in Seq(Msg) /\ WellFormed(a \o t)
  BY BothWellFormed DEF Good
<1>2. Len(a) \in Nat /\ Len(t) \in Nat /\ Len(a) >= 1 /\ a[1].role = "system"
      /\ \A i \in 2..Len(a) : a[i].role # "system"
  BY <1>1 DEF Good, OnlyFirstIsSystem
<1>3. Len(a \o t) = Len(a) + Len(t)
  BY <1>1, ConcatProperties
<1>4. (a \o t)[1] = a[1]
  BY <1>1, <1>2, ConcatProperties
<1>5. ASSUME NEW i \in 2..Len(a \o t) PROVE (a \o t)[i].role # "system"
  <2>1. CASE i <= Len(a)
    <3>1. i \in 2..Len(a) /\ i \in 1..Len(a)
      BY <2>1, <1>2
    <3>2. (a \o t)[i] = a[i]
      BY <1>1, <3>1, ConcatProperties
    <3>. QED
      BY <3>1, <3>2, <1>2
  <2>2. CASE ~ (i <= Len(a))
    <3> DEFINE k == i - Len(a)
    <3>1. k \in 1..Len(t) /\ i = Len(a) + k
      BY <2>2, <1>2, <1>3
    <3> HIDE DEF k
    <3>2. (a \o t)[i] = t[k]
      BY <1>1, <3>1, ConcatProperties
    <3>. QED
      BY <3>1, <3>2
  <2>. QED
    BY <2>1, <2>2
<1>. QED
  BY <1>1, <1>2, <1>3, <1>4, <1>5 DEF Good, OnlyFirstIsSystem

(* A new beginning, and what is left of a good transcript, are a good one. *)
LEMMA NewBeginning ==
  ASSUME NEW ms, Good(ms), NEW pre, Good(pre), NEW t, NEW d, IsTail(t, ms, d), d >= 1,
         Len(t) >= 1 => t[1].role # "tool"
  PROVE  Good(pre \o t)
<1>1. ms \in Seq(Msg) /\ t \in Seq(Msg) /\ WellFormed(t)
  BY TailWellFormed DEF Good, IsTail
<1>2. ASSUME NEW i \in 1..Len(t) PROVE t[i].role # "system"
  <2>1. t[i] = ms[i + d] /\ i + d \in 2..Len(ms)
    BY <1>1 DEF IsTail
  <2>. QED
    BY <2>1 DEF Good, OnlyFirstIsSystem
<1>. QED
  BY <1>1, <1>2, GoodThen

(* The system message alone is a transcript. *)
LEMMA SystemAlone ==
  ASSUME NEW ms, Good(ms)
  PROVE  Good(<<ms[1]>>)
<1>1. ms[1] \in Msg /\ ms[1].role = "system"
  BY DEF Good, OnlyFirstIsSystem
<1> DEFINE s == <<ms[1]>>
<1>2. s \in Seq(Msg) /\ Len(s) = 1 /\ s[1] = ms[1]
  BY <1>1
<1> HIDE DEF s
<1>3. WellFormed(s)
  BY <1>1, <1>2 DEF WellFormed
<1>. QED
  BY <1>1, <1>2, <1>3 DEF Good, OnlyFirstIsSystem, s

(* So is it with a summary and the acknowledgment of it. *)
LEMMA SummaryOnly ==
  ASSUME NEW ms, Good(ms)
  PROVE  Good(<<ms[1]>> \o <<User(TRUE), Says>>)
<1> DEFINE b == <<User(TRUE), Says>>
<1>1. b \in Seq(Msg) /\ Len(b) = 2
  <2>1. \A x, y \in Msg : <<x, y>> \in Seq(Msg) /\ Len(<<x, y>>) = 2
    OBVIOUS
  <2>. QED
    BY <2>1, MsgKinds
<1>2. b[1] = User(TRUE) /\ b[2] = Says
  OBVIOUS
<1> HIDE DEF b
<1>3. WellFormed(b) /\ \A i \in 1..Len(b) : b[i].role # "system"
  BY <1>1, <1>2 DEF WellFormed, HasItsResults, User, Says
<1>. QED
  BY <1>1, <1>3, SystemAlone, GoodThen DEF b

(* What is kept of the dialogue begins with no result. *)
LEMMA KeptIsTail ==
  ASSUME NEW ms, Good(ms), NEW e \in 0..Len(DialogueOf(ms))
  PROVE  LET s == FromNoResult(SubSeq(DialogueOf(ms), e + 1, Len(DialogueOf(ms)))) IN
           /\ Len(s) >= 1 => s[1].role # "tool"
           /\ \E d : d >= 1 /\ IsTail(s, ms, d)
<1> DEFINE t == DialogueOf(ms)
           u == SubSeq(t, e + 1, Len(t))
           s == FromNoResult(u)
<1>1. ms \in Seq(Msg) /\ IsTail(t, ms, 1)
  BY DialogueIsTail DEF Good
<1>2. t \in Seq(Msg)
  BY <1>1 DEF IsTail
<1>3. IsTail(u, t, e)
  <2> HIDE DEF t
  <2>. QED
    BY <1>2, SubSeqIsTail DEF t
<1>4. u \in Seq(Msg)
  BY <1>3 DEF IsTail
<1>5. PICK d \in 0..Len(u) : IsTail(s, u, d) /\ (Len(s) >= 1 => s[1].role # "tool")
  <2> HIDE DEF u
  <2>. QED
    BY <1>4, FromNoResultIsTail DEF s
<1> HIDE DEF t, u, s
<1>6. IsTail(u, ms, 1 + e)
  BY <1>1, <1>3, TailOfTail
<1>7. IsTail(s, ms, (1 + e) + d)
  BY <1>1, <1>5, <1>6, TailOfTail
<1>8. (1 + e) + d >= 1
  BY <1>2, <1>4, <1>5
<1>. QED
  BY <1>5, <1>7, <1>8 DEF s, t, u

(* Trimming leaves a good transcript. *)
LEMMA TrimmedGood ==
  ASSUME NEW ms, Good(ms)
  PROVE  Good(Trimmed(ms))
<1> DEFINE t == DialogueOf(ms)
           e == Len(t) - MaxHistory
           s == FromNoResult(SubSeq(t, e + 1, Len(t)))
<1>1. CASE MaxHistory = 0 \/ Len(t) <= MaxHistory
  BY <1>1 DEF Trimmed
<1>2. CASE ~ (MaxHistory = 0 \/ Len(t) <= MaxHistory)
  <2>1. IsTail(t, ms, 1)
    BY DialogueIsTail DEF Good
  <2>2. Len(t) \in Nat
    BY <2>1 DEF IsTail
  <2>3. e \in 0..Len(t)
    BY <1>2, <2>2, LimitsAssumption
  <2>4. SystemOf(ms) = <<ms[1]>>
    BY SystemIsFirst DEF Good
  <2>5. Trimmed(ms) = <<ms[1]>> \o s
    BY <1>2, <2>4 DEF Trimmed
  <2> HIDE DEF e
  <2>6. (Len(s) >= 1 => s[1].role # "tool") /\ \E d : d >= 1 /\ IsTail(s, ms, d)
    BY <2>3, KeptIsTail
  <2> HIDE DEF s
  <2>. QED
    BY <2>5, <2>6, SystemAlone, NewBeginning
<1>. QED
  BY <1>1, <1>2

(* And so does compaction. *)
LEMMA CompactedGood ==
  ASSUME NEW ms, Good(ms)
  PROVE  Good(Compacted(ms))
<1> DEFINE t == DialogueOf(ms)
           share == (Len(t) * 2) \div 5
           e == IF share > 2 THEN share ELSE 2
           s == FromNoResult(SubSeq(t, e + 1, Len(t)))
<1>1. CASE e >= Len(t)
  BY <1>1 DEF Compacted
<1>2. CASE ~ (e >= Len(t))
  <2>1. IsTail(t, ms, 1)
    BY DialogueIsTail DEF Good
  <2>2. Len(t) \in Nat
    BY <2>1 DEF IsTail
  <2>3. e \in 0..Len(t)
    BY <1>2, <2>2
  <2>4. SystemOf(ms) = <<ms[1]>>
    BY SystemIsFirst DEF Good
  <2>5. Compacted(ms) = (<<ms[1]>> \o <<User(TRUE), Says>>) \o s
    BY <1>2, <2>4 DEF Compacted
  <2> HIDE DEF e
  <2>6. (Len(s) >= 1 => s[1].role # "tool") /\ \E d : d >= 1 /\ IsTail(s, ms, d)
    BY <2>3, KeptIsTail
  <2> HIDE DEF s
  <2>. QED
    BY <2>5, <2>6, SummaryOnly, NewBeginning
<1>. QED
  BY <1>1, <1>2

(* The call of a result is the last message before it that is no result. *)
LEMMA CallIsLast ==
  ASSUME NEW ms \in Seq(Msg), WellFormed(ms), NEW i \in 1..Len(ms), ms[i].role = "tool",
         NEW c \in 1..(i - 1), ms[c].role # "tool",
         \A q \in (c + 1)..(i - 1) : ms[q].role = "tool"
  PROVE  /\ ms[i].call = i - c
         /\ ms[c].role = "assistant"
         /\ ms[c].turn = ms[i].turn
         /\ ms[i].call <= ms[c].calls
<1> DEFINE h == ms[i].call
           j == i - h
<1>1. h \in Nat \ {0} /\ i \in Nat /\ Len(ms) \in Nat /\ c \in Nat /\ c < i
  BY MsgParts
<1>2. HasItsCall(ms, i)
  BY DEF WellFormed
<1>3. j >= 1 /\ ms[j].role = "assistant" /\ ms[j].turn = ms[i].turn /\ h <= ms[j].calls
  BY <1>2, CallIs
<1> HIDE DEF h
<1>4. j \in 1..Len(ms) /\ j < i
  BY <1>1, <1>3
<1>5. ms[j].calls \in Nat /\ HasItsResults(ms, j)
  BY <1>3, <1>4, MsgParts DEF WellFormed
<1>6. ~ (j < c)
  <2> SUFFICES ASSUME j < c PROVE FALSE
    OBVIOUS
  <2>1. c - j \in 1..ms[j].calls /\ j + (c - j) = c
    BY <1>1, <1>3, <1>4, <1>5
  <2>2. ms[c] = Result(ms[j].turn, c - j)
    <3> HIDE DEF j
    <3>. QED
      BY <2>1, <1>5 DEF HasItsResults
  <2>. QED
    BY <2>2 DEF Result
<1>7. ~ (c < j)
  <2> SUFFICES ASSUME c < j PROVE FALSE
    OBVIOUS
  <2>1. j \in (c + 1)..(i - 1)
    BY <1>1, <1>4
  <2> HIDE DEF j
  <2>. QED
    BY <2>1, <1>3
<1>8. j = c
  BY <1>1, <1>4, <1>6, <1>7
<1>. QED
  BY <1>1, <1>3, <1>8 DEF h

(* A call or a result; validation may merge other messages. *)
Matters(m) == m.role = "tool" \/ (m.role = "assistant" /\ m.calls > 0)

(* v has all calls and results there are among the first k messages. *)
HasAll(v, ms, k) ==
  \A i \in 1..k : Matters(ms[i]) => \E j \in 1..Len(v) : v[j] = ms[i]

(***************************************************************************)
(* v is what validation has made of the first k messages: behind d it is   *)
(* what ms is behind c, the last message that is no result; up to d every  *)
(* call has its results; and no call or result is missing.                 *)
(***************************************************************************)
Mirrors(v, ms, k, c, d) ==
  /\ c \in 1..k /\ d \in 1..Len(v) /\ Len(v) = d + (k - c)
  /\ ms[c].role # "tool"
  /\ \A q \in 1..(k - c) : ms[c + q].role = "tool" /\ v[d + q] = ms[c + q]
  /\ v[d].role = ms[c].role
  /\ ms[c].role = "assistant" => v[d].calls = ms[c].calls
  /\ ms[c].role = "assistant" /\ ms[c].calls > 0 => v[d] = ms[c]
  /\ \A i \in 1..Len(v) : v[i].role = "tool" => HasItsCall(v, i)
  /\ \A i \in 1..(d - 1) : v[i].role = "assistant" => HasItsResults(v, i)
  /\ HasAll(v, ms, k)

(* One message more is there, whether it mattered or not. *)
LEMMA HasOneMore ==
  ASSUME NEW ms \in Seq(Msg), NEW v \in Seq(Msg), NEW k \in Nat, HasAll(v, ms, k)
  PROVE  /\ HasAll(Append(v, ms[k + 1]), ms, k + 1)
         /\ ~ Matters(ms[k + 1]) => HasAll(v, ms, k + 1)
<1> DEFINE m == ms[k + 1]
           w == Append(v, m)
<1>1. Len(v) \in Nat /\ Len(w) = Len(v) + 1 /\ w[Len(v) + 1] = m
      /\ \A j \in 1..Len(v) : w[j] = v[j]
  OBVIOUS
<1> HIDE DEF w
<1>2. ASSUME NEW i \in 1..(k + 1), Matters(ms[i])
      PROVE  \E j \in 1..Len(w) : w[j] = ms[i]
  <2>1. CASE i = k + 1
    <3>1. Len(v) + 1 \in 1..Len(w) /\ w[Len(v) + 1] = ms[i]
      BY <1>1, <2>1
    <3>. QED
      BY <3>1
  <2>2. CASE i # k + 1
    <3>1. i \in 1..k
      BY <2>2
    <3>2. PICK j \in 1..Len(v) : v[j] = ms[i]
      BY <3>1, <1>2 DEF HasAll
    <3>3. j \in 1..Len(w) /\ w[j] = ms[i]
      BY <1>1, <3>2
    <3>. QED
      BY <3>3
  <2>. QED
    BY <2>1, <2>2
<1>3. ASSUME ~ Matters(m), NEW i \in 1..(k + 1), Matters(ms[i])
      PROVE  \E j \in 1..Len(v) : v[j] = ms[i]
  <2>1. i \in 1..k
    BY <1>3
  <2>. QED
    BY <2>1, <1>3 DEF HasAll
<1>. QED
  BY <1>2, <1>3 DEF HasAll, w

(* What is well formed stays so when a message is appended. *)
LEMMA AppendKeeps ==
  ASSUME NEW v \in Seq(Msg), NEW m \in Msg, NEW i \in 1..Len(v)
  PROVE  /\ v[i].role = "tool" /\ HasItsCall(v, i) => HasItsCall(Append(v, m), i)
         /\ v[i].role = "assistant" /\ HasItsResults(v, i) => HasItsResults(Append(v, m), i)
<1> DEFINE w == Append(v, m)
<1>1. Len(v) \in Nat /\ Len(w) = Len(v) + 1 /\ \A q \in 1..Len(v) : w[q] = v[q] /\ v[q] \in Msg
  OBVIOUS
<1> HIDE DEF w
<1>2. ASSUME v[i].role = "tool", HasItsCall(v, i) PROVE HasItsCall(w, i)
  <2>1. v[i].call \in Nat \ {0}
    BY <1>2, MsgParts
  <2>2. i - v[i].call \in 1..Len(v)
    BY <1>1, <1>2, <2>1, CallIs
  <2>3. w[i] = v[i] /\ w[i - v[i].call] = v[i - v[i].call]
    BY <1>1, <2>2
  <2>. QED
    BY <1>2, <2>3, CallIs DEF HasItsCall
<1>3. ASSUME v[i].role = "assistant", HasItsResults(v, i) PROVE HasItsResults(w, i)
  <2>1. v[i].calls \in Nat
    BY <1>3, MsgParts
  <2>2. i + v[i].calls <= Len(v)
    BY <1>3 DEF HasItsResults
  <2>3. \A k \in 1..v[i].calls : i + k \in 1..Len(v)
    BY <1>1, <2>1, <2>2
  <2>. QED
    BY <1>1, <1>3, <2>1, <2>2, <2>3 DEF HasItsResults
<1>. QED
  BY <1>2, <1>3 DEF w

(* Where no result follows, the last call has all of them. *)
LEMMA CallIsComplete ==
  ASSUME NEW ms \in Seq(Msg), WellFormed(ms), NEW v \in Seq(Msg), NEW k \in 1..Len(ms),
         NEW c, NEW d, Mirrors(v, ms, k, c, d), v[d].role = "assistant",
         k < Len(ms) => ms[k + 1].role # "tool"
  PROVE  HasItsResults(v, d)
<1> DEFINE n == ms[c].calls
<1>1. c \in 1..k /\ d \in 1..Len(v) /\ Len(v) = d + (k - c) /\ ms[c].role = "assistant"
      /\ v[d].calls = n /\ (n > 0 => v[d] = ms[c])
      /\ \A q \in 1..(k - c) : v[d + q] = ms[c + q]
  BY DEF Mirrors
<1>2. c \in 1..Len(ms) /\ k \in Nat /\ Len(ms) \in Nat /\ Len(v) \in Nat /\ c \in Nat /\ d \in Nat
  BY <1>1
<1>3. n \in Nat
  BY <1>1, <1>2, MsgParts
<1>4. c + n <= Len(ms) /\ \A q \in 1..n : ms[c + q] = Result(ms[c].turn, q)
  BY <1>1, <1>2 DEF WellFormed, HasItsResults
<1> HIDE DEF n
<1>5. c + n <= k
  <2> SUFFICES ASSUME ~ (c + n <= k) PROVE FALSE
    OBVIOUS
  <2>1. (k + 1) - c \in 1..n /\ c + ((k + 1) - c) = k + 1 /\ k < Len(ms)
    BY <1>1, <1>2, <1>3, <1>4
  <2>2. ms[k + 1] = Result(ms[c].turn, (k + 1) - c)
    BY <1>4, <2>1
  <2>. QED
    BY <2>1, <2>2 DEF Result
<1>6. d + n <= Len(v)
  BY <1>1, <1>2, <1>3, <1>5
<1>7. ASSUME NEW q \in 1..n PROVE v[d + q] = Result(v[d].turn, q)
  <2>1. q \in 1..(k - c) /\ n > 0
    BY <1>2, <1>3, <1>5, <1>1
  <2>. QED
    BY <1>1, <1>4, <2>1
<1>. QED
  BY <1>1, <1>6, <1>7 DEF HasItsResults

(* Where validation looks for the call of a result. *)
LEMMA ResultFollows ==
  ASSUME NEW v \in Seq(Msg), NEW d \in 1..Len(v), v[d].role = "assistant", v[d].calls > 0,
         \A i \in (d + 1)..Len(v) : v[i].role = "tool"
  PROVE  ResultMayFollow(v)
<1> DEFINE I == {i \in 1..Len(v) : v[i].role # "tool"}
<1>1. d \in I /\ \A i \in I : i \in Nat /\ i <= d
  <2>1. d \in I
    OBVIOUS
  <2>2. ASSUME NEW i \in I PROVE i <= d
    <3> SUFFICES ASSUME ~ (i <= d) PROVE FALSE
      OBVIOUS
    <3>1. i \in (d + 1)..Len(v)
      OBVIOUS
    <3>. QED
      BY <3>1
  <2>. QED
    BY <2>1, <2>2
<1>2. SelectLastInSeq(v, LAMBDA m : m.role # "tool") = IF I # {} THEN Max(I) ELSE 0
  BY DEF SelectLastInSeq
<1> HIDE DEF I
<1>3. Max(I) = d
  <2>1. \A y \in I : d >= y
    BY <1>1
  <2>2. \A x \in I : (\A y \in I : x >= y) => x = d
    BY <1>1
  <2>3. \E x \in I : \A y \in I : x >= y
    BY <1>1, <2>1
  <2>. QED
    BY <2>2, <2>3, Zenon DEF Max
<1>4. SelectLastInSeq(v, LAMBDA m : m.role # "tool") = d
  BY <1>1, <1>2, <1>3
<1>. QED
  BY <1>4 DEF ResultMayFollow

(* The first message is taken as it is. *)
LEMMA FirstMirrors ==
  ASSUME NEW ms \in Seq(Msg), WellFormed(ms), Len(ms) >= 1
  PROVE  Mirrors(Accept(<<>>, ms[1]), ms, 1, 1, 1)
<1> DEFINE m == ms[1]
           v == <<m>>
<1>1. 1 \in 1..Len(ms) /\ m \in Msg
  OBVIOUS
<1>2. m.role # "tool"
  <2> SUFFICES ASSUME m.role = "tool" PROVE FALSE
    OBVIOUS
  <2>1. HasItsCall(ms, 1)
    BY <1>1 DEF WellFormed
  <2>2. m.call \in Nat \ {0}
    BY <1>1, MsgParts
  <2>3. 1 - m.call >= 1
    BY <2>1, CallIs
  <2> HIDE DEF m
  <2>. QED
    BY <2>2, <2>3
<1> HIDE DEF m
<1>3. Accept(<<>>, m) = v
  BY <1>2 DEF Accept
<1>4. Len(v) = 1 /\ v[1] = m
  OBVIOUS
<1> HIDE DEF v
<1>5. HasAll(v, ms, 1)
  BY <1>4 DEF HasAll, m
<1>6. Mirrors(v, ms, 1, 1, 1)
  BY <1>2, <1>4, <1>5 DEF Mirrors, m
<1>. QED
  BY <1>3, <1>6 DEF m

(* A result is taken, and it stands behind its call. *)
LEMMA ResultMirrors ==
  ASSUME NEW ms \in Seq(Msg), WellFormed(ms), NEW v \in Seq(Msg),
         NEW k \in 1..(Len(ms) - 1), NEW c, NEW d, Mirrors(v, ms, k, c, d),
         ms[k + 1].role = "tool"
  PROVE  Mirrors(Accept(v, ms[k + 1]), ms, k + 1, c, d)
<1> DEFINE m == ms[k + 1]
           w == Append(v, m)
<1>1. c \in 1..k /\ d \in 1..Len(v) /\ Len(v) = d + (k - c) /\ ms[c].role # "tool"
      /\ \A q \in 1..(k - c) : ms[c + q].role = "tool" /\ v[d + q] = ms[c + q]
  BY DEF Mirrors
<1>2. k \in Nat /\ c \in Nat /\ d \in Nat /\ Len(ms) \in Nat /\ Len(v) \in Nat /\ c <= k
  BY <1>1
<1>3. m \in Msg /\ k + 1 \in 1..Len(ms)
  BY <1>2
<1>4. \A q \in (c + 1)..k : ms[q].role = "tool"
  <2> SUFFICES ASSUME NEW q \in (c + 1)..k PROVE ms[q].role = "tool"
    OBVIOUS
  <2>1. q - c \in 1..(k - c) /\ c + (q - c) = q
    BY <1>2
  <2>. QED
    BY <2>1, <1>1
<1>5. m.call = (k + 1) - c /\ ms[c].role = "assistant" /\ ms[c].turn = m.turn
      /\ m.call <= ms[c].calls
  <2> DEFINE i == k + 1
  <2>1. i \in 1..Len(ms) /\ c \in 1..(i - 1) /\ i - 1 = k
    BY <1>1, <1>2, <1>3
  <2>2. \A q \in (c + 1)..(i - 1) : ms[q].role = "tool"
    BY <1>4, <2>1
  <2> HIDE DEF i
  <2>3. ms[i].role = "tool"
    BY DEF i
  <2>4. ms[i].call = i - c /\ ms[c].role = "assistant" /\ ms[c].turn = ms[i].turn
        /\ ms[i].call <= ms[c].calls
    BY <1>1, <2>1, <2>2, <2>3, CallIsLast
  <2>. QED
    BY <2>4 DEF i
<1>6. v[d] = ms[c] /\ ms[c].calls > 0
  <2>1. ms[c] \in Msg
    BY <1>1, <1>2
  <2>2. ms[c].calls \in Nat
    BY <2>1, <1>5, MsgParts
  <2>3. ms[c].calls > 0
    BY <2>2, <1>2, <1>5
  <2>. QED
    BY <2>3, <1>5 DEF Mirrors
<1>7. \A i \in (d + 1)..Len(v) : v[i].role = "tool"
  <2> SUFFICES ASSUME NEW i \in (d + 1)..Len(v) PROVE v[i].role = "tool"
    OBVIOUS
  <2>1. i - d \in 1..(k - c) /\ d + (i - d) = i
    BY <1>1, <1>2
  <2>. QED
    BY <2>1, <1>1
<1>8. ResultMayFollow(v)
  BY <1>1, <1>5, <1>6, <1>7, ResultFollows
<1> HIDE DEF m
<1>9. Accept(v, m) = w
  BY <1>8, <1>3, MsgKinds DEF Accept, MergesWith, m
<1>10. Len(w) = Len(v) + 1 /\ w[Len(v) + 1] = m /\ \A i \in 1..Len(v) : w[i] = v[i]
  BY <1>3
<1> HIDE DEF w
<1>11. Mirrors(w, ms, k + 1, c, d)
  <2>1. c \in 1..(k + 1) /\ d \in 1..Len(w) /\ Len(w) = d + ((k + 1) - c) /\ w[d] = v[d]
    BY <1>1, <1>2, <1>10
  <2>2. ASSUME NEW q \in 1..((k + 1) - c)
        PROVE  ms[c + q].role = "tool" /\ w[d + q] = ms[c + q]
    <3>1. CASE q \in 1..(k - c)
      <4>1. d + q \in 1..Len(v)
        BY <3>1, <1>1, <1>2
      <4>. QED
        BY <4>1, <3>1, <1>1, <1>10
    <3>2. CASE q \notin 1..(k - c)
      <4>1. c + q = k + 1 /\ d + q = Len(v) + 1
        BY <3>2, <1>1, <1>2
      <4>. QED
        BY <4>1, <1>10 DEF m
    <3>. QED
      BY <3>1, <3>2
  <2>3. ASSUME NEW i \in 1..Len(w), w[i].role = "tool" PROVE HasItsCall(w, i)
    <3>1. CASE i \in 1..Len(v)
      <4>1. HasItsCall(v, i) /\ v[i].role = "tool"
        BY <3>1, <2>3, <1>10 DEF Mirrors
      <4>. QED
        BY <4>1, <3>1, <1>3, AppendKeeps DEF w
    <3>2. CASE i \notin 1..Len(v)
      <4>1. i = Len(v) + 1 /\ w[i] = m
        BY <3>2, <1>2, <1>10
      <4>2. i - m.call = d
        BY <4>1, <1>1, <1>2, <1>5
      <4>3. w[d] = ms[c] /\ d >= 1
        BY <1>1, <1>6, <2>1
      <4>. QED
        BY <4>1, <4>2, <4>3, <1>5 DEF HasItsCall
    <3>. QED
      BY <3>1, <3>2
  <2>4. ASSUME NEW i \in 1..(d - 1), w[i].role = "assistant" PROVE HasItsResults(w, i)
    <3>1. i \in 1..Len(v)
      BY <1>1, <1>2
    <3>2. HasItsResults(v, i) /\ v[i].role = "assistant"
      BY <3>1, <2>4, <1>10 DEF Mirrors
    <3>. QED
      BY <3>1, <3>2, <1>3, AppendKeeps DEF w
  <2>5. HasAll(w, ms, k + 1)
    <3>1. HasAll(v, ms, k)
      BY DEF Mirrors
    <3>. QED
      BY <3>1, <1>2, HasOneMore DEF w, m
  <2>. QED
    BY <1>1, <1>5, <1>6, <2>1, <2>2, <2>3, <2>4, <2>5 DEF Mirrors
<1>. QED
  BY <1>9, <1>11 DEF m

(* Any other message is merged with the last or appended to it. *)
LEMMA OtherMirrors ==
  ASSUME NEW ms \in Seq(Msg), WellFormed(ms), NEW v \in Seq(Msg),
         NEW k \in 1..(Len(ms) - 1), NEW c, NEW d, Mirrors(v, ms, k, c, d),
         ms[k + 1].role # "tool"
  PROVE  \E e : Mirrors(Accept(v, ms[k + 1]), ms, k + 1, k + 1, e)
<1> DEFINE m == ms[k + 1]
           w == Append(v, m)
<1>1. c \in 1..k /\ d \in 1..Len(v) /\ Len(v) = d + (k - c) /\ ms[c].role # "tool"
      /\ \A q \in 1..(k - c) : ms[c + q].role = "tool" /\ v[d + q] = ms[c + q]
  BY DEF Mirrors
<1>2. k \in Nat /\ c \in Nat /\ d \in Nat /\ Len(ms) \in Nat /\ Len(v) \in Nat /\ c <= k
  BY <1>1
<1>3. m \in Msg /\ k + 1 \in 1..Len(ms) /\ k \in 1..Len(ms)
  BY <1>2
<1>4. v[d].role = "assistant" => HasItsResults(v, d)
  BY <1>3, CallIsComplete
<1>5. \A i \in (d + 1)..Len(v) : v[i].role = "tool"
  <2> SUFFICES ASSUME NEW i \in (d + 1)..Len(v) PROVE v[i].role = "tool"
    OBVIOUS
  <2>1. i - d \in 1..(k - c) /\ d + (i - d) = i
    BY <1>1, <1>2
  <2>. QED
    BY <2>1, <1>1
<1>6. \A i \in 1..Len(v) : /\ v[i].role = "tool" => HasItsCall(v, i)
                           /\ v[i].role = "assistant" => HasItsResults(v, i)
  <2> SUFFICES ASSUME NEW i \in 1..Len(v), v[i].role = "assistant"
               PROVE  HasItsResults(v, i)
    BY DEF Mirrors
  <2>1. CASE i < d
    <3>1. i \in 1..(d - 1)
      BY <2>1, <1>2
    <3>. QED
      BY <3>1 DEF Mirrors
  <2>2. CASE i = d
    BY <2>2, <1>4
  <2>3. CASE i > d
    <3>1. i \in (d + 1)..Len(v)
      BY <2>3, <1>2
    <3>. QED
      BY <3>1, <1>5
  <2>. QED
    BY <2>1, <2>2, <2>3, <1>2
<1>0. /\ HasAll(w, ms, k + 1)
      /\ ~ Matters(m) => HasAll(v, ms, k + 1)
  <2>1. HasAll(v, ms, k)
    BY DEF Mirrors
  <2>. QED
    BY <2>1, <1>2, HasOneMore
<1> HIDE DEF m
<1>7. CASE MergesWith(Last(v), m)
  <2>1. Accept(v, m) = v
    <3>1. v # <<>>
      BY <1>1
    <3>. QED
      BY <3>1, <1>7 DEF Accept
  <2>2. Last(v) = v[Len(v)] /\ v[Len(v)].role # "tool" /\ v[Len(v)].role = m.role
        /\ (m.role = "assistant" => v[Len(v)].calls = 0 /\ m.calls = 0)
    BY <1>7 DEF Last, MergesWith
  <2>3. Len(v) \in 1..Len(v)
    BY <1>1
  <2>4. Mirrors(v, ms, k + 1, k + 1, Len(v))
    <3>1. (k + 1) - (k + 1) = 0 /\ 1..0 = {} /\ k + 1 \in 1..(k + 1)
      BY <1>2
    <3>2. Len(v) = Len(v) + ((k + 1) - (k + 1))
      BY <1>2, <3>1
    <3>3. \A i \in 1..(Len(v) - 1) : i \in 1..Len(v)
      BY <1>2
    <3>4. HasAll(v, ms, k + 1)
      <4>1. m.role # "tool"
        BY DEF m
      <4>2. ~ (m.role = "assistant" /\ m.calls > 0)
        BY <2>2
      <4>. QED
        BY <4>1, <4>2, <1>0 DEF Matters
    <3>. QED
      BY <2>2, <2>3, <3>1, <3>2, <3>3, <3>4, <1>6 DEF Mirrors, m
  <2>. QED
    BY <2>1, <2>4 DEF m
<1>8. CASE ~ MergesWith(Last(v), m)
  <2>1. Accept(v, m) = w
    BY <1>8 DEF Accept, m
  <2>2. Len(w) = Len(v) + 1 /\ w[Len(v) + 1] = m /\ \A i \in 1..Len(v) : w[i] = v[i]
    BY <1>3
  <2> HIDE DEF w
  <2>3. \A i \in 1..Len(v) : /\ w[i].role = "tool" => HasItsCall(w, i)
                             /\ w[i].role = "assistant" => HasItsResults(w, i)
    BY <1>3, <1>6, <2>2, AppendKeeps DEF w
  <2>4. Mirrors(w, ms, k + 1, k + 1, Len(w))
    <3>1. (k + 1) - (k + 1) = 0 /\ 1..0 = {} /\ k + 1 \in 1..(k + 1)
      BY <1>2
    <3>2. Len(w) \in 1..Len(w) /\ Len(w) = Len(w) + ((k + 1) - (k + 1)) /\ w[Len(w)] = m
      BY <1>2, <2>2, <3>1
    <3>3. ASSUME NEW i \in 1..Len(w), w[i].role = "tool" PROVE HasItsCall(w, i)
      <4>1. i # Len(w)
        BY <3>2, <3>3 DEF m
      <4>2. i \in 1..Len(v)
        BY <4>1, <1>2, <2>2
      <4>. QED
        BY <4>2, <3>3, <2>3
    <3>4. \A i \in 1..(Len(w) - 1) : w[i].role = "assistant" => HasItsResults(w, i)
      BY <1>2, <2>2, <2>3
    <3>5. HasAll(w, ms, k + 1)
      BY <1>0 DEF w
    <3>. QED
      BY <3>1, <3>2, <3>3, <3>4, <3>5 DEF Mirrors, m
  <2>. QED
    BY <2>1, <2>4 DEF m
<1>. QED
  BY <1>7, <1>8

(* The provider is sent a well formed transcript when it is given one, and all of its calls. *)
LEMMA ValidatedWellFormed ==
  ASSUME NEW ms \in Seq(Msg), WellFormed(ms)
  PROVE  WellFormed(Validated(ms)) /\ HasAll(Validated(ms), ms, Len(ms))
<1>1. PICK f \in [0..Len(ms) -> Seq(Msg)] :
        /\ f[0] = <<>>
        /\ \A k \in 1..Len(ms) : f[k] = Accept(f[k - 1], ms[k])
        /\ Validated(ms) = f[Len(ms)]
  BY ValidatedSteps
<1>2. CASE Len(ms) = 0
  BY <1>1, <1>2 DEF WellFormed, HasAll
<1>3. CASE Len(ms) # 0
  <2> DEFINE Mirrored(k) == \E c, d : Mirrors(f[k], ms, k, c, d)
             T == {k \in 0..Len(ms) : k = 0 \/ Mirrored(k)}
  <2>1. Len(ms) \in Nat /\ Len(ms) >= 1
    BY <1>3
  <2>2. Mirrored(1)
    <3>1. f[1] = Accept(f[1 - 1], ms[1])
      BY <1>1, <2>1
    <3>2. f[1] = Accept(<<>>, ms[1])
      BY <1>1, <3>1
    <3>. QED
      BY <2>1, <3>2, FirstMirrors
  <2>3. ASSUME NEW k \in 1..(Len(ms) - 1), Mirrored(k)
        PROVE  Mirrored(k + 1)
    <3>1. PICK c, d : Mirrors(f[k], ms, k, c, d)
      BY <2>3
    <3>2. f[k] \in Seq(Msg)
      BY <2>1
    <3>3. f[k + 1] = Accept(f[k], ms[k + 1])
      <4>1. k + 1 \in 1..Len(ms) /\ (k + 1) - 1 = k
        BY <2>1
      <4>. QED
        BY <4>1, <1>1
    <3>. QED
      BY <3>1, <3>2, <3>3, ResultMirrors, OtherMirrors
  <2>4. 0 \in T
    BY <2>1
  <2>5. \A k \in 1..Len(ms) : k - 1 \in T => k \in T
    <3> SUFFICES ASSUME NEW k \in 1..Len(ms), k - 1 \in T PROVE Mirrored(k)
      BY <2>1
    <3> HIDE DEF Mirrored
    <3>1. CASE k = 1
      BY <3>1, <2>2
    <3>2. CASE k # 1
      <4>1. k - 1 \in 1..(Len(ms) - 1) /\ (k - 1) + 1 = k /\ Mirrored(k - 1)
        BY <3>2, <2>1
      <4>2. Mirrored((k - 1) + 1)
        BY <4>1, <2>3
      <4>. QED
        BY <4>1, <4>2
    <3>. QED
      BY <3>1, <3>2
  <2> HIDE DEF T
  <2>6. \A k \in 0..Len(ms) : k \in T
    BY <2>1, <2>4, <2>5, UpTo, Zenon
  <2>7. PICK c, d : Mirrors(f[Len(ms)], ms, Len(ms), c, d)
    BY <2>1, <2>6 DEF T
  <2> DEFINE v == f[Len(ms)]
  <2>8. v \in Seq(Msg)
    BY <2>1
  <2> HIDE DEF v
  <2>9. Mirrors(v, ms, Len(ms), c, d)
    BY <2>7 DEF v
  <2>10. v[d].role = "assistant" => HasItsResults(v, d)
    BY <2>1, <2>8, <2>9, CallIsComplete
  <2>11. d \in 1..Len(v) /\ Len(v) = d + (Len(ms) - c) /\ c \in 1..Len(ms)
         /\ \A q \in 1..(Len(ms) - c) : v[d + q].role = "tool"
    BY <2>9 DEF Mirrors
  <2>12. ASSUME NEW i \in 1..Len(v), v[i].role = "assistant" PROVE HasItsResults(v, i)
    <3>1. Len(v) \in Nat /\ d \in Nat /\ c \in Nat
      BY <2>8, <2>11
    <3>2. CASE i < d
      <4>1. i \in 1..(d - 1)
        BY <3>1, <3>2
      <4>. QED
        BY <4>1, <2>9, <2>12 DEF Mirrors
    <3>3. CASE i = d
      BY <3>3, <2>10, <2>12
    <3>4. CASE i > d
      <4>1. i - d \in 1..(Len(ms) - c) /\ d + (i - d) = i
        BY <3>1, <3>4, <2>1, <2>11
      <4>. QED
        BY <4>1, <2>11, <2>12
    <3>. QED
      BY <3>1, <3>2, <3>3, <3>4
  <2>13. \A i \in 1..Len(v) : v[i].role = "tool" => HasItsCall(v, i)
    BY <2>9 DEF Mirrors
  <2>14. HasAll(v, ms, Len(ms))
    BY <2>9 DEF Mirrors
  <2>. QED
    BY <1>1, <2>12, <2>13, <2>14 DEF WellFormed, v
<1>. QED
  BY <1>2, <1>3

(***************************************************************************)
(* The results of the calls of this iteration are being appended: before   *)
(* the message that makes the calls every call has its results, and behind *)
(* it stand those that have run.                                           *)
(***************************************************************************)
InCalls(ms, b) ==
  /\ ms \in Seq(Msg) /\ OnlyFirstIsSystem(ms)
  /\ running \in 0..Calls /\ Calls \in Nat
  /\ b \in 2..Len(ms) /\ Len(ms) = b + running
  /\ ms[b] = CallsFor(iteration, Calls)
  /\ \A k \in 1..running : ms[b + k] = Result(iteration, k)
  /\ \A i \in 1..Len(ms) : ms[i].role = "tool" => HasItsCall(ms, i)
  /\ \A i \in 1..(b - 1) : ms[i].role = "assistant" => HasItsResults(ms, i)

TranscriptInv ==
  /\ iteration \in Nat
  /\ executed \in Seq(Signatures)
  /\ phase = "prepare" \/ Asked => Good(messages)
  /\ Asked => WellFormed(sent) /\ HasAll(sent, messages, Len(messages))
  /\ phase = "tools" => \E b \in Nat : InCalls(messages, b)

(* A turn begins with a good transcript. *)
LEMMA TranscriptInit == TurnInit => TranscriptInv
<1> SUFFICES ASSUME TurnInit PROVE TranscriptInv
  OBVIOUS
<1>1. PICK past \in Past, isText \in BOOLEAN :
        messages = <<System>> \o past \o <<User(isText)>>
  BY DEF TurnInit
<1> DEFINE a == <<System>>
           z == <<User(isText)>>
<1>2. a \in Seq(Msg) /\ Len(a) = 1 /\ a[1].role = "system"
  <2>1. System \in Msg
    BY MsgKinds
  <2>. QED
    BY <2>1 DEF System
<1>3. Good(a)
  <2> HIDE DEF a
  <2>. QED
    BY <1>2 DEF Good, OnlyFirstIsSystem, WellFormed
<1> DEFINE H == {User(TRUE), Says}
<1>4. \A h \in H : /\ h \in Msg /\ h.role \in {"user", "assistant"}
                   /\ h.role = "assistant" => h.calls = 0
  <2>1. User(TRUE) \in Msg /\ Says \in Msg
    BY MsgKinds
  <2>2. /\ User(TRUE).role = "user"
        /\ Says.role = "assistant" /\ Says.calls = 0
    BY DEF User, Says
  <2>. QED
    BY <2>1, <2>2, Zenon
<1>5. past \in Seq(Msg) /\ \A i \in 1..Len(past) : past[i] \in H
  <2>1. PICK n \in 0..MaxPast : past \in [1..n -> H]
    BY DEF Past
  <2>2. n \in Nat
    BY LimitsAssumption
  <2> HIDE DEF H
  <2>. QED
    BY <2>1, <2>2, <1>4
<1>6. \A i \in 1..Len(past) : /\ past[i].role \in {"user", "assistant"}
                              /\ past[i].role = "assistant" => past[i].calls = 0
  <2> HIDE DEF H
  <2>. QED
    BY <1>4, <1>5
<1>7. WellFormed(past)
  <2>1. \A i \in 1..Len(past) : i + 0 <= Len(past)
    BY <1>5
  <2>. QED
    BY <1>5, <1>6, <2>1 DEF WellFormed, HasItsResults
<1>8. Good(a \o past)
  <2> HIDE DEF a
  <2>1. \A i \in 1..Len(past) : past[i].role # "system"
    BY <1>6
  <2>. QED
    BY <1>3, <1>5, <1>7, <2>1, GoodThen
<1>9. z \in Seq(Msg) /\ Len(z) = 1 /\ z[1].role = "user"
  <2>1. User(isText) \in Msg
    BY MsgKinds
  <2>2. \A m \in Msg : <<m>> \in Seq(Msg) /\ Len(<<m>>) = 1 /\ <<m>>[1] = m
    OBVIOUS
  <2>. QED
    BY <2>1, <2>2 DEF User
<1>10. Good((a \o past) \o z)
  <2> HIDE DEF a, z
  <2>1. WellFormed(z) /\ \A i \in 1..Len(z) : z[i].role # "system"
    BY <1>9 DEF WellFormed
  <2>. QED
    BY <1>8, <1>9, <2>1, GoodThen
<1>11. messages = (a \o past) \o z
  BY <1>1
<1> HIDE DEF a, z
<1>12. Good(messages)
  BY <1>10, <1>11
<1>13. iteration = 1 /\ executed = <<>> /\ phase = "prepare"
  BY DEF TurnInit
<1>. QED
  BY <1>12, <1>13 DEF TranscriptInv, Asked

(* The transcript is trimmed, and perhaps compacted, before the model is asked. *)
LEMMA PrepareTranscript == ASSUME TranscriptInv, Prepare PROVE TranscriptInv'
<1>1. Good(messages)
  BY DEF TranscriptInv, Prepare
<1>2. Good(messages')
  BY <1>1, TrimmedGood, CompactedGood DEF Prepare
<1>3. WellFormed(sent') /\ HasAll(sent', messages', Len(messages'))
  BY <1>2, ValidatedWellFormed DEF Prepare, Good
<1>4. phase' = "ask" /\ iteration' = iteration /\ executed' = executed
  BY DEF Prepare, loopVars
<1>. QED
  BY <1>2, <1>3, <1>4 DEF TranscriptInv, Asked

(* It is compacted before it is asked again. *)
LEMMA OverflowTranscript == ASSUME TranscriptInv, Overflow PROVE TranscriptInv'
<1>1. Good(messages)
  BY DEF TranscriptInv, Overflow, Asked
<1>2. Good(messages')
  BY <1>1, CompactedGood DEF Overflow
<1>3. WellFormed(sent') /\ HasAll(sent', messages', Len(messages'))
  BY <1>2, ValidatedWellFormed DEF Overflow, Good
<1>4. phase' = "ask again" /\ iteration' = iteration /\ executed' = executed
  BY DEF Overflow, loopVars
<1>. QED
  BY <1>2, <1>3, <1>4 DEF TranscriptInv, Asked

(* The message that makes the calls is appended, and none has its result. *)
LEMMA CallToolsTranscript ==
  ASSUME TranscriptInv, NEW s \in Signatures, CallTools(s)
  PROVE  TranscriptInv'
<1> DEFINE n == CallsOf[s]
           m == CallsFor(iteration, n)
<1>1. Good(messages) /\ executed \in Seq(Signatures) /\ iteration \in Nat
  BY DEF TranscriptInv, CallTools
<1>2. messages' = Append(messages, m) /\ running' = 0 /\ phase' = "tools"
      /\ iteration' = iteration /\ executed' = Append(executed, s)
  BY DEF CallTools
<1>3. n \in Nat /\ executed' \in Seq(Signatures) /\ Calls' = n
  BY <1>1, <1>2, CallsAssumption DEF Calls, Last
<1> HIDE DEF n
<1>4. m \in Msg /\ m.role = "assistant"
  BY <1>1, <1>3, MsgKinds DEF CallsFor
<1>5. messages \in Seq(Msg) /\ Len(messages) \in Nat /\ Len(messages) >= 1
      /\ messages[1].role = "system" /\ \A i \in 2..Len(messages) : messages[i].role # "system"
  BY <1>1 DEF Good, OnlyFirstIsSystem
<1>b. PICK b \in Nat : b = Len(messages) + 1
  BY <1>5
<1> DEFINE ms == messages'
<1> HIDE DEF m
<1>6. ms \in Seq(Msg) /\ Len(ms) = b /\ ms[b] = m
      /\ \A i \in 1..Len(messages) : ms[i] = messages[i]
  BY <1>2, <1>4, <1>5, <1>b
<1>7. OnlyFirstIsSystem(ms)
  <2>1. ASSUME NEW i \in 2..Len(ms) PROVE ms[i].role # "system"
    BY <1>4, <1>5, <1>6, <1>b
  <2>2. ms[1] = messages[1] /\ Len(ms) >= 1
    BY <1>5, <1>6, <1>b
  <2> HIDE DEF ms
  <2>. QED
    BY <2>1, <2>2, <1>5 DEF OnlyFirstIsSystem
<1>8. \A i \in 1..Len(messages) : /\ ms[i].role = "tool" => HasItsCall(ms, i)
                                  /\ ms[i].role = "assistant" => HasItsResults(ms, i)
  <2> SUFFICES ASSUME NEW i \in 1..Len(messages)
               PROVE  /\ ms[i].role = "tool" => HasItsCall(ms, i)
                      /\ ms[i].role = "assistant" => HasItsResults(ms, i)
    OBVIOUS
  <2>1. ms[i] = messages[i] /\ ms = Append(messages, m)
    BY <1>2, <1>6
  <2> HIDE DEF ms
  <2>. QED
    BY <2>1, <1>1, <1>4, <1>5, AppendKeeps DEF Good, WellFormed
<1>9. InCalls(messages, b)'
  <2>1. \A i \in 1..Len(ms) : ms[i].role = "tool" => HasItsCall(ms, i)
    <3>1. \A i \in 1..Len(ms) : i = b \/ i \in 1..Len(messages)
      BY <1>5, <1>6, <1>b
    <3> HIDE DEF ms
    <3>. QED
      BY <3>1, <1>4, <1>6, <1>8
  <2>2. \A i \in 1..(b - 1) : ms[i].role = "assistant" => HasItsResults(ms, i)
    <3>1. b - 1 = Len(messages)
      BY <1>5, <1>b
    <3> HIDE DEF ms
    <3>. QED
      BY <3>1, <1>8
  <2>3. b \in 2..Len(ms) /\ Len(ms) = b + running' /\ running' \in 0..Calls'
    BY <1>2, <1>3, <1>5, <1>6, <1>b
  <2>4. ms[b] = CallsFor(iteration', Calls')
    BY <1>2, <1>3, <1>6 DEF m
  <2>5. \A k \in 1..running' : ms[b + k] = Result(iteration', k)
    BY <1>2
  <2>6. Calls' \in Nat
    BY <1>3
  <2>. QED
    BY <1>6, <1>7, <2>1, <2>2, <2>3, <2>4, <2>5, <2>6 DEF InCalls
<1> HIDE DEF ms
<1>. QED
  BY <1>1, <1>2, <1>3, <1>9 DEF TranscriptInv, Asked

(* The next result is appended behind those that have run. *)
LEMMA RunToolTranscript == ASSUME TranscriptInv, RunTool PROVE TranscriptInv'
<1> DEFINE m == Result(iteration, running + 1)
<1>1. PICK b \in Nat : InCalls(messages, b)
  BY DEF TranscriptInv, RunTool
<1>2. messages' = Append(messages, m) /\ running' = running + 1 /\ phase = "tools"
      /\ phase' = phase /\ iteration' = iteration /\ executed' = executed /\ running < Calls
  BY DEF RunTool
<1>3. iteration \in Nat /\ running \in Nat /\ Calls \in Nat /\ Calls' = Calls
      /\ executed \in Seq(Signatures)
  BY <1>1, <1>2 DEF TranscriptInv, InCalls, Calls
<1>4. m \in Msg /\ m.role = "tool" /\ m.turn = iteration /\ m.call = running + 1
  BY <1>3, MsgKinds DEF Result
<1>5. messages \in Seq(Msg) /\ Len(messages) = b + running /\ Len(messages) \in Nat
      /\ b \in 2..Len(messages) /\ messages[b] = CallsFor(iteration, Calls)
  BY <1>1 DEF InCalls
<1>6. \A k \in 1..running : messages[b + k] = Result(iteration, k)
  BY <1>1 DEF InCalls
<1>7. /\ \A i \in 1..Len(messages) : messages[i].role = "tool" => HasItsCall(messages, i)
      /\ \A i \in 1..(b - 1) : messages[i].role = "assistant" => HasItsResults(messages, i)
      /\ OnlyFirstIsSystem(messages)
  BY <1>1 DEF InCalls
<1> DEFINE n == Len(messages) + 1
<1>8. messages' \in Seq(Msg) /\ Len(messages') = n /\ messages'[n] = m
      /\ \A i \in 1..Len(messages) : messages'[i] = messages[i]
  BY <1>2, <1>4, <1>5
<1>9. OnlyFirstIsSystem(messages')
  <2>1. Len(messages) >= 1 /\ messages[1].role = "system"
        /\ \A i \in 2..Len(messages) : messages[i].role # "system"
    BY <1>7 DEF OnlyFirstIsSystem
  <2>2. ASSUME NEW i \in 2..Len(messages') PROVE messages'[i].role # "system"
    <3> HIDE DEF m
    <3>. QED
      BY <1>4, <1>5, <1>8, <2>1
  <2>3. messages'[1] = messages[1] /\ Len(messages') >= 1
    BY <1>5, <1>8, <2>1
  <2>. QED
    BY <2>1, <2>2, <2>3 DEF OnlyFirstIsSystem
<1>10. ASSUME NEW i \in 1..Len(messages'), messages'[i].role = "tool"
       PROVE  HasItsCall(messages', i)
  <2> HIDE DEF m
  <2>1. CASE i \in 1..Len(messages)
    <3>1. messages'[i] = messages[i] /\ HasItsCall(messages, i)
      BY <1>7, <1>8, <1>10, <2>1
    <3>. QED
      BY <3>1, <2>1, <1>2, <1>4, <1>5, <1>10, AppendKeeps
  <2>2. CASE i \notin 1..Len(messages)
    <3>1. i = n /\ messages'[i] = m
      BY <2>2, <1>5, <1>8
    <3>2. i - m.call = b
      BY <3>1, <1>3, <1>4, <1>5
    <3>3. messages'[b] = CallsFor(iteration, Calls)
      BY <1>5, <1>8
    <3>. QED
      BY <3>1, <3>2, <3>3, <1>2, <1>3, <1>4, <1>5 DEF HasItsCall, CallsFor
  <2>. QED
    BY <2>1, <2>2
<1>11. ASSUME NEW i \in 1..(b - 1), messages'[i].role = "assistant"
       PROVE  HasItsResults(messages', i)
  <2>1. i \in 1..Len(messages)
    BY <1>5
  <2>2. messages[i].role = "assistant" /\ HasItsResults(messages, i)
    BY <2>1, <1>7, <1>8, <1>11
  <2> HIDE DEF m
  <2>. QED
    BY <2>1, <2>2, <1>2, <1>4, <1>5, AppendKeeps
<1>12. ASSUME NEW k \in 1..(running + 1) PROVE messages'[b + k] = Result(iteration, k)
  <2>1. CASE k = running + 1
    <3>1. b + k = n
      BY <2>1, <1>3, <1>5
    <3>. QED
      BY <3>1, <2>1, <1>8
  <2>2. CASE k # running + 1
    <3>1. k \in 1..running /\ b + k \in 1..Len(messages)
      BY <2>2, <1>3, <1>5
    <3>. QED
      BY <3>1, <1>6, <1>8
  <2>. QED
    BY <2>1, <2>2
<1>13. messages'[b] = CallsFor(iteration, Calls)
  BY <1>5, <1>8
<1>14. InCalls(messages, b)'
  <2>1. running' \in 0..Calls'
    BY <1>2, <1>3
  <2>2. Len(messages') = b + running' /\ b \in 2..Len(messages')
    <3>1. n = b + (running + 1) /\ b \in 2..n
      BY <1>3, <1>5
    <3>. QED
      BY <3>1, <1>2, <1>8
  <2>3. \A k \in 1..running' : messages'[b + k] = Result(iteration', k)
    BY <1>2, <1>12
  <2>4. messages'[b] = CallsFor(iteration', Calls') /\ Calls' \in Nat
    BY <1>2, <1>3, <1>13
  <2> HIDE DEF m
  <2>. QED
    BY <1>8, <1>9, <1>10, <1>11, <2>1, <2>2, <2>3, <2>4 DEF InCalls
<1>. QED
  BY <1>2, <1>3, <1>14 DEF TranscriptInv, Asked

(* When all calls have run the transcript is good again. *)
LEMMA NextIterationTranscript == ASSUME TranscriptInv, NextIteration PROVE TranscriptInv'
<1>1. PICK b \in Nat : InCalls(messages, b)
  BY DEF TranscriptInv, NextIteration
<1>2. running = Calls /\ iteration' = iteration + 1 /\ phase' = "prepare"
      /\ messages' = messages /\ executed' = executed
  BY DEF NextIteration
<1>3. messages \in Seq(Msg) /\ OnlyFirstIsSystem(messages) /\ Calls \in Nat
      /\ b \in 2..Len(messages) /\ Len(messages) = b + Calls
      /\ messages[b] = CallsFor(iteration, Calls)
      /\ \A k \in 1..Calls : messages[b + k] = Result(iteration, k)
  BY <1>1, <1>2 DEF InCalls
<1>4. HasItsResults(messages, b)
  <2>1. messages[b].calls = Calls /\ messages[b].turn = iteration
    BY <1>3 DEF CallsFor
  <2>. QED
    BY <2>1, <1>3 DEF HasItsResults
<1>5. ASSUME NEW i \in 1..Len(messages), messages[i].role = "assistant"
      PROVE  HasItsResults(messages, i)
  <2>1. CASE i < b
    <3>1. i \in 1..(b - 1)
      BY <2>1, <1>3
    <3>. QED
      BY <3>1, <1>1, <1>5 DEF InCalls
  <2>2. CASE i = b
    BY <2>2, <1>4
  <2>3. CASE i > b
    <3>1. i - b \in 1..Calls /\ b + (i - b) = i
      BY <2>3, <1>3
    <3>2. messages[i] = Result(iteration, i - b)
      BY <3>1, <1>3
    <3>. QED
      BY <3>2, <1>5 DEF Result
  <2>. QED
    BY <2>1, <2>2, <2>3, <1>3
<1>6. \A i \in 1..Len(messages) : messages[i].role = "tool" => HasItsCall(messages, i)
  BY <1>1 DEF InCalls
<1>7. Good(messages)
  BY <1>3, <1>5, <1>6 DEF Good, WellFormed
<1>8. Good(messages') /\ iteration' \in Nat /\ executed' \in Seq(Signatures)
  BY <1>2, <1>7 DEF TranscriptInv
<1>. QED
  BY <1>2, <1>8 DEF TranscriptInv, Asked

(* Every step leaves the transcript in order. *)
LEMMA TranscriptStep == TranscriptInv /\ [TurnNext]_turnVars => TranscriptInv'
<1> SUFFICES ASSUME TranscriptInv, [TurnNext]_turnVars PROVE TranscriptInv'
  OBVIOUS
<1>1. CASE Prepare
  BY <1>1, PrepareTranscript
<1>2. CASE Overflow
  BY <1>2, OverflowTranscript
<1>3. CASE \E s \in Signatures : CallTools(s)
  BY <1>3, CallToolsTranscript
<1>4. CASE RunTool
  BY <1>4, RunToolTranscript
<1>5. CASE NextIteration
  BY <1>5, NextIterationTranscript
<1>6. CASE Fails \/ Answer \/ LastIteration \/ \E s \in Signatures : Stopped(s)
  <2>1. phase' = "ended" /\ iteration' = iteration /\ executed' = executed
    BY <1>6 DEF Fails, Answer, LastIteration, Stopped, Ends, loopVars
  <2>. QED
    BY <2>1 DEF TranscriptInv, Asked
<1>7. CASE UNCHANGED turnVars
  <2>1. /\ iteration' = iteration /\ executed' = executed /\ phase' = phase
        /\ messages' = messages /\ sent' = sent /\ running' = running
    BY <1>7 DEF turnVars
  <2>2. Asked' = Asked /\ Calls' = Calls
    BY <2>1 DEF Asked, Calls
  <2>3. \A b \in Nat : InCalls(messages, b) => InCalls(messages, b)'
    BY <2>1, <2>2 DEF InCalls
  <2>. QED
    BY <2>1, <2>2, <2>3 DEF TranscriptInv
<1>. QED
  BY <1>1, <1>2, <1>3, <1>4, <1>5, <1>6, <1>7 DEF TurnNext

(***************************************************************************)
(* trim_history, compact_messages and _validate_transcript, for histories, *)
(* limits and numbers of calls of any size: whatever the loop asks the     *)
(* model with, and whatever of it is sent to the provider, has every       *)
(* result behind its call and every call with its results.                 *)
(***************************************************************************)
THEOREM TranscriptIsAccepted == TurnSpec => []TranscriptWellFormed
<1>1. TranscriptInv => TranscriptWellFormed
  BY DEF TranscriptInv, Good, TranscriptWellFormed
<1>. QED
  BY <1>1, TranscriptInit, TranscriptStep, PTL DEF TurnSpec

(* What the model called for and what came of it. *)
CallsAreSent ==
  Asked => \A i \in 1..Len(messages) :
             Matters(messages[i]) => \E j \in 1..Len(sent) : sent[j] = messages[i]

(***************************************************************************)
(* _validate_transcript drops results without a call and merges messages   *)
(* of one role; of what trim_history, compact_messages and the loop give   *)
(* it, it drops no result and merges no message with calls.                *)
(***************************************************************************)
THEOREM ValidationDropsNone == TurnSpec => []CallsAreSent
<1>1. TranscriptInv => CallsAreSent
  BY DEF TranscriptInv, CallsAreSent, HasAll
<1>. QED
  BY <1>1, TranscriptInit, TranscriptStep, PTL DEF TurnSpec

-----------------------------------------------------------------------------
(* The loop gets on *)

(* How far an iteration is. *)
Rank(p) ==
  IF p = "prepare" THEN 0 ELSE IF p = "ask" THEN 1 ELSE IF p = "ask again" THEN 2
  ELSE IF p = "tools" THEN 3 ELSE 4

(* The phases in their order. *)
LEMMA Ranks ==
  /\ Rank("ask") > Rank("prepare") /\ Rank("ask again") > Rank("ask")
  /\ \A p \in {"ask", "ask again"} : Rank("tools") > Rank(p)
  /\ \A p \in {"ask", "ask again", "tools"} : Rank("ended") > Rank(p)
BY DEF Rank

(* A step goes to the next iteration, or further in this one, or to its next call. *)
GetsOn ==
  \/ iteration' = iteration + 1 /\ iteration' <= MaxIterations
  \/ iteration' = iteration /\ Rank(phase') > Rank(phase)
  \/ /\ iteration' = iteration /\ phase = "tools" /\ phase' = "tools"
     /\ running' = running + 1 /\ running' <= Calls /\ Calls' = Calls

(***************************************************************************)
(* The loop of _run_agent_loop has an end: no step goes back, iterations   *)
(* are at most max_iterations, an overflow is answered by one compaction   *)
(* in each, and its calls run once each.  So a turn takes finitely many    *)
(* steps whatever the model answers, unless a provider or a tool hangs.    *)
(***************************************************************************)
THEOREM LoopGetsOn == TurnSpec => [][GetsOn]_turnVars
<1>1. ASSUME TranscriptInv, TurnNext PROVE GetsOn
  <2>1. iteration \in Nat /\ MaxIterations \in Nat
    BY <1>1, LimitsAssumption DEF TranscriptInv
  <2>2. ASSUME Prepare PROVE GetsOn
    BY <2>2, Ranks DEF Prepare, loopVars, GetsOn
  <2>3. ASSUME Overflow PROVE GetsOn
    BY <2>3, Ranks DEF Overflow, loopVars, GetsOn
  <2>4. ASSUME Fails \/ Answer \/ LastIteration \/ \E s \in Signatures : Stopped(s)
        PROVE  GetsOn
    <3>1. phase \in {"ask", "ask again", "tools"} /\ phase' = "ended" /\ iteration' = iteration
      BY <2>4 DEF Fails, Answer, LastIteration, Stopped, Ends, Asked, loopVars
    <3>. QED
      BY <3>1, Ranks DEF GetsOn
  <2>5. ASSUME \E s \in Signatures : CallTools(s) PROVE GetsOn
    <3>1. phase \in {"ask", "ask again"} /\ phase' = "tools" /\ iteration' = iteration
      BY <2>5 DEF CallTools, Asked
    <3>. QED
      BY <3>1, Ranks DEF GetsOn
  <2>6. ASSUME RunTool PROVE GetsOn
    <3>1. PICK b \in Nat : InCalls(messages, b)
      BY <1>1, <2>6 DEF TranscriptInv, RunTool
    <3>2. running \in Nat /\ Calls \in Nat /\ running < Calls
      BY <2>6, <3>1 DEF InCalls, RunTool
    <3>3. running' = running + 1 /\ iteration' = iteration /\ Calls' = Calls
          /\ phase = "tools" /\ phase' = "tools"
      BY <2>6 DEF RunTool, Calls
    <3>4. running' <= Calls
      BY <3>2, <3>3
    <3>. QED
      BY <3>3, <3>4, Zenon DEF GetsOn
  <2>7. ASSUME NextIteration PROVE GetsOn
    BY <2>1, <2>7 DEF NextIteration, GetsOn
  <2>. QED
    BY <1>1, <2>2, <2>3, <2>4, <2>5, <2>6, <2>7, Zenon DEF TurnNext
<1>2. TranscriptInv /\ [TurnNext]_turnVars => [GetsOn]_turnVars
  BY <1>1
<1>. QED
  BY <1>2, TranscriptInit, TranscriptStep, PTL DEF TurnSpec
=============================================================================
