--------------------------- MODULE LiveViewProofs ---------------------------
(***************************************************************************)
(* Theorems about LiveView, for every set of turns and of sessions, any    *)
(* length of the histories, and any number of them and of lost             *)
(* connections: the browser shows its own session, misses nothing but what *)
(* NothingMissing names, and shows no agent at work that has answered.     *)
(***************************************************************************)
EXTENDS LiveView, SequenceTheorems, WellFoundedInduction, TLAPS

Message == [turn : Turns, role : {"user", "assistant"}, tagged : BOOLEAN]
Keys == [turn : Turns, role : {"user", "assistant"}]
Event == [kind : {"question", "tool", "reply"}, turn : Turns]
Stages == InAgent \union {"new", "posting", "queued", "replied", "ended", "failed"}

TypeOK ==
  /\ session \in [Turns -> Sessions]
  /\ local \in [Turns -> BOOLEAN]
  /\ help \subseteq Turns
  /\ at \in [Turns -> Stages]
  /\ record \in [Sessions -> Seq(Message)]
  /\ live \in [Sessions -> SUBSET Turns]
  /\ outbound \in Seq(Turns)
  /\ connected \in BOOLEAN
  /\ events \in Seq(Event)
  /\ current \in Sessions
  /\ view \in Seq(Message)
  /\ cache \in [Sessions -> SUBSET (Turns \union Thinking)]
  /\ token \in 0..MaxLoads
  /\ loads \subseteq Load
  /\ known \subseteq Keys
  /\ overtaken \subseteq Keys
  /\ unloaded \in BOOLEAN

-----------------------------------------------------------------------------
(* The inductive invariant *)

Underway(t) == at[t] \in InAgent \union {"replied"}
Unended(t) == at[t] \notin {"new", "ended", "failed"}
Asked(t) == local[t] /\ at[t] \notin {"new", "failed"}

(* The reply is on its way to the browser. *)
ReplyEvent(t) == [kind |-> "reply", turn |-> t]
Coming(t) == ReplyEvent(t) \in ToSet(events)

(* An agent of this session is at work, as far as the browser can know. *)
AtWork(s) == \E t \in Turns : session[t] = s /\ (Unended(t) \/ Coming(t))

(* The live message that is kept for this session, if there is one, is of such an agent. *)
CacheIsSound(s) == cache[s] = NoLive \/ AtWork(s)

(* Nothing is asked for that the store would take, and the last one came. *)
Quiet == ~ unloaded /\ \A l \in loads : ~ Wanted(l)

AreOf(s, keys) == \A k \in keys : session[k.turn] = s

(* A session's record is its own, and has the replies that were made. *)
RecordIsSound ==
  \A s \in Sessions :
    /\ AreOf(s, Of(record[s]))
    /\ \A t \in Turns : session[t] = s =>
         (Key(t, "assistant") \in Of(record[s]) <=> at[t] \in {"replied", "ended"} /\ t \notin help)

(* live_state lists the tools of a turn that is not answered. *)
LiveIsSound == \A s \in Sessions : \A t \in live[s] : session[t] = s /\ at[t] = "worked"

(* No model is asked for /help. *)
HelpIsSound == \A t \in help : at[t] \notin {"working", "using", "worked"}

(* An event of an agent at work is followed by the reply, unless that is still to come. *)
EventsAreSound ==
  /\ ~ connected => events = <<>>
  /\ \A i \in 1..Len(events), t \in Turns : events[i].turn = t /\ events[i].kind # "reply" =>
       Underway(t) \/ \E j \in i..Len(events) : events[j] = ReplyEvent(t)

(* A reply that the browser has, or that is coming, was sent. *)
RepliesAreSound ==
  \A t \in Turns : Coming(t) \/ Key(t, "assistant") \in known => at[t] = "ended"

AskedIsKnown == \A t \in Turns : Asked(t) => Key(t, "user") \in known

(* The load that is wanted is the last one, of the session that is shown, unless newSession came after it. *)
LoadsAreSound ==
  \A l \in loads :
    /\ l.token <= token
    /\ \A k \in loads : k.token = l.token => k = l
    /\ Wanted(l) => l.session = current \/ unloaded
    /\ l.answered => /\ AreOf(l.session, Of(l.data))
                     /\ l.recorded \subseteq Of(l.data) \union Beyond(record[l.session])

(* A reply was on record when an answer that the store will take was computed, or the *)
(* browser has had it, or will.                                                      *)
AnswerIsFresh(l) ==
  /\ \A t \in Turns : session[t] = l.session /\ at[t] = "ended" /\ t \notin help =>
       Key(t, "assistant") \in l.recorded \union known \/ Coming(t)
  /\ \A t \in l.live :
       /\ session[t] = l.session /\ t \notin help
       /\ Key(t, "assistant") \notin l.recorded
       /\ \/ Underway(t) \/ Coming(t)
          \/ Key(t, "assistant") \in known /\ CacheIsSound(l.session)
LoadsAreFresh ==
  \A l \in loads : l.answered /\ Wanted(l) /\ connected => AnswerIsFresh(l)

Held == Of(view) \union overtaken \union Beyond(record[current])

(* What is shown once nothing more is asked for. *)
ViewIsSound ==
  Quiet =>
    /\ AreOf(current, Of(view))
    /\ \A t \in Turns : session[t] = current /\ Asked(t) => Key(t, "user") \in Held
    /\ connected => \A t \in Turns : session[t] = current /\ at[t] = "ended" /\ t \notin help =>
                      Key(t, "assistant") \in Held \/ Coming(t)
    /\ \A t \in help : session[t] = current /\ Key(t, "assistant") \in known =>
         Key(t, "assistant") \in Of(view) \union wiped
    /\ connected /\ shown # NoLive =>
         (\E t \in shown : Key(t, "assistant") \in overtaken) \/ AtWork(current)

ServerInv == RecordIsSound /\ LiveIsSound /\ HelpIsSound
StoreInv == AskedIsKnown /\ LoadsAreSound /\ LoadsAreFresh /\ ViewIsSound
IInv == TypeOK /\ ServerInv /\ EventsAreSound /\ RepliesAreSound /\ StoreInv

-----------------------------------------------------------------------------
(* Sequences of messages and of events *)

(* Another element at the end. *)
LEMMA Appended ==
  ASSUME NEW S, NEW s \in Seq(S), NEW e \in S
  PROVE  /\ Append(s, e) \in Seq(S)
         /\ ToSet(Append(s, e)) = ToSet(s) \union {e}
<1>1. DOMAIN s = 1 .. Len(s) /\ Len(s) \in Nat
  BY LenProperties
<1>2. /\ Append(s, e) \in Seq(S) /\ Len(Append(s, e)) = Len(s) + 1
      /\ \A i \in 1 .. Len(s) : Append(s, e)[i] = s[i]
      /\ Append(s, e)[Len(s) + 1] = e
  BY AppendProperties
<1>3. DOMAIN Append(s, e) = 1 .. Len(s) + 1
  BY <1>2, LenProperties
<1>. QED
  BY <1>1, <1>2, <1>3 DEF ToSet

(* Without its first element. *)
LEMMA Popped ==
  ASSUME NEW S, NEW s \in Seq(S), s # <<>>
  PROVE  /\ Head(s) \in S /\ Tail(s) \in Seq(S)
         /\ ToSet(s) = {Head(s)} \union ToSet(Tail(s))
         /\ Len(Tail(s)) = Len(s) - 1 /\ Len(s) \in Nat \ {0}
         /\ \A i \in 1 .. Len(Tail(s)) : Tail(s)[i] = s[i + 1]
<1>1. DOMAIN s = 1 .. Len(s) /\ Len(s) \in Nat \ {0}
  BY LenProperties, EmptySeq
<1>2. /\ Head(s) \in S /\ Tail(s) \in Seq(S) /\ Len(Tail(s)) = Len(s) - 1
      /\ \A i \in 1 .. Len(Tail(s)) : Tail(s)[i] = s[i + 1]
  BY HeadTailProperties
<1>3. Head(s) = s[1]
  BY <1>1
<1>4. DOMAIN Tail(s) = 1 .. Len(s) - 1
  BY <1>2, LenProperties
<1>5. ASSUME NEW x \in ToSet(s) PROVE x \in {Head(s)} \union ToSet(Tail(s))
  <2>1. PICK i \in 1 .. Len(s) : x = s[i]
    BY <1>1 DEF ToSet
  <2>2. CASE i = 1
    BY <2>1, <2>2, <1>3
  <2>3. CASE i # 1
    <3>1. i - 1 \in 1 .. Len(s) - 1
      BY <1>1, <2>3
    <3>2. Tail(s)[i - 1] = x
      BY <3>1, <1>2, <2>1
    <3>. QED
      BY <3>1, <3>2, <1>4 DEF ToSet
  <2>. QED
    BY <2>2, <2>3
<1>6. ASSUME NEW x \in {Head(s)} \union ToSet(Tail(s)) PROVE x \in ToSet(s)
  <2>1. CASE x = Head(s)
    BY <2>1, <1>1, <1>3 DEF ToSet
  <2>2. CASE x \in ToSet(Tail(s))
    <3>1. PICK i \in 1 .. Len(s) - 1 : x = Tail(s)[i]
      BY <2>2, <1>4 DEF ToSet
    <3>2. x = s[i + 1] /\ i + 1 \in 1 .. Len(s)
      BY <3>1, <1>1, <1>2
    <3>. QED
      BY <3>2, <1>1 DEF ToSet
  <2>. QED
    BY <2>1, <2>2
<1>. QED
  BY <1>1, <1>2, <1>5, <1>6

(* A non-empty set of naturals contains its minimum. *)
LEMMA LeastElement ==
  ASSUME NEW S \in SUBSET Nat, S # {}
  PROVE  Min(S) \in S
<1> DEFINE Less == {p \in Nat \X Nat : p[1] < p[2]}
<1>1. IsWellFoundedOn(Less, Nat)
  BY NatLessThanWellFounded, Zenon DEF OpToRel
<1>2. PICK n \in S : \A m \in S : <<m, n>> \notin Less
  BY <1>1, WFMin
<1>3. \A m \in S : n <= m
  <2> SUFFICES ASSUME NEW m \in S, ~ (n <= m)
               PROVE  FALSE
    OBVIOUS
  <2>1. m < n /\ m \in Nat /\ n \in Nat
    OBVIOUS
  <2>2. <<m, n>> \in Less
    BY <2>1
  <2>. QED
    BY <2>2, <1>2
<1>. QED
  BY <1>3 DEF Min

(* The elements of a sequence with its k-th one cut out. *)
LEMMA CutOut ==
  ASSUME NEW S, NEW s \in Seq(S), NEW k \in 1 .. Len(s)
  PROVE  LET t == SubSeq(s, 1, k - 1) \o SubSeq(s, k + 1, Len(s))
         IN /\ t \in Seq(S)
            /\ ToSet(t) \subseteq ToSet(s)
            /\ ToSet(s) \subseteq ToSet(t) \union {s[k]}
<1> DEFINE n == Len(s)
           u == SubSeq(s, 1, k - 1)
           v == SubSeq(s, k + 1, n)
           t == u \o v
<1>1. DOMAIN s = 1 .. n /\ n \in Nat /\ k \in Nat /\ k >= 1 /\ k <= n
  BY LenProperties
<1>2. \A i \in 1 .. n : s[i] \in S
  OBVIOUS
<1>3. u \in Seq(S) /\ Len(u) = k - 1 /\ \A i \in 1 .. k - 1 : u[i] = s[i]
  <2>1. k - 1 \in Int /\ \A i \in 1 .. k - 1 : s[i] \in S
    BY <1>1, <1>2
  <2>2. /\ u \in Seq(S) /\ Len(u) = (IF 1 <= k - 1 THEN k - 1 - 1 + 1 ELSE 0)
        /\ \A i \in 1 .. k - 1 - 1 + 1 : u[i] = s[1 + i - 1]
    BY <2>1, SubSeqProperties
  <2>. HIDE DEF u
  <2>3. \A i \in 1 .. k - 1 : i \in 1 .. k - 1 - 1 + 1 /\ 1 + i - 1 = i
    BY <1>1
  <2>. QED
    BY <2>2, <2>3, <1>1
<1>4. v \in Seq(S) /\ Len(v) = n - k /\ \A i \in 1 .. n - k : v[i] = s[k + i]
  <2>1. k + 1 \in Int /\ n \in Int /\ \A i \in k + 1 .. n : s[i] \in S
    BY <1>1, <1>2
  <2>2. /\ v \in Seq(S) /\ Len(v) = (IF k + 1 <= n THEN n - (k + 1) + 1 ELSE 0)
        /\ \A i \in 1 .. n - (k + 1) + 1 : v[i] = s[k + 1 + i - 1]
    BY <2>1, SubSeqProperties
  <2>. HIDE DEF v, n
  <2>3. \A i \in 1 .. n - k : i \in 1 .. n - (k + 1) + 1 /\ k + 1 + i - 1 = k + i
    BY <1>1
  <2>. QED
    BY <2>2, <2>3, <1>1
<1> HIDE DEF u, v, n
<1>5. /\ t \in Seq(S) /\ Len(t) = n - 1 /\ DOMAIN t = 1 .. n - 1
      /\ \A i \in 1 .. n - 1 : t[i] = IF i <= k - 1 THEN s[i] ELSE s[i + 1]
  <2>1. /\ t \in Seq(S) /\ Len(t) = Len(u) + Len(v)
        /\ \A i \in 1 .. Len(u) + Len(v) : t[i] = IF i <= Len(u) THEN u[i] ELSE v[i - Len(u)]
    BY <1>3, <1>4, ConcatProperties
  <2>. HIDE DEF t
  <2>2. Len(u) + Len(v) = n - 1
    BY <1>1, <1>3, <1>4
  <2>3. ASSUME NEW i \in 1 .. n - 1, i <= k - 1 PROVE t[i] = s[i]
    <3>1. i \in 1 .. k - 1 /\ i \in 1 .. Len(u) + Len(v) /\ i <= Len(u)
      BY <1>1, <1>3, <2>2, <2>3
    <3>. QED
      BY <3>1, <2>1, <1>3
  <2>4. ASSUME NEW i \in 1 .. n - 1, ~ (i <= k - 1) PROVE t[i] = s[i + 1]
    <3>1. i - (k - 1) \in 1 .. n - k /\ i \in 1 .. Len(u) + Len(v) /\ ~ (i <= Len(u))
      BY <1>1, <1>3, <2>2, <2>4
    <3>2. t[i] = v[i - (k - 1)] /\ k + (i - (k - 1)) = i + 1
      BY <3>1, <2>1, <1>1, <1>3
    <3>. QED
      BY <3>1, <3>2, <1>4
  <2>5. DOMAIN t = 1 .. n - 1
    BY <2>1, <2>2, LenProperties
  <2>. QED
    BY <2>1, <2>2, <2>3, <2>4, <2>5
<1> HIDE DEF t
<1>6. ASSUME NEW x \in ToSet(t) PROVE x \in ToSet(s)
  <2>1. PICK i \in 1 .. n - 1 : x = t[i]
    BY <1>5 DEF ToSet
  <2>2. i \in 1 .. n /\ i + 1 \in 1 .. n
    BY <1>1, <2>1
  <2>. QED
    BY <2>1, <2>2, <1>5, <1>1 DEF ToSet
<1>7. ASSUME NEW x \in ToSet(s), x # s[k] PROVE x \in ToSet(t)
  <2>1. PICK i \in 1 .. n : x = s[i]
    BY <1>1 DEF ToSet
  <2>2. i # k
    BY <2>1, <1>7
  <2>3. CASE i < k
    <3>1. i \in 1 .. n - 1 /\ i <= k - 1
      BY <2>3, <1>1
    <3>. QED
      BY <3>1, <2>1, <1>5 DEF ToSet
  <2>4. CASE i > k
    <3>1. i - 1 \in 1 .. n - 1 /\ ~ (i - 1 <= k - 1) /\ i - 1 + 1 = i
      BY <2>4, <1>1
    <3>. QED
      BY <3>1, <2>1, <1>5 DEF ToSet
  <2>. QED
    BY <2>2, <2>3, <2>4, <1>1
<1>. QED
  BY <1>5, <1>6, <1>7 DEF t, u, v, n

(* Without one of its elements. *)
LEMMA WithoutOne ==
  ASSUME NEW S, NEW s \in Seq(S), NEW e
  PROVE  /\ RemoveFirst(s, e) \in Seq(S)
         /\ ToSet(RemoveFirst(s, e)) \subseteq ToSet(s)
         /\ ToSet(s) \subseteq ToSet(RemoveFirst(s, e)) \union {e}
<1>1. DOMAIN s = 1 .. Len(s) /\ Len(s) \in Nat
  BY LenProperties
<1>2. CASE ~ \E i \in 1 .. Len(s) : s[i] = e
  BY <1>2, Zenon DEF RemoveFirst
<1>3. CASE \E i \in 1 .. Len(s) : s[i] = e
  <2> DEFINE P(i) == s[i] = e
             I == {i \in 1 .. Len(s) : P(i)}
  <2>1. PICK k : k = SelectInSeq(s, LAMBDA v : v = e)
    OBVIOUS
  <2>2. k \in 1 .. Len(s) /\ s[k] = e
    <3>1. I # {} /\ I \in SUBSET Nat
      BY <1>3
    <3>2. k = Min(I)
      BY <2>1, <3>1, Zenon DEF SelectInSeq
    <3>3. k \in I
      BY <3>1, <3>2, LeastElement, Zenon
    <3>. QED
      BY <3>3
  <2>3. RemoveFirst(s, e) = SubSeq(s, 1, k - 1) \o SubSeq(s, k + 1, Len(s))
    BY <1>3, <2>1, Zenon DEF RemoveFirst, RemoveAt
  <2>. QED
    BY <2>2, <2>3, CutOut
<1>. QED
  BY <1>2, <1>3

(* What a sequence of messages tells, one message more. *)
LEMMA OfAppended ==
  ASSUME NEW s \in Seq(Message), NEW m \in Message
  PROVE  Append(s, m) \in Seq(Message) /\ Of(Append(s, m)) = Of(s) \union {Key(m.turn, m.role)}
<1>1. Append(s, m) \in Seq(Message) /\ ToSet(Append(s, m)) = ToSet(s) \union {m}
  BY Appended
<1>. QED
  BY <1>1, Zenon DEF Of

(* What a history tells, and what of the record it leaves out. *)
LEMMA RecentOnes ==
  ASSUME NEW s \in Seq(Message)
  PROVE  /\ Recent(s) \in Seq(Message)
         /\ Of(Recent(s)) \subseteq Of(s)
         /\ Of(s) \subseteq Of(Recent(s)) \union Beyond(s)
<1> DEFINE n == Len(s)
           a == IF n > MaxMessages THEN n - MaxMessages + 1 ELSE 1
           r == SubSeq(s, a, n)
<1>1. n \in Nat /\ DOMAIN s = 1 .. n /\ MaxMessages \in Nat \ {0} /\ \A i \in 1 .. n : s[i] \in Message
  BY LenProperties, MaxMessagesAssumption
<1>2. a \in Nat \ {0} /\ a <= n + 1 /\ (a = n - MaxMessages + 1 \/ a = 1)
  BY <1>1
<1>3. r = Recent(s)
  BY DEF Recent
<1>4. /\ r \in Seq(Message) /\ Len(r) = n - a + 1
      /\ \A i \in 1 .. n - a + 1 : r[i] = s[a + i - 1]
  <2>1. a \in Int /\ n \in Int /\ \A i \in a .. n : s[i] \in Message
    BY <1>1, <1>2
  <2>2. /\ r \in Seq(Message) /\ Len(r) = (IF a <= n THEN n - a + 1 ELSE 0)
        /\ \A i \in 1 .. n - a + 1 : r[i] = s[a + i - 1]
    BY <2>1, SubSeqProperties
  <2>. HIDE DEF r, a, n
  <2>. QED
    BY <1>1, <1>2, <2>2
<1> HIDE DEF r, a
<1>5. DOMAIN r = 1 .. n - a + 1
  BY <1>4, LenProperties
<1>6. ToSet(r) \subseteq ToSet(s)
  <2>1. ASSUME NEW i \in 1 .. n - a + 1 PROVE r[i] \in ToSet(s)
    <3>1. a + i - 1 \in 1 .. n
      BY <1>1, <1>2
    <3>. QED
      BY <3>1, <1>1, <1>4 DEF ToSet
  <2>. QED
    BY <2>1, <1>5 DEF ToSet
<1>7. ASSUME NEW m \in ToSet(s) PROVE Key(m.turn, m.role) \in Of(r) \union Beyond(s)
  <2>1. PICK i \in 1 .. n : m = s[i]
    BY <1>1 DEF ToSet
  <2>2. CASE i < a
    <3>1. i \in 1 .. n - MaxMessages
      BY <1>1, <1>2, <2>2
    <3>. QED
      BY <2>1, <3>1 DEF Beyond
  <2>3. CASE ~ (i < a)
    <3>1. i - a + 1 \in 1 .. n - a + 1 /\ a + (i - a + 1) - 1 = i
      BY <1>1, <1>2, <2>3
    <3>2. r[i - a + 1] = m
      BY <1>4, <2>1, <3>1
    <3>3. m \in ToSet(r)
      BY <1>5, <3>1, <3>2 DEF ToSet
    <3>. QED
      BY <3>3 DEF Of
  <2>. QED
    BY <2>2, <2>3
<1>8. Of(r) \subseteq Of(s)
  BY <1>6, Zenon DEF Of
<1>9. Of(s) \subseteq Of(r) \union Beyond(s)
  BY <1>7 DEF Of
<1>. QED
  BY <1>3, <1>4, <1>8, <1>9

(* What is beyond a history stays there. *)
LEMMA BeyondGrows ==
  ASSUME NEW s \in Seq(Message), NEW m \in Message
  PROVE  Beyond(s) \subseteq Beyond(Append(s, m))
<1>1. /\ Len(s) \in Nat /\ Len(Append(s, m)) = Len(s) + 1 /\ MaxMessages \in Nat
      /\ \A i \in 1 .. Len(s) : Append(s, m)[i] = s[i]
  BY LenProperties, AppendProperties, MaxMessagesAssumption
<1>2. ASSUME NEW i \in 1 .. Len(s) - MaxMessages
      PROVE  i \in 1 .. Len(s) + 1 - MaxMessages /\ Append(s, m)[i] = s[i]
  BY <1>1
<1>. QED
  BY <1>1, <1>2 DEF Beyond

(* It is about turns. *)
LEMMA OfKeys ==
  ASSUME NEW s \in Seq(Message)
  PROVE  Of(s) \subseteq Keys
<1>1. ToSet(s) \subseteq Message
  BY LenProperties DEF ToSet
<1>. QED
  BY <1>1 DEF Of, Key, Keys, Message

(* An empty one tells nothing. *)
LEMMA OfEmpty == Of(<<>>) = {} /\ <<>> \in Seq(Message)
<1>1. ToSet(<<>>) = {}
  BY DEF ToSet
<1>2. Of(<<>>) = {}
  BY <1>1, Zenon DEF Of
<1>. QED
  BY <1>2

(* Taking back a question takes back nothing else. *)
LEMMA OfTakenBack ==
  ASSUME NEW s \in Seq(Message), NEW t \in Turns
  PROVE  /\ RemoveFirst(s, Question(t)) \in Seq(Message)
         /\ Of(RemoveFirst(s, Question(t))) \subseteq Of(s)
         /\ Of(s) \subseteq Of(RemoveFirst(s, Question(t))) \union {Key(t, "user")}
<1> DEFINE r == RemoveFirst(s, Question(t))
<1>1. r \in Seq(Message) /\ ToSet(r) \subseteq ToSet(s) /\ ToSet(s) \subseteq ToSet(r) \union {Question(t)}
  BY WithoutOne
<1>2. Key(Question(t).turn, Question(t).role) = Key(t, "user")
  BY DEF Question
<1> HIDE DEF r
<1>3. Of(r) \subseteq Of(s)
  BY <1>1, Zenon DEF Of
<1>4. Of(s) \subseteq Of(r) \union {Key(t, "user")}
  BY <1>1, <1>2, Zenon DEF Of
<1>. QED
  BY <1>1, <1>3, <1>4 DEF r

(* Questions, replies and their keys. *)
LEMMA Messages ==
  ASSUME NEW t \in Turns
  PROVE  /\ Question(t) \in Message /\ Key(Question(t).turn, Question(t).role) = Key(t, "user")
         /\ \A b \in BOOLEAN : Reply(t, b) \in Message
                            /\ Key(Reply(t, b).turn, Reply(t, b).role) = Key(t, "assistant")
         /\ Key(t, "user") \in Keys /\ Key(t, "assistant") \in Keys
         /\ \A role : Key(t, role).turn = t /\ Key(t, role).role = role
         /\ ReplyEvent(t) \in Event
BY DEF Question, Reply, Message, Key, Keys, ReplyEvent, Event

(* What a broadcast does to the events, whether or not there is a connection. *)
LEMMA BroadcastEvents ==
  ASSUME TypeOK, NEW kind \in {"question", "tool", "reply"}, NEW t \in Turns, Broadcast(kind, t)
  PROVE  /\ events' \in Seq(Event)
         /\ ~ connected => events' = events
         /\ connected => ToSet(events') = ToSet(events) \union {[kind |-> kind, turn |-> t]}
         /\ ToSet(events') \subseteq ToSet(events) \union {[kind |-> kind, turn |-> t]}
         /\ \A u : Coming(u) => ReplyEvent(u) \in ToSet(events')
<1> DEFINE e == [kind |-> kind, turn |-> t]
<1>1. e \in Event /\ events \in Seq(Event)
  BY DEF Event, TypeOK
<1>2. events' = IF connected THEN Append(events, e) ELSE events
  BY DEF Broadcast
<1> HIDE DEF e
<1>3. Append(events, e) \in Seq(Event) /\ ToSet(Append(events, e)) = ToSet(events) \union {e}
  BY <1>1, Appended
<1>. QED
  BY <1>1, <1>2, <1>3 DEF Coming, e

-----------------------------------------------------------------------------
(* The types *)

(* Another message on record. *)
LEMMA RecordType ==
  ASSUME TypeOK, NEW t \in Turns, NEW m \in Message, Record(t, m)
  PROVE  /\ record' \in [Sessions -> Seq(Message)]
         /\ \A s \in Sessions : s # session[t] => record'[s] = record[s]
         /\ Of(record'[session[t]]) = Of(record[session[t]]) \union {Key(m.turn, m.role)}
         /\ \A s \in Sessions : Beyond(record[s]) \subseteq Beyond(record'[s])
<1>1. session[t] \in Sessions /\ record \in [Sessions -> Seq(Message)]
  BY DEF TypeOK
<1>2. /\ Append(record[session[t]], m) \in Seq(Message)
      /\ Of(Append(record[session[t]], m)) = Of(record[session[t]]) \union {Key(m.turn, m.role)}
      /\ Beyond(record[session[t]]) \subseteq Beyond(Append(record[session[t]], m))
  BY <1>1, OfAppended, BeyondGrows
<1>. QED
  BY <1>1, <1>2 DEF Record

(* The server's steps keep the types. *)
LEMMA ServerTypes ==
  ASSUME TypeOK, NEW t \in Turns,
         Send(t) \/ Post(t) \/ PostFails(t) \/ Arrive(t) \/ Begin(t) \/ Help(t)
           \/ Work(t) \/ UseTool(t) \/ NoteTool(t) \/ Answer(t)
  PROVE  TypeOK'
<1>1. session[t] \in Sessions /\ t \in Turns
  BY DEF TypeOK
<1>2. \A s \in Stages : [at EXCEPT ![t] = s] \in [Turns -> Stages]
  BY DEF TypeOK
<1>3. CASE Send(t)
  <2>1. view' \in Seq(Message)
    BY <1>3, Messages, OfAppended DEF Send, TypeOK
  <2>2. at' \in [Turns -> Stages]
    BY <1>2, <1>3 DEF Send, Move, Stages
  <2>3. known' \subseteq Keys
    BY <1>3, Messages DEF Send, TypeOK
  <2>. QED
    BY <1>3, <2>1, <2>2, <2>3 DEF Send, linkVars, Ensured, Thinking, TypeOK
<1>4. CASE Post(t)
  <2>1. record' \in [Sessions -> Seq(Message)]
    BY <1>4, Messages, RecordType DEF Post
  <2>2. at' \in [Turns -> Stages]
    BY <1>2, <1>4 DEF Post, Move, Stages
  <2>. QED
    BY <1>4, <2>1, <2>2 DEF Post, linkVars, storeVars, historyVars, TypeOK
<1>5. CASE PostFails(t)
  <2>1. view' \in Seq(Message)
    BY <1>5, OfTakenBack DEF PostFails, TypeOK
  <2>2. at' \in [Turns -> Stages]
    BY <1>2, <1>5 DEF PostFails, Move, Stages
  <2>3. known' \subseteq Keys /\ overtaken' \subseteq Keys
    BY <1>5 DEF PostFails, TypeOK
  <2>. QED
    BY <1>5, <2>1, <2>2, <2>3 DEF PostFails, linkVars, NoLive, TypeOK
<1>6. CASE Arrive(t)
  <2>1. at' \in [Turns -> Stages]
    BY <1>2, <1>6 DEF Arrive, Move, Stages
  <2>. QED
    BY <1>6, <2>1 DEF Arrive, linkVars, storeVars, historyVars, TypeOK
<1>7. CASE Begin(t)
  <2>1. at' \in [Turns -> Stages]
    BY <1>2, <1>7 DEF Begin, Move, Stages, InAgent
  <2>2. events' \in Seq(Event)
    BY <1>7, BroadcastEvents DEF Begin, TypeOK
  <2>. QED
    BY <1>7, <2>1, <2>2 DEF Begin, storeVars, historyVars, TypeOK
<1>8. CASE Work(t)
  <2>1. at' \in [Turns -> Stages]
    BY <1>2, <1>8 DEF Work, Move, Stages, InAgent
  <2>2. record' \in [Sessions -> Seq(Message)]
    BY <1>8, Messages, RecordType DEF Work, TypeOK
  <2>3. live' \in [Sessions -> SUBSET Turns]
    BY <1>8 DEF Work, TypeOK
  <2>. QED
    BY <1>8, <2>1, <2>2, <2>3 DEF Work, linkVars, storeVars, historyVars, TypeOK
<1>9. CASE UseTool(t)
  <2>1. at' \in [Turns -> Stages]
    BY <1>2, <1>9 DEF UseTool, Move, Stages, InAgent
  <2>2. events' \in Seq(Event)
    BY <1>9, BroadcastEvents DEF UseTool
  <2>. QED
    BY <1>9, <2>1, <2>2 DEF UseTool, storeVars, historyVars, TypeOK
<1>10. CASE Answer(t)
  <2>1. at' \in [Turns -> Stages]
    BY <1>2, <1>10 DEF Answer, Move, Stages
  <2>2. record' \in [Sessions -> Seq(Message)]
    BY <1>10, Messages, RecordType DEF Answer
  <2>3. live' \in [Sessions -> SUBSET Turns] /\ outbound' \in Seq(Turns)
    BY <1>10 DEF Answer, TypeOK
  <2>. QED
    BY <1>10, <2>1, <2>2, <2>3 DEF Answer, linkVars, storeVars, historyVars, TypeOK
<1>11. CASE NoteTool(t)
  <2>1. at' \in [Turns -> Stages]
    BY <1>2, <1>11 DEF NoteTool, Move, Stages, InAgent
  <2>2. live' \in [Sessions -> SUBSET Turns]
    BY <1>11, <1>1 DEF NoteTool, TypeOK
  <2>. QED
    BY <1>11, <2>1, <2>2 DEF NoteTool, linkVars, storeVars, historyVars, TypeOK
<1>12. CASE Help(t)
  <2>1. at' \in [Turns -> Stages]
    BY <1>2, <1>12 DEF Help, Move, Stages
  <2>2. live' \in [Sessions -> SUBSET Turns] /\ outbound' \in Seq(Turns)
    BY <1>12 DEF Help, TypeOK
  <2>. QED
    BY <1>12, <2>1, <2>2 DEF Help, linkVars, storeVars, historyVars, TypeOK
<1>. QED
  BY <1>3, <1>4, <1>5, <1>6, <1>7, <1>8, <1>9, <1>10, <1>11, <1>12

(* The dispatcher and the browser's handlers of events. *)
LEMMA EventTypes ==
  ASSUME TypeOK, Deliver \/ OnUserMessage \/ OnToolUse \/ OnMessage
  PROVE  TypeOK'
<1>1. CASE Deliver
  <2>1. Head(outbound) \in Turns /\ Tail(outbound) \in Seq(Turns)
    BY <1>1, Popped DEF Deliver, TypeOK
  <2>2. at' \in [Turns -> Stages]
    BY <1>1, <2>1 DEF Deliver, Move, Stages, TypeOK
  <2>3. events' \in Seq(Event)
    BY <1>1, <2>1, BroadcastEvents DEF Deliver
  <2>. QED
    BY <1>1, <2>1, <2>2, <2>3 DEF Deliver, storeVars, historyVars, TypeOK
<1>2. CASE OnUserMessage \/ OnToolUse \/ OnMessage
  <2>1. PICK kind : Receive(kind)
    BY <1>2 DEF OnUserMessage, OnToolUse, OnMessage
  <2>0. events \in Seq(Event) /\ events # <<>> /\ events' = Tail(events)
    BY <2>1 DEF Receive, TypeOK
  <2>5. Head(events) \in Event /\ events' \in Seq(Event)
    BY <2>0, Popped
  <2>2. PICK t \in Turns : t = Head(events).turn
    BY <2>5 DEF Event
  <2>3. events' \in Seq(Event)
    BY <2>5
  <2>4. view' \in Seq(Message)
    <3>1. view \in Seq(Message) /\ Append(view, Question(t)) \in Seq(Message)
          /\ Append(view, Reply(t, TRUE)) \in Seq(Message)
      BY Messages, OfAppended DEF TypeOK
    <3>2. CASE OnUserMessage
      BY <2>2, <3>1, <3>2 DEF OnUserMessage
    <3>3. CASE OnToolUse
      BY <3>1, <3>3 DEF OnToolUse
    <3>4. CASE OnMessage
      BY <2>2, <3>1, <3>4 DEF OnMessage
    <3>. QED
      BY <1>2, <3>2, <3>3, <3>4
  <2>6. known' \subseteq Keys
    <3>1. known \subseteq Keys /\ Key(t, "user") \in Keys /\ Key(t, "assistant") \in Keys
      BY Messages DEF TypeOK
    <3>2. CASE OnUserMessage
      BY <2>2, <3>1, <3>2 DEF OnUserMessage
    <3>3. CASE OnToolUse
      BY <3>1, <3>3 DEF OnToolUse
    <3>4. CASE OnMessage
      BY <2>2, <3>1, <3>4 DEF OnMessage
    <3>. QED
      BY <1>2, <3>2, <3>3, <3>4
  <2>7. cache' \in [Sessions -> SUBSET (Turns \union Thinking)]
    <3>1. session[t] \in Sessions /\ cache \in [Sessions -> SUBSET (Turns \union Thinking)]
      BY DEF TypeOK
    <3>2. CASE OnUserMessage
      BY <2>2, <3>1, <3>2 DEF OnUserMessage, Ensured
    <3>3. CASE OnToolUse
      BY <2>2, <3>1, <3>3 DEF OnToolUse, Ensured
    <3>4. CASE OnMessage
      BY <2>2, <3>1, <3>4 DEF OnMessage, NoLive
    <3>. QED
      BY <1>2, <3>2, <3>3, <3>4
  <2>. QED
    BY <2>1, <2>3, <2>4, <2>6, <2>7 DEF Receive, serverVars, TypeOK
<1>. QED
  BY <1>1, <1>2

(* A history is asked for. *)
LEMMA AskForLoads ==
  ASSUME TypeOK, NEW s \in Sessions, AskFor(s)
  PROVE  /\ token' \in 0..MaxLoads /\ token' = token + 1
         /\ loads' \subseteq Load
         /\ \E x \in Load : loads' = loads \union {x} /\ ~ x.answered /\ x.token = token' /\ x.session = s
         /\ current' = s /\ view' = view /\ shown' = shown /\ cache' = cache
<1> DEFINE l == [token |-> NextToken, session |-> s, answered |-> FALSE, data |-> <<>>, live |-> {},
                 recorded |-> {}]
<1>1. token \in 0..MaxLoads /\ token < MaxLoads /\ token' = token + 1 /\ loads' = loads \union {l}
      /\ MaxLoads \in Nat
  BY BoundsAssumption DEF AskFor, TypeOK
<1>2. token' \in 1..MaxLoads
  BY <1>1
<1>3. l.token = token' /\ l.session = s /\ ~ l.answered
  BY <1>1 DEF NextToken
<1>4. l \in Load
  <2>1. /\ <<>> \in Seq([turn : Turns, role : {"user", "assistant"}, tagged : BOOLEAN])
        /\ NextToken \in 1..MaxLoads
    BY <1>1, <1>2 DEF NextToken
  <2>. QED
    BY <2>1 DEF Load
<1> HIDE DEF l
<1>5. current' = s /\ view' = view /\ shown' = shown /\ cache' = cache
  BY DEF AskFor
<1>6. loads \subseteq Load /\ token' \in 0..MaxLoads
  BY <1>2 DEF TypeOK
<1>. QED
  BY <1>1, <1>3, <1>4, <1>5, <1>6

(* What get_session answers. *)
LEMMA ServeLoads ==
  ASSUME TypeOK, NEW l \in loads, Serve(l)
  PROVE  \E x \in Load :
           /\ x.token = l.token /\ x.session = l.session
           /\ x.data = Recent(record[l.session]) /\ x.live = live[l.session]
           /\ x.recorded = Of(record[l.session])
           /\ loads' = (loads \ {l}) \union {x}
<1> DEFINE x == [l EXCEPT !.answered = TRUE, !.data = Recent(record[l.session]), !.live = live[l.session],
                          !.recorded = Of(record[l.session])]
<1>1. l \in Load
  BY DEF TypeOK
<1>2. record[l.session] \in Seq(Message) /\ live[l.session] \in SUBSET Turns
  BY <1>1 DEF TypeOK, Load
<1>5. Recent(record[l.session]) \in Seq(Message) /\ Of(record[l.session]) \subseteq Keys
  BY <1>2, RecentOnes, OfKeys
<1>3. x \in Load /\ x.token = l.token /\ x.session = l.session
      /\ x.data = Recent(record[l.session]) /\ x.live = live[l.session]
      /\ x.recorded = Of(record[l.session])
  BY <1>1, <1>2, <1>5 DEF Load, Message, Keys
<1>4. loads' = (loads \ {l}) \union {x}
  BY DEF Serve
<1> HIDE DEF x
<1>. QED
  BY <1>3, <1>4

(* What loadHistory does to the live messages. *)
LEMMA LandCache ==
  ASSUME NEW l, Land(l)
  PROVE  \/ l.live = {} /\ shown' = NoLive /\ cache' = [cache EXCEPT ![l.session] = NoLive]
         \/ l.live # {} /\ cache' = cache /\ cache[l.session] # NoLive /\ shown' = cache[l.session]
         \/ l.live # {} /\ cache' = cache /\ cache[l.session] = NoLive /\ l.live \subseteq shown'
<1>1. cache' = LiveRestored(l).cache /\ shown' = LiveRestored(l).shown
  BY DEF Land
<1>2. CASE l.live = {}
  BY <1>1, <1>2 DEF LiveRestored
<1>3. CASE l.live # {} /\ cache[l.session] # NoLive
  BY <1>1, <1>3 DEF LiveRestored
<1>4. CASE l.live # {} /\ cache[l.session] = NoLive
  BY <1>1, <1>4 DEF LiveRestored
<1>. QED
  BY <1>2, <1>3, <1>4

(* The other steps of the browser and the server's answers to it. *)
LEMMA StoreTypes ==
  ASSUME TypeOK,
         \/ \E s \in Sessions : Switch(s) \/ NewSession(s)
         \/ \E l \in loads : Serve(l) \/ Land(l) \/ Discard(l) \/ LoadFails(l)
         \/ Disconnect
         \/ Reconnect
  PROVE  TypeOK'
<1>1. ASSUME NEW s \in Sessions, Switch(s) PROVE TypeOK'
  BY <1>1, AskForLoads DEF Switch, serverVars, linkVars, historyVars, TypeOK
<1>2. ASSUME NEW s \in Sessions, NewSession(s) PROVE TypeOK'
  BY <1>2 DEF NewSession, serverVars, linkVars, TypeOK
<1>3. ASSUME NEW l \in loads, Serve(l) PROVE TypeOK'
  <2>1. loads' \subseteq Load
    BY <1>3, ServeLoads DEF TypeOK
  <2>. QED
    BY <1>3, <2>1 DEF Serve, serverVars, linkVars, historyVars, TypeOK
<1>4. ASSUME NEW l \in loads, Land(l) PROVE TypeOK'
  <2>1. l.data \in Seq(Message) /\ l.session \in Sessions
    BY DEF TypeOK, Load, Message
  <2>2. cache' \in [Sessions -> SUBSET (Turns \union Thinking)]
    <3>1. cache' = cache \/ cache' = [cache EXCEPT ![l.session] = NoLive]
      BY <1>4, LandCache
    <3>. QED
      BY <2>1, <3>1 DEF NoLive, TypeOK
  <2>. QED
    BY <1>4, <2>1, <2>2 DEF Land, serverVars, linkVars, TypeOK
<1>5. ASSUME NEW l \in loads, Discard(l) \/ LoadFails(l) PROVE TypeOK'
  BY <1>5 DEF Discard, LoadFails, serverVars, linkVars, historyVars, TypeOK
<1>6. CASE Disconnect
  <2>1. events' = <<>> /\ connected' = FALSE
    BY <1>6, Zenon DEF Disconnect
  <2>2. events' \in Seq(Event)
    BY <2>1
  <2>. QED
    BY <1>6, <2>1, <2>2 DEF Disconnect, serverVars, storeVars, historyVars, TypeOK
<1>7. CASE Reconnect
  BY <1>7, AskForLoads DEF Reconnect, SyncAfterReconnect, serverVars, historyVars, TypeOK
<1>. QED
  BY <1>1, <1>2, <1>3, <1>4, <1>5, <1>6, <1>7

-----------------------------------------------------------------------------
(* The server *)

(* One turn goes on, the others stay where they are. *)
LEMMA MoveOfOne ==
  ASSUME TypeOK, NEW t \in Turns, NEW from, NEW to, Move(t, from, to)
  PROVE  at[t] \in from /\ at'[t] = to /\ \A u \in Turns : u # t => at'[u] = at[u]
BY DEF Move, TypeOK

(* A record is left alone, and so is what is answered. *)
LEMMA RecordKept ==
  ASSUME RecordIsSound, session' = session, help' = help, record' = record,
         \A t \in Turns \ help : at'[t] \in {"replied", "ended"} <=> at[t] \in {"replied", "ended"}
  PROVE  RecordIsSound'
BY DEF RecordIsSound, AreOf

(* A message on record, which is the reply of a turn that is answered, or a question. *)
LEMMA RecordAdds ==
  ASSUME TypeOK, RecordIsSound, session' = session, help' = help, NEW t \in Turns, NEW m \in Message,
         m.turn = t, Record(t, m), t \in help => m.role = "user",
         \A u \in Turns : at'[u] \in {"replied", "ended"} <=>
                            at[u] \in {"replied", "ended"} \/ (u = t /\ m.role = "assistant")
  PROVE  RecordIsSound'
<1>1. /\ \A s \in Sessions : s # session[t] => record'[s] = record[s]
      /\ Of(record'[session[t]]) = Of(record[session[t]]) \union {Key(m.turn, m.role)}
  BY RecordType
<1>2. Key(m.turn, m.role).turn = t /\ Key(m.turn, m.role).role = m.role
  BY DEF Key
<1>3. ASSUME NEW s \in Sessions
      PROVE  /\ AreOf(s, Of(record'[s]))
             /\ \A u \in Turns : session[u] = s =>
                  (Key(u, "assistant") \in Of(record'[s]) <=>
                     at'[u] \in {"replied", "ended"} /\ u \notin help)
  <2>1. CASE s # session[t]
    BY <2>1, <1>1 DEF RecordIsSound
  <2>2. CASE s = session[t]
    <3>1. AreOf(s, Of(record'[s]))
      BY <2>2, <1>1, <1>2 DEF RecordIsSound, AreOf
    <3>2. \A u \in Turns : Key(u, "assistant") = Key(m.turn, m.role) <=> u = t /\ m.role = "assistant"
      BY DEF Key
    <3>. QED
      BY <2>2, <1>1, <3>1, <3>2 DEF RecordIsSound
  <2>. QED
    BY <2>1, <2>2
<1>. QED
  BY <1>3 DEF RecordIsSound, AreOf

(* The record of each step of a turn. *)
LEMMA TurnRecord ==
  ASSUME TypeOK, RecordIsSound, HelpIsSound, NEW t \in Turns,
         Send(t) \/ Post(t) \/ PostFails(t) \/ Arrive(t) \/ Begin(t) \/ Help(t)
           \/ Work(t) \/ UseTool(t) \/ NoteTool(t) \/ Answer(t)
  PROVE  RecordIsSound'
<1>1. session' = session /\ help' = help
  BY DEF Send, Post, PostFails, Arrive, Begin, Help, Work, UseTool, NoteTool, Answer
<1>2. Question(t) \in Message /\ Question(t).turn = t /\ Question(t).role = "user"
  BY Messages DEF Question
<1>3. Reply(t, FALSE) \in Message /\ Reply(t, FALSE).turn = t /\ Reply(t, FALSE).role = "assistant"
  BY Messages DEF Reply
<1>4. CASE Send(t) \/ PostFails(t) \/ Arrive(t) \/ Begin(t) \/ UseTool(t) \/ NoteTool(t)
  <2>1. record' = record
    BY <1>4 DEF Send, PostFails, Arrive, Begin, UseTool, NoteTool
  <2>2. PICK from, to : Move(t, from, to) /\ "replied" \notin from /\ "ended" \notin from
                          /\ to \notin {"replied", "ended"}
    BY <1>4 DEF Send, PostFails, Arrive, Begin, UseTool, NoteTool
  <2>. QED
    BY <1>1, <2>1, <2>2, MoveOfOne, RecordKept
<1>5. CASE Post(t) \/ Work(t)
  <2>1. PICK from, to : Move(t, from, to) /\ "replied" \notin from /\ "ended" \notin from
                          /\ to \notin {"replied", "ended"}
    BY <1>5 DEF Post, Work
  <2>2. Record(t, Question(t)) \/ record' = record
    BY <1>5 DEF Post, Work
  <2>. QED
    BY <1>1, <1>2, <2>1, <2>2, MoveOfOne, RecordKept, RecordAdds
<1>6. CASE Answer(t)
  <2>1. Move(t, {"working", "worked"}, "replied") /\ Record(t, Reply(t, FALSE))
    BY <1>6 DEF Answer
  <2>3. t \notin help
    BY <2>1, MoveOfOne DEF HelpIsSound
  <2>2. \A u \in Turns : at'[u] \in {"replied", "ended"} <=>
                         at[u] \in {"replied", "ended"} \/ (u = t /\ Reply(t, FALSE).role = "assistant")
    BY <1>3, <2>1, MoveOfOne
  <2>. QED
    BY <1>1, <1>3, <2>1, <2>2, <2>3, RecordAdds
<1>7. CASE Help(t)
  <2>1. Move(t, {"begun"}, "replied") /\ record' = record /\ t \in help
    BY <1>7 DEF Help
  <2>. QED
    BY <1>1, <2>1, MoveOfOne, RecordKept
<1>. QED
  BY <1>4, <1>5, <1>6, <1>7

(* /help is not worked at. *)
LEMMA TurnHelp ==
  ASSUME TypeOK, HelpIsSound, NEW t \in Turns,
         Send(t) \/ Post(t) \/ PostFails(t) \/ Arrive(t) \/ Begin(t) \/ Help(t)
           \/ Work(t) \/ UseTool(t) \/ NoteTool(t) \/ Answer(t)
  PROVE  HelpIsSound'
<1>1. help' = help
  BY DEF Send, Post, PostFails, Arrive, Begin, Help, Work, UseTool, NoteTool, Answer
<1>2. \A u \in Turns : u # t => at'[u] = at[u]
  BY MoveOfOne DEF Send, Post, PostFails, Arrive, Begin, Help, Work, UseTool, NoteTool, Answer
<1>3. CASE Send(t) \/ Post(t) \/ PostFails(t) \/ Arrive(t) \/ Begin(t) \/ Help(t) \/ Answer(t)
  <2>1. at'[t] \in {"posting", "queued", "failed", "begun", "replied"}
    BY <1>3, MoveOfOne DEF Send, Post, PostFails, Arrive, Begin, Help, Answer
  <2>. QED
    BY <1>1, <1>2, <2>1 DEF HelpIsSound, TypeOK
<1>4. CASE Work(t)
  <2>1. t \notin help
    BY <1>4 DEF Work
  <2>. QED
    BY <1>1, <1>2, <2>1 DEF HelpIsSound, TypeOK
<1>5. CASE UseTool(t) \/ NoteTool(t)
  <2>1. at[t] \in {"working", "using"}
    BY <1>5, MoveOfOne DEF UseTool, NoteTool
  <2>. QED
    BY <1>1, <1>2, <2>1 DEF HelpIsSound, TypeOK
<1>. QED
  BY <1>3, <1>4, <1>5

(* live_state is emptied when the agent begins to work and when it answers. *)
LEMMA TurnLive ==
  ASSUME TypeOK, LiveIsSound, NEW t \in Turns,
         Send(t) \/ Post(t) \/ PostFails(t) \/ Arrive(t) \/ Begin(t) \/ Help(t)
           \/ Work(t) \/ UseTool(t) \/ NoteTool(t) \/ Answer(t)
  PROVE  LiveIsSound'
<1>1. session' = session
  BY DEF Send, Post, PostFails, Arrive, Begin, Help, Work, UseTool, NoteTool, Answer
<1>2. CASE Send(t) \/ Post(t) \/ PostFails(t) \/ Arrive(t) \/ Begin(t) \/ UseTool(t)
  <2>1. live' = live
    BY <1>2 DEF Send, Post, PostFails, Arrive, Begin, UseTool
  <2>2. PICK from, to : Move(t, from, to) /\ "worked" \notin from
    BY <1>2 DEF Send, Post, PostFails, Arrive, Begin, UseTool
  <2>. QED
    BY <1>1, <2>1, <2>2, MoveOfOne DEF LiveIsSound, TypeOK
<1>3. CASE Help(t) \/ Work(t) \/ Answer(t)
  <2>1. live' = [live EXCEPT ![session[t]] = {}]
    BY <1>3 DEF Help, Work, Answer
  <2>2. \A u \in Turns : u # t => at'[u] = at[u]
    BY <1>3, MoveOfOne DEF Help, Work, Answer
  <2>. QED
    BY <1>1, <2>1, <2>2 DEF LiveIsSound, TypeOK
<1>4. CASE NoteTool(t)
  <2>1. live' = [live EXCEPT ![session[t]] = @ \union {t}]
    BY <1>4 DEF NoteTool
  <2>2. at'[t] = "worked" /\ \A u \in Turns : u # t => at'[u] = at[u]
    BY <1>4, MoveOfOne DEF NoteTool
  <2>. QED
    BY <1>1, <2>1, <2>2 DEF LiveIsSound, TypeOK
<1>. QED
  BY <1>2, <1>3, <1>4

-----------------------------------------------------------------------------
(* The events *)

(* No event comes or goes, and no turn leaves the agent unanswered. *)
LEMMA EventsKept ==
  ASSUME EventsAreSound, events' = events, connected' = connected,
         \A t \in Turns : Underway(t) => Underway(t)'
  PROVE  EventsAreSound'
BY DEF EventsAreSound, ReplyEvent

(* One event more: of a turn that is under way, or its reply. *)
LEMMA EventAdded ==
  ASSUME EventsAreSound, TypeOK, connected' = connected,
         NEW kind \in {"question", "tool", "reply"}, NEW t \in Turns, Broadcast(kind, t),
         \A u \in Turns : u # t => at'[u] = at[u],
         kind = "reply" \/ Underway(t)'
  PROVE  EventsAreSound'
<1>1. CASE ~ connected
  BY <1>1 DEF EventsAreSound, Broadcast
<1>2. CASE connected
  <2>1. PICK e, n : e = [kind |-> kind, turn |-> t] /\ n = Len(events)
    OBVIOUS
  <2>2. e \in Event /\ e.kind = kind /\ e.turn = t /\ (kind = "reply" => e = ReplyEvent(t))
    BY <2>1 DEF Event, ReplyEvent
  <2>3. events \in Seq(Event) /\ events' = Append(events, e) /\ n \in Nat
    BY <1>2, <2>1 DEF TypeOK, Broadcast
  <2>4. Len(events') = n + 1 /\ events'[n + 1] = e /\ \A i \in 1 .. n : events'[i] = events[i]
    BY <2>1, <2>2, <2>3, AppendProperties
  <2>5. ASSUME NEW i \in 1 .. n + 1, NEW u \in Turns, events'[i].turn = u, events'[i].kind # "reply"
        PROVE  Underway(u)' \/ \E j \in i .. n + 1 : events'[j] = ReplyEvent(u)
    <3>1. CASE i = n + 1
      BY <2>2, <2>4, <2>5, <3>1
    <3>2. CASE i \in 1 .. n
      <4>1. Underway(u) \/ \E j \in i .. n : events[j] = ReplyEvent(u)
        BY <2>1, <2>4, <2>5, <3>2 DEF EventsAreSound
      <4>2. CASE Underway(u) /\ (u # t \/ Underway(t)')
        BY <4>2 DEF Underway
      <4>3. CASE u = t /\ kind = "reply"
        BY <2>2, <2>3, <2>4, <3>2, <4>3
      <4>4. CASE \E j \in i .. n : events[j] = ReplyEvent(u)
        <5>1. PICK j \in i .. n : events[j] = ReplyEvent(u)
          BY <4>4
        <5>2. j \in 1 .. n /\ j \in i .. n + 1
          BY <2>3, <3>2
        <5>. QED
          BY <2>4, <5>1, <5>2
      <4>. QED
        BY <4>1, <4>2, <4>3, <4>4
    <3>3. i = n + 1 \/ i \in 1 .. n
      BY <2>3
    <3>. QED
      BY <3>1, <3>2, <3>3, Zenon
  <2>. QED
    BY <1>2, <2>4, <2>5 DEF EventsAreSound, ReplyEvent
<1>. QED
  BY <1>1, <1>2

(* The first event reaches the browser. *)
LEMMA EventTaken ==
  ASSUME EventsAreSound, TypeOK, NEW kind, Receive(kind)
  PROVE  EventsAreSound'
<1>1. /\ events \in Seq(Event) /\ events # <<>> /\ events' = Tail(events)
      /\ at' = at /\ connected' = connected
  BY DEF Receive, TypeOK, serverVars
<1>2. /\ Len(events') = Len(events) - 1 /\ Len(events) \in Nat \ {0}
      /\ \A i \in 1 .. Len(events') : events'[i] = events[i + 1]
  BY <1>1, Popped
<1>3. ASSUME NEW i \in 1 .. Len(events'), NEW t \in Turns, events'[i].turn = t, events'[i].kind # "reply"
      PROVE  Underway(t) \/ \E j \in i .. Len(events') : events'[j] = ReplyEvent(t)
  <2>1. i + 1 \in 1 .. Len(events) /\ events'[i] = events[i + 1]
    BY <1>2
  <2>2. Underway(t) \/ \E j \in i + 1 .. Len(events) : events[j] = ReplyEvent(t)
    BY <1>3, <2>1 DEF EventsAreSound
  <2>3. ASSUME NEW j \in i + 1 .. Len(events), events[j] = ReplyEvent(t)
        PROVE  \E k \in i .. Len(events') : events'[k] = ReplyEvent(t)
    <3>1. j - 1 \in 1 .. Len(events') /\ j - 1 \in i .. Len(events') /\ j - 1 + 1 = j
      BY <1>2
    <3>. QED
      BY <3>1, <1>2, <2>3
  <2>. QED
    BY <2>2, <2>3
<1>. QED
  BY <1>1, <1>3 DEF EventsAreSound, Underway, ReplyEvent

(* The events of each step of a turn. *)
LEMMA TurnEvents ==
  ASSUME TypeOK, EventsAreSound, NEW t \in Turns,
         Send(t) \/ Post(t) \/ PostFails(t) \/ Arrive(t) \/ Begin(t) \/ Help(t)
           \/ Work(t) \/ UseTool(t) \/ NoteTool(t) \/ Answer(t)
  PROVE  EventsAreSound'
<1>1. CASE \/ Send(t) \/ Post(t) \/ PostFails(t) \/ Arrive(t)
           \/ Help(t) \/ Work(t) \/ NoteTool(t) \/ Answer(t)
  <2>1. events' = events /\ connected' = connected
    BY <1>1 DEF Send, Post, PostFails, Arrive, Help, Work, NoteTool, Answer, linkVars
  <2>2. PICK from, to :
          /\ Move(t, from, to)
          /\ from \subseteq {"new", "posting"} \/ to \in {"working", "worked", "replied"}
    BY <1>1 DEF Send, Post, PostFails, Arrive, Help, Work, NoteTool, Answer
  <2>3. \A u \in Turns : Underway(u) => Underway(u)'
    BY <2>2, MoveOfOne DEF Underway, InAgent
  <2>. QED
    BY <2>1, <2>3, EventsKept
<1>2. CASE Begin(t)
  <2>1. Move(t, {"queued"}, "begun") /\ connected' = connected
    BY <1>2 DEF Begin
  <2>2. at'[t] \in InAgent /\ Underway(t)' /\ ~ Underway(t) /\ \A u \in Turns : u # t => at'[u] = at[u]
    BY <2>1, MoveOfOne DEF Underway, InAgent
  <2>3. CASE Broadcast("question", t)
    BY <2>1, <2>2, <2>3, EventAdded
  <2>4. CASE events' = events
    <3>1. \A u \in Turns : Underway(u) => Underway(u)'
      BY <2>2 DEF Underway
    <3>. QED
      BY <2>1, <2>4, <3>1, EventsKept
  <2>. QED
    BY <1>2, <2>3, <2>4 DEF Begin
<1>3. CASE UseTool(t)
  <2>1. Move(t, {"working"}, "using") /\ connected' = connected /\ Broadcast("tool", t)
    BY <1>3 DEF UseTool
  <2>2. Underway(t)' /\ \A u \in Turns : u # t => at'[u] = at[u]
    BY <2>1, MoveOfOne DEF Underway, InAgent
  <2>. QED
    BY <2>1, <2>2, EventAdded
<1>. QED
  BY <1>1, <1>2, <1>3

-----------------------------------------------------------------------------
(* What the browser holds, while the server works *)

(* Loads that stay, or come to their end, are as sound as before. *)
LEMMA LoadsKept ==
  ASSUME LoadsAreSound, TypeOK, loads' \subseteq loads, token' = token, session' = session,
         current' = current, unloaded => unloaded',
         \A s \in Sessions : Beyond(record[s]) \subseteq Beyond(record'[s])
  PROVE  LoadsAreSound'
<1>1. \A l \in loads : l.session \in Sessions
  BY DEF TypeOK, Load
<1>2. \A l \in loads' : /\ l.token <= token
                        /\ \A k \in loads' : k.token = l.token => k = l
                        /\ l.token = token => l.session = current \/ unloaded'
                        /\ l.answered => /\ AreOf(l.session, Of(l.data))
                                         /\ l.recorded \subseteq Of(l.data) \union Beyond(record'[l.session])
  BY <1>1 DEF LoadsAreSound, Wanted
<1>. QED
  BY <1>2 DEF LoadsAreSound, Wanted, AreOf

(* And as fresh, if the browser is told what is no longer coming. *)
LEMMA FreshKept ==
  ASSUME LoadsAreFresh, TypeOK, loads' \subseteq loads, token' = token, session' = session, help' = help,
         connected' => connected,
         connected' => \A t \in Turns :
           /\ at'[t] = "ended" => at[t] = "ended" \/ Coming(t)'
           /\ Underway(t) => Underway(t)' \/ Coming(t)'
           /\ Coming(t) => Coming(t)' \/ (Key(t, "assistant") \in known' /\ CacheIsSound(session[t])')
           /\ Key(t, "assistant") \in known => Key(t, "assistant") \in known',
         connected' => \A s \in Sessions : CacheIsSound(s) => CacheIsSound(s)'
  PROVE  LoadsAreFresh'
<1> SUFFICES ASSUME NEW l \in loads, l.answered, Wanted(l), connected'
             PROVE  /\ \A t \in Turns : session[t] = l.session /\ at'[t] = "ended" /\ t \notin help =>
                         Key(t, "assistant") \in l.recorded \union known' \/ Coming(t)'
                    /\ \A t \in l.live :
                         /\ session[t] = l.session /\ t \notin help
                         /\ Key(t, "assistant") \notin l.recorded
                         /\ \/ Underway(t)' \/ Coming(t)'
                            \/ Key(t, "assistant") \in known' /\ CacheIsSound(l.session)'
  BY DEF LoadsAreFresh, AnswerIsFresh, Wanted, Key, CacheIsSound, AtWork, NoLive
<1>1. AnswerIsFresh(l) /\ l.live \subseteq Turns /\ l.session \in Sessions
  BY DEF LoadsAreFresh, TypeOK, Load
<1>. QED
  BY <1>1 DEF AnswerIsFresh

(* Names for what the browser's part of the invariant speaks of. *)
StoreKept ==
  /\ session' = session /\ local' = local /\ help' = help /\ current' = current
  /\ view' = view /\ cache' = cache /\ shown' = shown /\ token' = token /\ loads' = loads
  /\ known' = known /\ overtaken' = overtaken /\ wiped' = wiped /\ unloaded' = unloaded

(* A turn that goes on in the server is still to be seen, or its reply is coming. *)
LEMMA ServerKeeps ==
  ASSUME StoreInv, TypeOK, StoreKept, connected' = connected,
         \A s \in Sessions : Beyond(record[s]) \subseteq Beyond(record'[s]),
         \A t \in Turns : Coming(t) => Coming(t)',
         \A t \in Turns : Asked(t)' => Asked(t),
         connected => \A t \in Turns :
           /\ at'[t] = "ended" => at[t] = "ended" \/ Coming(t)'
           /\ Underway(t) => Underway(t)' \/ Coming(t)'
           /\ Unended(t) => Unended(t)' \/ Coming(t)'
  PROVE  StoreInv'
<1>1. AskedIsKnown'
  BY DEF StoreInv, StoreKept, AskedIsKnown, Key
<1>2. LoadsAreSound'
  BY LoadsKept DEF StoreInv, StoreKept
<1>5. connected => \A s : AtWork(s) => AtWork(s)'
  BY DEF AtWork, StoreKept
<1>3. LoadsAreFresh'
  <2>1. ASSUME NEW t \in Turns, connected
        PROVE  /\ at'[t] = "ended" => at[t] = "ended" \/ Coming(t)'
               /\ Underway(t) => Underway(t)' \/ Coming(t)'
               /\ Coming(t) => Coming(t)'
    BY <2>1
  <2>2. connected => \A s : CacheIsSound(s) => CacheIsSound(s)'
    BY <1>5 DEF CacheIsSound, StoreKept, NoLive
  <2>. QED
    BY <2>1, <2>2, FreshKept DEF StoreInv, StoreKept
<1>4. ViewIsSound'
  <2>1. /\ Of(view') = Of(view) /\ Held \subseteq Held' /\ (Quiet' <=> Quiet)
        /\ current \in Sessions
    BY DEF StoreKept, Held, Quiet, Wanted, TypeOK
  <2> SUFFICES ASSUME Quiet
               PROVE  /\ AreOf(current, Of(view))
                      /\ \A t \in Turns : session[t] = current /\ Asked(t)' => Key(t, "user") \in Held
                      /\ connected =>
                           \A t \in Turns : session[t] = current /\ at'[t] = "ended" /\ t \notin help =>
                             Key(t, "assistant") \in Held \/ Coming(t)'
                      /\ \A t \in help : session[t] = current /\ Key(t, "assistant") \in known =>
                           Key(t, "assistant") \in Of(view) \union wiped
                      /\ connected /\ shown # NoLive =>
                           (\E t \in shown : Key(t, "assistant") \in overtaken) \/ AtWork(current)'
    BY <2>1 DEF StoreKept, ViewIsSound, AreOf, Key, NoLive
  <2>2. ViewIsSound
    BY DEF StoreInv
  <2>3. \A t \in Turns : session[t] = current /\ Asked(t)' => Key(t, "user") \in Held
    BY <2>2 DEF ViewIsSound
  <2>4. connected => \A t \in Turns : session[t] = current /\ at'[t] = "ended" /\ t \notin help =>
                       Key(t, "assistant") \in Held \/ Coming(t)'
    BY <2>2 DEF ViewIsSound
  <2>5. connected /\ shown # NoLive =>
          (\E t \in shown : Key(t, "assistant") \in overtaken) \/ AtWork(current)'
    <3>1. connected => (AtWork(current) => AtWork(current)')
      BY DEF AtWork, StoreKept
    <3>. QED
      BY <2>2, <3>1 DEF ViewIsSound
  <2>. QED
    BY <2>2, <2>3, <2>4, <2>5 DEF ViewIsSound
<1>. QED
  BY <1>1, <1>2, <1>3, <1>4 DEF StoreInv

(* The steps of a turn between its question and its reply. *)
LEMMA TurnStore ==
  ASSUME StoreInv, TypeOK, NEW t \in Turns,
         Post(t) \/ Arrive(t) \/ Begin(t) \/ Help(t)
           \/ Work(t) \/ UseTool(t) \/ NoteTool(t) \/ Answer(t)
  PROVE  StoreInv'
<1>1. StoreKept /\ connected' = connected
  BY DEF Post, Arrive, Begin, Help, Work, UseTool, NoteTool, Answer, linkVars, storeVars, historyVars,
         StoreKept
<1>7. \A s \in Sessions : Beyond(record[s]) \subseteq Beyond(record'[s])
  <2>1. record' = record \/ \E m \in Message : Record(t, m)
    BY Messages DEF Post, Arrive, Begin, Help, Work, UseTool, NoteTool, Answer
  <2>. QED
    BY <2>1, RecordType
<1>2. PICK from, to : /\ Move(t, from, to)
                      /\ to \in {"queued", "replied"} \union InAgent
                      /\ from \subseteq {"new", "posting", "queued"} \/ to \in {"replied"} \union InAgent
                      /\ "new" \in from => ~ local[t]
                      /\ from \subseteq {"new", "posting", "queued"} \union InAgent
  <2>1. CASE Post(t)
    BY <2>1 DEF Post
  <2>2. CASE Arrive(t)
    BY <2>2 DEF Arrive
  <2>3. CASE Begin(t) \/ Work(t) \/ UseTool(t) \/ NoteTool(t)
    BY <2>3 DEF Begin, Work, UseTool, NoteTool, InAgent
  <2>4. CASE Help(t)
    BY <2>4 DEF Help, InAgent
  <2>5. CASE Answer(t)
    BY <2>5 DEF Answer, InAgent
  <2>. QED
    BY <2>1, <2>2, <2>3, <2>4, <2>5
<1>3. /\ at[t] \in from /\ at'[t] = to
      /\ \A u \in Turns : u # t => at'[u] = at[u]
  BY <1>2, MoveOfOne
<1>4. \A u \in Turns : Coming(u) => Coming(u)'
  <2>1. events' = events \/ \E kind \in {"question", "tool"} : Broadcast(kind, t)
    BY DEF Post, Arrive, Begin, Help, Work, UseTool, NoteTool, Answer, linkVars
  <2>. QED
    BY <2>1, BroadcastEvents DEF Coming, ReplyEvent
<1>5. \A u \in Turns : Asked(u)' => Asked(u)
  BY <1>1, <1>2, <1>3 DEF Asked, StoreKept, InAgent
<1>6. ASSUME NEW u \in Turns
      PROVE  /\ at'[u] = "ended" => at[u] = "ended"
             /\ Underway(u) => Underway(u)'
             /\ Unended(u) => Unended(u)'
  <2>1. CASE u = t
    BY <1>2, <1>3, <2>1 DEF Underway, Unended, InAgent
  <2>2. CASE u # t
    BY <1>3, <2>2 DEF Underway, Unended
  <2>. QED
    BY <2>1, <2>2
<1>. QED
  BY <1>1, <1>4, <1>5, <1>6, <1>7, ServerKeeps

(* The reply is sent on, to the browser that is connected. *)
LEMMA DeliverStep ==
  ASSUME IInv, Deliver
  PROVE  IInv'
<1>1. TypeOK /\ ServerInv /\ EventsAreSound /\ RepliesAreSound /\ StoreInv
  BY DEF IInv
<1>2. PICK t \in Turns : t = Head(outbound)
  BY <1>1, Popped DEF Deliver, TypeOK
<1>3. /\ Move(t, {"replied"}, "ended") /\ Broadcast("reply", t)
      /\ record' = record /\ live' = live /\ connected' = connected /\ StoreKept
  BY <1>2 DEF Deliver, storeVars, historyVars, StoreKept
<1>4. at[t] = "replied" /\ at'[t] = "ended" /\ \A u \in Turns : u # t => at'[u] = at[u]
  BY <1>1, <1>3, MoveOfOne
<1>5. session' = session /\ help' = help
  BY <1>3 DEF StoreKept
<1>6. RecordIsSound'
  BY <1>1, <1>3, <1>4, <1>5, RecordKept DEF ServerInv
<1>7. LiveIsSound' /\ HelpIsSound'
  BY <1>1, <1>3, <1>4, <1>5 DEF ServerInv, LiveIsSound, HelpIsSound, TypeOK
<1>8. EventsAreSound'
  BY <1>1, <1>3, <1>4, EventAdded
<1>9. \A u \in Turns : Coming(u) => Coming(u)'
  BY <1>1, <1>3, BroadcastEvents DEF Coming, ReplyEvent
<1>10. connected => Coming(t)'
  BY <1>1, <1>3, BroadcastEvents DEF Coming, ReplyEvent
<1>11. \A u \in Turns : Asked(u)' => Asked(u)
  BY <1>3, <1>4 DEF Asked, StoreKept
<1>12. ASSUME connected, NEW u \in Turns
       PROVE  /\ at'[u] = "ended" => at[u] = "ended" \/ Coming(u)'
              /\ Underway(u) => Underway(u)' \/ Coming(u)'
              /\ Unended(u) => Unended(u)' \/ Coming(u)'
  <2>1. CASE u = t
    BY <1>10, <1>12, <2>1
  <2>2. CASE u # t
    BY <1>4, <2>2 DEF Underway, Unended
  <2>. QED
    BY <2>1, <2>2
<1>13. StoreInv'
  BY <1>1, <1>3, <1>9, <1>11, <1>12, ServerKeeps
<1>14. RepliesAreSound'
  <2>1. ASSUME NEW u \in Turns, Coming(u)' \/ Key(u, "assistant") \in known PROVE at'[u] = "ended"
    <3>1. CASE u = t
      BY <1>4, <3>1
    <3>2. CASE u # t
      <4>1. Coming(u)' => Coming(u)
        <5>1. [kind |-> "reply", turn |-> t] # ReplyEvent(u)
          BY <3>2 DEF ReplyEvent
        <5>2. ToSet(events') \subseteq ToSet(events) \union {[kind |-> "reply", turn |-> t]}
          BY <1>1, <1>3, BroadcastEvents
        <5>. QED
          BY <5>1, <5>2 DEF Coming, ReplyEvent
      <4>. QED
        BY <1>1, <1>4, <2>1, <3>2, <4>1 DEF RepliesAreSound
    <3>. QED
      BY <3>1, <3>2
  <2>2. known' = known
    BY <1>3 DEF StoreKept
  <2>. QED
    BY <2>1, <2>2 DEF RepliesAreSound, Key
<1>. QED
  BY <1>1, <1>6, <1>7, <1>8, <1>13, <1>14, EventTypes DEF IInv, ServerInv

-----------------------------------------------------------------------------
(* What the browser does with events, and what it sends *)

(* The question is shown, and a live message with it. *)
LEMMA SendStore ==
  ASSUME StoreInv, TypeOK, NEW t \in Turns, Send(t)
  PROVE  StoreInv'
<1>1. /\ session' = session /\ local' = local /\ current' = current /\ token' = token /\ loads' = loads
      /\ help' = help /\ record' = record /\ wiped' = wiped
      /\ overtaken' = overtaken /\ unloaded' = unloaded /\ connected' = connected /\ events' = events
      /\ session[t] = current /\ view' = Append(view, Question(t))
      /\ cache' = [cache EXCEPT ![current] = Ensured(current)]
      /\ known' = known \union {Key(t, "user")}
  BY DEF Send, linkVars
<1>2. at[t] = "new" /\ at'[t] = "posting" /\ \A u \in Turns : u # t => at'[u] = at[u]
  BY MoveOfOne DEF Send
<1>3. Of(view') = Of(view) \union {Key(t, "user")}
  BY <1>1, Messages, OfAppended DEF TypeOK
<1>4. AskedIsKnown'
  BY <1>1, <1>2 DEF StoreInv, AskedIsKnown, Asked, Key
<1>5. LoadsAreSound'
  BY <1>1, LoadsKept DEF StoreInv
<1>6. LoadsAreFresh'
  <2>1. ASSUME NEW u \in Turns
        PROVE  /\ at'[u] = "ended" => at[u] = "ended"
               /\ Underway(u) => Underway(u)'
               /\ Coming(u) => Coming(u)'
    BY <1>1, <1>2 DEF Underway, InAgent, Coming, ReplyEvent
  <2>2. ASSUME NEW s \in Sessions, CacheIsSound(s) PROVE CacheIsSound(s)'
    <3>1. CASE s = current
      BY <1>1, <1>2, <3>1 DEF CacheIsSound, AtWork, Unended
    <3>2. CASE s # current
      <4>1. cache'[s] = cache[s]
        BY <1>1, <3>2
      <4>2. AtWork(s) => AtWork(s)'
        BY <1>1, <1>2, <3>2 DEF AtWork, Unended, Coming, ReplyEvent
      <4>. QED
        BY <2>2, <4>1, <4>2 DEF CacheIsSound, NoLive
    <3>. QED
      BY <3>1, <3>2
  <2>. QED
    BY <1>1, <2>1, <2>2, FreshKept DEF StoreInv
<1>7. ViewIsSound'
  <2>1. (Quiet' <=> Quiet) /\ Held' = Held \union {Key(t, "user")} /\ Key(t, "user").turn = t
    BY <1>1, <1>3 DEF Quiet, Wanted, Held, Key, Beyond
  <2> SUFFICES ASSUME Quiet
               PROVE  /\ AreOf(current, Of(view'))
                      /\ \A u \in Turns : session[u] = current /\ Asked(u)' => Key(u, "user") \in Held'
                      /\ connected =>
                           \A u \in Turns : session[u] = current /\ at'[u] = "ended" /\ u \notin help =>
                             Key(u, "assistant") \in Held' \/ Coming(u)
                      /\ \A u \in help : session[u] = current /\ Key(u, "assistant") \in known' =>
                           Key(u, "assistant") \in Of(view') \union wiped
                      /\ AtWork(current)'
    BY <1>1, <2>1 DEF ViewIsSound, AreOf, Key, Coming, ReplyEvent
  <2>2. AreOf(current, Of(view'))
    BY <1>1, <1>3, <2>1 DEF StoreInv, ViewIsSound, AreOf
  <2>3. \A u \in Turns : session[u] = current /\ Asked(u)' => Key(u, "user") \in Held'
    BY <1>1, <1>2, <2>1 DEF StoreInv, ViewIsSound, Asked
  <2>4. connected => \A u \in Turns : session[u] = current /\ at'[u] = "ended" /\ u \notin help =>
                       Key(u, "assistant") \in Held' \/ Coming(u)
    BY <1>2, <2>1 DEF StoreInv, ViewIsSound
  <2>5. AtWork(current)'
    BY <1>1, <1>2 DEF AtWork, Unended
  <2>6. \A u \in help : session[u] = current /\ Key(u, "assistant") \in known' =>
           Key(u, "assistant") \in Of(view') \union wiped
    <3>1. \A u \in help : Key(u, "assistant") # Key(t, "user")
      BY DEF Key
    <3>. QED
      BY <1>1, <1>3, <3>1 DEF StoreInv, ViewIsSound
  <2>. QED
    BY <1>1, <2>2, <2>3, <2>4, <2>5, <2>6
<1>. QED
  BY <1>4, <1>5, <1>6, <1>7 DEF StoreInv

(* The question that could not be sent is taken back, and nothing else. *)
LEMMA PostFailsStore ==
  ASSUME StoreInv, TypeOK, NEW t \in Turns, PostFails(t)
  PROVE  StoreInv'
<1>1. /\ session' = session /\ local' = local /\ current' = current /\ token' = token /\ loads' = loads
      /\ help' = help /\ record' = record /\ wiped' = wiped
      /\ unloaded' = unloaded /\ connected' = connected /\ events' = events
      /\ cache' = [cache EXCEPT ![session[t]] = NoLive]
      /\ view' = RemoveFirst(view, Question(t))
      /\ shown' = (IF session[t] = current THEN NoLive ELSE shown)
      /\ known' = known \ {Key(t, "user")} /\ overtaken' = overtaken \ {Key(t, "user")}
  BY DEF PostFails, linkVars
<1>2. at[t] = "posting" /\ at'[t] = "failed" /\ \A u \in Turns : u # t => at'[u] = at[u]
  BY MoveOfOne DEF PostFails
<1>3. Of(view') \subseteq Of(view) /\ Of(view) \subseteq Of(view') \union {Key(t, "user")}
  BY <1>1, OfTakenBack DEF TypeOK
<1>4. /\ \A u \in Turns : u # t => Key(u, "user") # Key(t, "user")
      /\ \A u \in Turns : Key(u, "assistant") # Key(t, "user")
  BY DEF Key
<1>5. AskedIsKnown'
  BY <1>1, <1>2, <1>4 DEF StoreInv, AskedIsKnown, Asked, Key
<1>6. LoadsAreSound'
  BY <1>1, LoadsKept DEF StoreInv
<1>7. LoadsAreFresh'
  <2>1. ASSUME NEW u \in Turns
        PROVE  /\ at'[u] = "ended" => at[u] = "ended"
               /\ Underway(u) => Underway(u)'
               /\ Coming(u) => Coming(u)'
               /\ Key(u, "assistant") \in known => Key(u, "assistant") \in known'
    BY <1>1, <1>2, <1>4 DEF Underway, InAgent, Coming, ReplyEvent
  <2>2. ASSUME NEW s \in Sessions, CacheIsSound(s) PROVE CacheIsSound(s)'
    <3>1. CASE s = session[t]
      BY <1>1, <3>1 DEF CacheIsSound, TypeOK, NoLive
    <3>2. CASE s # session[t]
      <4>1. cache'[s] = cache[s]
        BY <1>1, <3>2 DEF TypeOK
      <4>2. AtWork(s) => AtWork(s)'
        BY <1>1, <1>2, <3>2 DEF AtWork, Unended, Coming, ReplyEvent
      <4>. QED
        BY <2>2, <4>1, <4>2 DEF CacheIsSound, NoLive
    <3>. QED
      BY <3>1, <3>2
  <2>. QED
    BY <1>1, <2>1, <2>2, FreshKept DEF StoreInv
<1>8. ViewIsSound'
  <2>1. /\ Quiet' <=> Quiet
        /\ Held \subseteq Held' \union {Key(t, "user")}
    BY <1>1, <1>3 DEF Quiet, Wanted, Held, Beyond
  <2> SUFFICES ASSUME Quiet
               PROVE  /\ AreOf(current, Of(view'))
                      /\ \A u \in Turns : session[u] = current /\ Asked(u)' => Key(u, "user") \in Held'
                      /\ connected =>
                           \A u \in Turns : session[u] = current /\ at'[u] = "ended" /\ u \notin help =>
                             Key(u, "assistant") \in Held' \/ Coming(u)
                      /\ \A u \in help : session[u] = current /\ Key(u, "assistant") \in known' =>
                           Key(u, "assistant") \in Of(view') \union wiped
                      /\ connected /\ shown' # NoLive =>
                           (\E u \in shown' : Key(u, "assistant") \in overtaken') \/ AtWork(current)'
    BY <1>1, <2>1 DEF ViewIsSound, AreOf, Key, Coming, ReplyEvent, NoLive
  <2>2. AreOf(current, Of(view'))
    BY <1>3 DEF StoreInv, ViewIsSound, AreOf
  <2>3. \A u \in Turns : session[u] = current /\ Asked(u)' => Key(u, "user") \in Held'
    BY <1>1, <1>2, <1>4, <2>1 DEF StoreInv, ViewIsSound, Asked
  <2>4. connected => \A u \in Turns : session[u] = current /\ at'[u] = "ended" /\ u \notin help =>
                       Key(u, "assistant") \in Held' \/ Coming(u)
    BY <1>2, <1>4, <2>1 DEF StoreInv, ViewIsSound
  <2>5. ASSUME connected, shown' # NoLive
        PROVE  (\E u \in shown' : Key(u, "assistant") \in overtaken') \/ AtWork(current)'
    <3>1. session[t] # current /\ shown # NoLive /\ shown' = shown
      BY <1>1, <2>5
    <3>2. \A u : Key(u, "assistant") \in overtaken => Key(u, "assistant") \in overtaken'
      BY <1>1 DEF Key
    <3>3. AtWork(current) => AtWork(current)'
      BY <1>1, <1>2, <3>1 DEF AtWork, Unended, Coming, ReplyEvent
    <3>. QED
      BY <2>5, <3>1, <3>2, <3>3 DEF StoreInv, ViewIsSound
  <2>6. \A u \in help : session[u] = current /\ Key(u, "assistant") \in known' =>
           Key(u, "assistant") \in Of(view') \union wiped
    BY <1>1, <1>3, <1>4 DEF StoreInv, ViewIsSound, TypeOK
  <2>. QED
    BY <2>2, <2>3, <2>4, <2>5, <2>6
<1>. QED
  BY <1>5, <1>6, <1>7, <1>8 DEF StoreInv

(* The event that is taken: what was coming still is, but for the reply itself. *)
LEMMA TakenEvent ==
  ASSUME TypeOK, EventsAreSound, NEW kind \in {"question", "tool", "reply"}, Receive(kind)
  PROVE  \E t \in Turns :
           /\ t = Head(events).turn
           /\ \A u \in Turns : Coming(u) => Coming(u)' \/ (kind = "reply" /\ u = t)
           /\ kind # "reply" => Underway(t) \/ Coming(t)'
           /\ kind = "reply" => Coming(t)
           /\ \A u \in Turns : Coming(u)' => Coming(u)
           /\ session' = session /\ local' = local /\ help' = help /\ at' = at
           /\ record' = record /\ connected' = connected
           /\ current' = current /\ token' = token /\ loads' = loads
           /\ overtaken' = overtaken /\ wiped' = wiped /\ unloaded' = unloaded
<1>1. events \in Seq(Event) /\ events # <<>> /\ events' = Tail(events) /\ Head(events).kind = kind
  BY DEF Receive, TypeOK
<1>2. /\ Head(events) \in Event /\ ToSet(events) = {Head(events)} \union ToSet(events')
      /\ Len(events) \in Nat \ {0}
  BY <1>1, Popped
<1>3. PICK t \in Turns : t = Head(events).turn
  BY <1>2 DEF Event
<1>4. \A u \in Turns : Coming(u) => Coming(u)' \/ (kind = "reply" /\ u = t)
  BY <1>1, <1>2, <1>3 DEF Coming, ReplyEvent
<1>6. \A u \in Turns : Coming(u)' => Coming(u)
  BY <1>1, <1>2 DEF Coming, ReplyEvent
<1>7. kind = "reply" => Coming(t)
  BY <1>1, <1>2, <1>3 DEF Coming, ReplyEvent, Event
<1>5. ASSUME kind # "reply" PROVE Underway(t) \/ Coming(t)'
  <2>1. 1 \in 1 .. Len(events) /\ events[1] = Head(events)
    BY <1>1, <1>2
  <2>2. Underway(t) \/ \E j \in 1 .. Len(events) : events[j] = ReplyEvent(t)
    BY <1>1, <1>3, <1>5, <2>1 DEF EventsAreSound
  <2>3. (\E j \in 1 .. Len(events) : events[j] = ReplyEvent(t)) => Coming(t)
    BY <1>1, LenProperties DEF Coming, ToSet
  <2>. QED
    BY <1>4, <1>5, <2>2, <2>3
<1>. QED
  BY <1>3, <1>4, <1>5, <1>6, <1>7 DEF Receive, serverVars

(* What the view of the current session gains, and who is shown at work. *)
LEMMA ViewGrows ==
  ASSUME ViewIsSound, TypeOK, session' = session, local' = local, help' = help, at' = at,
         record' = record, connected' = connected, current' = current, token' = token, loads' = loads,
         overtaken' = overtaken, wiped' = wiped, unloaded' = unloaded,
         NEW t \in Turns, NEW role,
         Of(view') = Of(view) \/ (session[t] = current /\ Of(view') = Of(view) \union {Key(t, role)}),
         \A u \in Turns : session[u] = current /\ Coming(u) =>
           Coming(u)' \/ (shown' = NoLive /\ Key(u, "assistant") \in Of(view')),
         \/ shown' = NoLive
         \/ shown' = shown
         \/ session[t] = current /\ (Unended(t) \/ Coming(t)'),
         \A u \in help : session[u] = current /\ Key(u, "assistant") \in known' =>
           Key(u, "assistant") \in known \/ Key(u, "assistant") \in Of(view')
  PROVE  ViewIsSound'
<1>1. Quiet' <=> Quiet
  BY DEF Quiet, Wanted
<1>2. Held \subseteq Held' /\ Of(view') \subseteq Held' /\ Of(view) \subseteq Of(view')
  BY DEF Held, Beyond
<1>7. \A u : (Unended(u) <=> Unended(u)') /\ (Asked(u) <=> Asked(u)')
  BY DEF Unended, Asked
<1> SUFFICES ASSUME Quiet
             PROVE  /\ AreOf(current, Of(view'))
                    /\ \A u \in Turns : session[u] = current /\ Asked(u) => Key(u, "user") \in Held'
                    /\ connected =>
                         \A u \in Turns : session[u] = current /\ at[u] = "ended" /\ u \notin help =>
                           Key(u, "assistant") \in Held' \/ Coming(u)'
                    /\ \A u \in help : session[u] = current /\ Key(u, "assistant") \in known' =>
                         Key(u, "assistant") \in Of(view') \union wiped
                    /\ connected /\ shown' # NoLive =>
                         (\E u \in shown' : Key(u, "assistant") \in overtaken) \/ AtWork(current)'
  BY <1>1, <1>7 DEF ViewIsSound, AreOf, Key, NoLive
<1>3. AreOf(current, Of(view'))
  <2>1. Key(t, role).turn = t
    BY DEF Key
  <2>. QED
    BY <2>1 DEF ViewIsSound, AreOf
<1>4. \A u \in Turns : session[u] = current /\ Asked(u) => Key(u, "user") \in Held'
  BY <1>2 DEF ViewIsSound
<1>5. connected => \A u \in Turns : session[u] = current /\ at[u] = "ended" /\ u \notin help =>
                     Key(u, "assistant") \in Held' \/ Coming(u)'
  BY <1>2 DEF ViewIsSound
<1>6. ASSUME connected, shown' # NoLive
      PROVE  (\E u \in shown' : Key(u, "assistant") \in overtaken) \/ AtWork(current)'
  <2>1. CASE shown' = shown
    <3>1. AtWork(current) => AtWork(current)'
      BY <1>6, <1>7 DEF AtWork
    <3>. QED
      BY <1>6, <2>1, <3>1 DEF ViewIsSound
  <2>2. CASE session[t] = current /\ (Unended(t) \/ Coming(t)')
    BY <1>7, <2>2 DEF AtWork
  <2>. QED
    BY <1>6, <2>1, <2>2
<1>8. \A u \in help : session[u] = current /\ Key(u, "assistant") \in known' =>
         Key(u, "assistant") \in Of(view') \union wiped
  BY <1>2 DEF ViewIsSound
<1>. QED
  BY <1>3, <1>4, <1>5, <1>6, <1>8

(* A step of the browser on an event, of which it keeps the view as it has to. *)
LEMMA EventStore ==
  ASSUME StoreInv, TypeOK, EventsAreSound, OnUserMessage \/ OnToolUse \/ OnMessage
  PROVE  StoreInv'
<1>0. AskedIsKnown /\ LoadsAreSound /\ LoadsAreFresh /\ ViewIsSound /\ view \in Seq(Message)
  BY DEF StoreInv, TypeOK
<1>1. PICK kind \in {"question", "tool", "reply"} :
        /\ Receive(kind)
        /\ kind = "question" => OnUserMessage
        /\ kind = "tool" => OnToolUse
        /\ kind = "reply" => OnMessage
  BY DEF OnUserMessage, OnToolUse, OnMessage
<1>2. PICK t \in Turns :
        /\ t = Head(events).turn
        /\ \A u \in Turns : Coming(u) => Coming(u)' \/ (kind = "reply" /\ u = t)
        /\ kind # "reply" => Underway(t) \/ Coming(t)'
        /\ session' = session /\ local' = local /\ help' = help /\ at' = at
        /\ record' = record /\ connected' = connected
        /\ current' = current /\ token' = token /\ loads' = loads
        /\ overtaken' = overtaken /\ wiped' = wiped /\ unloaded' = unloaded
  BY <1>1, TakenEvent
<1>3. Underway(t) => Unended(t)
  BY DEF Underway, Unended, InAgent
<1>4. /\ known \subseteq known'
      /\ kind = "reply" => known' = known \union {Key(t, "assistant")}
      /\ kind # "reply" => known' \subseteq known \union {Key(t, "user")}
  <2>1. CASE kind = "question"
    BY <1>1, <1>2, <2>1 DEF OnUserMessage
  <2>2. CASE kind = "tool"
    BY <1>1, <1>2, <2>2 DEF OnToolUse
  <2>3. CASE kind = "reply"
    BY <1>1, <1>2, <2>3 DEF OnMessage
  <2>. QED
    BY <2>1, <2>2, <2>3
<1>5. AskedIsKnown'
  BY <1>0, <1>2, <1>4 DEF AskedIsKnown, Asked, Key
<1>6. LoadsAreSound'
  BY <1>0, <1>2, LoadsKept
<1>9. session[t] \in Sessions /\ (\A u : Unended(u) <=> Unended(u)')
  BY <1>2 DEF TypeOK, Unended
<1>10. /\ kind = "reply" => cache' = [cache EXCEPT ![session[t]] = NoLive]
       /\ \A s \in Sessions : s # session[t] => cache'[s] = cache[s]
  <2>1. CASE kind = "question"
    BY <1>1, <1>2, <1>9, <2>1 DEF OnUserMessage, TypeOK
  <2>2. CASE kind = "tool"
    BY <1>1, <1>2, <1>9, <2>2 DEF OnToolUse, TypeOK
  <2>3. CASE kind = "reply"
    BY <1>1, <1>2, <1>9, <2>3 DEF OnMessage, TypeOK
  <2>. QED
    BY <2>1, <2>2, <2>3
<1>11. kind = "reply" => CacheIsSound(session[t])'
  BY <1>2, <1>9, <1>10 DEF CacheIsSound, TypeOK, NoLive
<1>12. ASSUME NEW s \in Sessions, CacheIsSound(s) PROVE CacheIsSound(s)'
  <2>1. CASE s = session[t] /\ kind # "reply"
    BY <1>2, <1>3, <1>9, <2>1 DEF CacheIsSound, AtWork
  <2>2. CASE s # session[t]
    <3>1. AtWork(s) => AtWork(s)'
      BY <1>2, <1>9, <2>2 DEF AtWork
    <3>. QED
      BY <1>10, <1>12, <2>2, <3>1 DEF CacheIsSound, NoLive
  <2>. QED
    BY <1>2, <1>11, <2>1, <2>2
<1>7. LoadsAreFresh'
  <2>1. ASSUME NEW u \in Turns
        PROVE  /\ at'[u] = "ended" => at[u] = "ended"
               /\ Underway(u) => Underway(u)'
               /\ Coming(u) => Coming(u)' \/ (Key(u, "assistant") \in known' /\ CacheIsSound(session[u])')
               /\ Key(u, "assistant") \in known => Key(u, "assistant") \in known'
    BY <1>2, <1>4, <1>11 DEF Underway
  <2>. QED
    BY <1>0, <1>2, <1>12, <2>1, FreshKept
<1>8. ViewIsSound'
  <2>4. ASSUME kind # "reply"
        PROVE  \A u \in help : session[u] = current /\ Key(u, "assistant") \in known' =>
                 Key(u, "assistant") \in known
    BY <1>4, <2>4 DEF Key
  <2>1. CASE kind = "question"
    <3>1. IF session[t] = current THEN view' = Append(view, Question(t)) ELSE view' = view /\ shown' = shown
      BY <1>1, <1>2, <2>1 DEF OnUserMessage, IsCurrent
    <3>2. Of(Append(view, Question(t))) = Of(view) \union {Key(t, "user")}
      BY <1>0, Messages, OfAppended
    <3>3. Of(view') = Of(view) \/ (session[t] = current /\ Of(view') = Of(view) \union {Key(t, "user")})
      BY <3>1, <3>2
    <3>4. \A u \in Turns : session[u] = current /\ Coming(u) => Coming(u)'
      BY <1>2, <2>1
    <3>. QED
      BY <1>0, <1>2, <1>3, <2>1, <2>4, <3>1, <3>3, <3>4, ViewGrows
  <2>2. CASE kind = "tool"
    <3>1. view' = view /\ (session[t] = current \/ shown' = shown)
      BY <1>1, <1>2, <2>2 DEF OnToolUse, IsCurrent
    <3>2. \A u \in Turns : session[u] = current /\ Coming(u) => Coming(u)'
      BY <1>2, <2>2
    <3>3. Of(view') = Of(view)
      BY <3>1
    <3>. QED
      BY <1>0, <1>2, <1>3, <2>2, <2>4, <3>1, <3>2, <3>3, ViewGrows
  <2>3. CASE kind = "reply"
    <3>1. IF session[t] = current
          THEN /\ shown' = NoLive
               /\ view' = IF Contains(view, Reply(t, TRUE)) THEN view ELSE Append(view, Reply(t, TRUE))
          ELSE view' = view /\ shown' = shown
      BY <1>1, <1>2, <2>3 DEF OnMessage, IsCurrent
    <3>2. Of(Append(view, Reply(t, TRUE))) = Of(view) \union {Key(t, "assistant")}
      <4>1. PICK m \in Message : m = Reply(t, TRUE) /\ Key(m.turn, m.role) = Key(t, "assistant")
        BY Messages
      <4>. QED
        BY <1>0, <4>1, OfAppended
    <3>3. Contains(view, Reply(t, TRUE)) => Key(t, "assistant") \in Of(view)
      <4>1. Key(Reply(t, TRUE).turn, Reply(t, TRUE).role) = Key(t, "assistant")
        BY Messages
      <4>2. Contains(view, Reply(t, TRUE)) => Reply(t, TRUE) \in ToSet(view)
        BY <1>0, LenProperties DEF Contains, ToSet
      <4>. QED
        BY <4>1, <4>2 DEF Of
    <3>4. /\ \/ Of(view') = Of(view)
             \/ session[t] = current /\ Of(view') = Of(view) \union {Key(t, "assistant")}
          /\ session[t] = current => Key(t, "assistant") \in Of(view')
      BY <3>1, <3>2, <3>3
    <3>5. \A u \in Turns : session[u] = current /\ Coming(u) =>
            Coming(u)' \/ (shown' = NoLive /\ Key(u, "assistant") \in Of(view'))
      BY <1>2, <3>1, <3>4
    <3>6. shown' = NoLive \/ shown' = shown
      BY <3>1
    <3>7. \A u \in help : session[u] = current /\ Key(u, "assistant") \in known' =>
            Key(u, "assistant") \in known \/ Key(u, "assistant") \in Of(view')
      BY <1>4, <2>3, <3>4 DEF Key
    <3>. QED
      BY <1>0, <1>2, <3>4, <3>5, <3>6, <3>7, ViewGrows
  <2>. QED
    BY <2>1, <2>2, <2>3
<1>. QED
  BY <1>5, <1>6, <1>7, <1>8 DEF StoreInv

-----------------------------------------------------------------------------
(* Histories *)

(* A history is asked for: none that was on its way is wanted any more. *)
LEMMA AskForStore ==
  ASSUME StoreInv, TypeOK, NEW s \in Sessions, AskFor(s), session' = session, local' = local, at' = at,
         record' = record, known' = known
  PROVE  StoreInv'
<1>1. /\ token' = token + 1 /\ current' = s /\ token \in Nat
  BY AskForLoads, BoundsAssumption DEF TypeOK
<1>0. PICK x \in Load : loads' = loads \union {x} /\ ~ x.answered /\ x.token = token' /\ x.session = s
  BY AskForLoads
<1>2. \A l \in loads : l.token \in Nat /\ l.token <= token
  BY DEF StoreInv, LoadsAreSound, TypeOK, Load
<1>3. AskedIsKnown'
  BY DEF StoreInv, AskedIsKnown, Asked, Key
<1>4. LoadsAreSound'
  <2> SUFFICES ASSUME NEW l \in loads'
               PROVE  /\ l.token <= token'
                      /\ \A k \in loads' : k.token = l.token => k = l
                      /\ l.token = token' => l.session = current'
                      /\ l.answered => /\ AreOf(l.session, Of(l.data))
                                       /\ l.recorded \subseteq Of(l.data) \union Beyond(record[l.session])
    BY DEF LoadsAreSound, Wanted, AreOf, Of, ToSet, Key, Beyond
  <2>1. CASE l \in loads
    BY <1>0, <1>1, <1>2, <2>1 DEF StoreInv, LoadsAreSound
  <2>2. CASE l = x
    BY <1>0, <1>1, <1>2, <2>2
  <2>. QED
    BY <1>0, <2>1, <2>2
<1>5. \A l \in loads' : l.token = token' => ~ l.answered
  BY <1>0, <1>1, <1>2
<1>6. LoadsAreFresh'
  BY <1>5 DEF LoadsAreFresh, Wanted
<1>7. ViewIsSound'
  BY <1>0 DEF ViewIsSound, Quiet, Wanted
<1>. QED
  BY <1>3, <1>4, <1>6, <1>7 DEF StoreInv

(* The page's session is changed, or its websocket comes back. *)
LEMMA AskForStep ==
  ASSUME IInv, (\E s \in Sessions : Switch(s)) \/ Reconnect
  PROVE  IInv'
<1>1. TypeOK /\ ServerInv /\ EventsAreSound /\ RepliesAreSound /\ StoreInv
  BY DEF IInv
<1>2. session' = session /\ local' = local /\ help' = help /\ at' = at /\ record' = record
      /\ live' = live /\ events' = events /\ known' = known
  BY DEF Switch, Reconnect, serverVars, linkVars, historyVars
<1>3. PICK s \in Sessions : AskFor(s)
  BY <1>1 DEF Switch, Reconnect, SyncAfterReconnect, TypeOK
<1>4. StoreInv'
  BY <1>1, <1>2, <1>3, AskForStore
<1>5. ServerInv'
  BY <1>1, <1>2 DEF ServerInv, RecordIsSound, LiveIsSound, HelpIsSound, AreOf, Of, ToSet, Key
<1>8. RepliesAreSound'
  BY <1>1, <1>2 DEF RepliesAreSound, Coming, ReplyEvent, Key
<1>6. EventsAreSound'
  <2>1. CASE connected' = connected
    BY <1>1, <1>2, <2>1, EventsKept DEF Underway
  <2>2. CASE Reconnect
    <3>1. events = <<>>
      BY <1>1, <2>2 DEF Reconnect, EventsAreSound
    <3>2. Len(events') = 0
      BY <1>2, <3>1
    <3>. QED
      BY <1>2, <3>1, <3>2 DEF EventsAreSound
  <2>. QED
    BY <2>1, <2>2 DEF Switch, linkVars
<1>7. TypeOK'
  BY <1>1, StoreTypes
<1>. QED
  BY <1>4, <1>5, <1>6, <1>7, <1>8 DEF IInv

(* A session that nobody has used is shown. *)
LEMMA NewSessionStore ==
  ASSUME StoreInv, TypeOK, RepliesAreSound, NEW s \in Sessions, NewSession(s)
  PROVE  StoreInv'
<1>1. /\ session' = session /\ local' = local /\ at' = at /\ events' = events /\ connected' = connected
      /\ help' = help /\ record' = record /\ cache' = cache
      /\ token' = token /\ loads' = loads /\ known' = known /\ current' = s
      /\ view' = <<>> /\ shown' = NoLive /\ overtaken' = {}
      /\ unloaded' = (\E l \in loads : Wanted(l))
      /\ \A t \in Turns : session[t] = s => at[t] = "new"
  BY DEF NewSession, serverVars, linkVars
<1>2. AskedIsKnown'
  BY <1>1 DEF StoreInv, AskedIsKnown, Asked, Key
<1>3. LoadsAreSound'
  BY <1>1 DEF StoreInv, LoadsAreSound, Wanted, AreOf, Of, ToSet, Key, Beyond
<1>4. LoadsAreFresh'
  BY <1>1, FreshKept DEF StoreInv, Underway, Unended, Coming, ReplyEvent, CacheIsSound, AtWork, NoLive
<1>5. ViewIsSound'
  <2>1. Of(view') = {}
    BY <1>1, OfEmpty
  <2>2. \A t \in Turns : session[t] = s => ~ Asked(t)' /\ at'[t] # "ended" /\ Key(t, "assistant") \notin known
    BY <1>1 DEF Asked, RepliesAreSound
  <2>3. help \subseteq Turns
    BY DEF TypeOK
  <2>. QED
    BY <1>1, <2>1, <2>2, <2>3 DEF ViewIsSound, AreOf, Key
<1>. QED
  BY <1>2, <1>3, <1>4, <1>5 DEF StoreInv

(* Nothing the browser shows changes, and no more is quiet. *)
LEMMA ViewKept ==
  ASSUME ViewIsSound, session' = session, local' = local, help' = help, at' = at, record' = record,
         current' = current, view' = view, shown' = shown, known' = known,
         overtaken' = overtaken, wiped' = wiped, connected' => connected /\ events' = events,
         Quiet' => Quiet
  PROVE  ViewIsSound'
<1>1. Held' = Held /\ Of(view') = Of(view)
  BY DEF Held, Beyond, Of, ToSet, Key
<1>2. /\ \A t : Asked(t) <=> Asked(t)'
      /\ connected' => (AtWork(current) => AtWork(current)') /\ \A t : Coming(t) <=> Coming(t)'
  BY DEF Asked, AtWork, Unended, Coming, ReplyEvent
<1>. QED
  BY <1>1, <1>2 DEF ViewIsSound, AreOf, Key, NoLive

(* The server answers with what is on record. *)
LEMMA ServeStore ==
  ASSUME StoreInv, ServerInv, TypeOK, NEW l \in loads, Serve(l)
  PROVE  StoreInv'
<1>1. /\ session' = session /\ local' = local /\ help' = help /\ at' = at /\ record' = record
      /\ events' = events /\ connected' = connected /\ cache' = cache
      /\ token' = token /\ known' = known /\ current' = current
      /\ view' = view /\ shown' = shown /\ overtaken' = overtaken /\ wiped' = wiped
      /\ unloaded' = unloaded
  BY DEF Serve, serverVars, linkVars, historyVars
<1>2. PICK x \in Load :
        /\ x.token = l.token /\ x.session = l.session
        /\ x.data = Recent(record[l.session]) /\ x.live = live[l.session]
        /\ x.recorded = Of(record[l.session])
        /\ loads' = (loads \ {l}) \union {x}
  BY ServeLoads
<1>3. x.session \in Sessions
  BY DEF Load
<1>8. /\ Of(x.data) \subseteq x.recorded
      /\ x.recorded \subseteq Of(x.data) \union Beyond(record[x.session])
  BY <1>2, <1>3, RecentOnes DEF TypeOK
<1>4. AskedIsKnown'
  BY <1>1 DEF StoreInv, AskedIsKnown, Asked, Key
<1>5. LoadsAreSound'
  <2>1. AreOf(x.session, Of(x.data))
    BY <1>2, <1>3, <1>8 DEF ServerInv, RecordIsSound, AreOf
  <2>2. \A k \in loads' : /\ k.token <= token
                          /\ \A j \in loads' : j.token = k.token => j = k
                          /\ k.token = token => k.session = current \/ unloaded
                          /\ k.answered => /\ AreOf(k.session, Of(k.data))
                                           /\ k.recorded \subseteq Of(k.data) \union Beyond(record[k.session])
    BY <1>2, <1>8, <2>1 DEF StoreInv, LoadsAreSound, Wanted
  <2>. QED
    BY <1>1, <2>2 DEF LoadsAreSound, Wanted, AreOf, Of, ToSet, Key, Beyond
<1>6. LoadsAreFresh'
  <2>1. AnswerIsFresh(x)
    <3>1. \A t \in Turns : session[t] = x.session /\ at[t] = "ended" /\ t \notin help =>
            Key(t, "assistant") \in x.recorded
      BY <1>2, <1>3 DEF ServerInv, RecordIsSound
    <3>2. ASSUME NEW t \in x.live
          PROVE  /\ session[t] = x.session /\ t \notin help
                 /\ Key(t, "assistant") \notin x.recorded /\ Underway(t)
      <4>1. session[t] = x.session /\ at[t] = "worked" /\ t \in Turns
        BY <1>2, <1>3, <3>2 DEF ServerInv, LiveIsSound, TypeOK
      <4>2. t \notin help
        BY <4>1 DEF ServerInv, HelpIsSound
      <4>. QED
        BY <1>2, <1>3, <4>1, <4>2 DEF ServerInv, RecordIsSound, Underway, InAgent
    <3>. QED
      BY <3>1, <3>2 DEF AnswerIsFresh
  <2>2. \A k \in loads' : k \in loads \/ k = x
    BY <1>2
  <2>3. \A k : AnswerIsFresh(k)' <=> AnswerIsFresh(k)
    BY <1>1 DEF AnswerIsFresh, Underway, Unended, Coming, ReplyEvent, ToSet, Key, CacheIsSound, AtWork, NoLive
  <2>4. \A k \in loads' : k.answered /\ k.token = token /\ connected => AnswerIsFresh(k)
    BY <2>1, <2>2 DEF StoreInv, LoadsAreFresh, Wanted
  <2>. QED
    BY <1>1, <2>3, <2>4 DEF LoadsAreFresh, Wanted
<1>7. ViewIsSound'
  <2>1. Quiet' => Quiet
    BY <1>1, <1>2 DEF Quiet, Wanted
  <2>. QED
    BY <1>1, <2>1, ViewKept DEF StoreInv
<1>. QED
  BY <1>4, <1>5, <1>6, <1>7 DEF StoreInv

(***************************************************************************)
(* A history lands: what it is too old for is overtaken, the rest is shown *)
(* or will be, or is beyond it.  A live message that it leaves is of a     *)
(* turn whose reply it does not have.                                      *)
(***************************************************************************)
LEMMA LandStore ==
  ASSUME StoreInv, TypeOK, NEW l \in loads, Land(l)
  PROVE  StoreInv'
<1>1. /\ session' = session /\ local' = local /\ help' = help /\ at' = at /\ record' = record
      /\ events' = events /\ connected' = connected
      /\ token' = token /\ known' = known /\ current' = current
      /\ l.answered /\ Wanted(l) /\ loads' = loads \ {l}
      /\ view' = l.data
      /\ overtaken' = {m \in known : session[m.turn] = l.session /\ OnRecord(m)} \ l.recorded
      /\ wiped' = {m \in known : session[m.turn] = l.session /\ ~ OnRecord(m)}
      /\ unloaded' = (unloaded /\ l.session # current)
  BY DEF Land, serverVars, linkVars
<1>2. Wanted(l) => l.session = current \/ unloaded
  BY DEF StoreInv, LoadsAreSound
<1>3. /\ AreOf(l.session, Of(l.data)) /\ (connected => AnswerIsFresh(l))
      /\ l.recorded \subseteq Of(l.data) \union Beyond(record[l.session])
      /\ l.live \subseteq Turns
  BY <1>1 DEF StoreInv, LoadsAreSound, LoadsAreFresh, TypeOK, Load
<1>4. AskedIsKnown'
  BY <1>1 DEF StoreInv, AskedIsKnown, Asked, Key
<1>5. LoadsAreSound'
  <2>1. \A k \in loads' : /\ k.token <= token /\ k.token # token
                          /\ \A j \in loads' : j.token = k.token => j = k
                          /\ k.answered => /\ AreOf(k.session, Of(k.data))
                                           /\ k.recorded \subseteq Of(k.data) \union Beyond(record[k.session])
    BY <1>1 DEF StoreInv, LoadsAreSound, Wanted
  <2>. QED
    BY <1>1, <2>1 DEF LoadsAreSound, Wanted, AreOf, Of, ToSet, Key, Beyond
<1>6. LoadsAreFresh'
  <2>1. \A k \in loads' : k.token # token
    BY <1>1 DEF StoreInv, LoadsAreSound, Wanted
  <2>. QED
    BY <1>1, <2>1 DEF LoadsAreFresh, Wanted
<1>7. ViewIsSound'
  <2>1. CASE unloaded'
    BY <2>1 DEF ViewIsSound, Quiet
  <2>2. CASE ~ unloaded'
    <3>1. l.session = current
      BY <1>1, <1>2, <2>2
    <3>2. Of(view') = Of(l.data)
      BY <1>1
    <3>3. /\ Held' = Of(l.data) \union overtaken' \union Beyond(record[current])
          /\ l.recorded \subseteq Held'
          /\ \A m \in known : session[m.turn] = current /\ OnRecord(m) => m \in Held'
      <4>1. Held' = Of(l.data) \union overtaken' \union Beyond(record[current])
        BY <1>1, <3>2 DEF Held, Beyond, Key
      <4>. QED
        BY <1>1, <1>3, <3>1, <4>1
    <3>4. AreOf(current, Of(view'))
      BY <1>3, <3>1, <3>2 DEF AreOf
    <3>5. \A t \in Turns : /\ Key(t, "user").turn = t /\ Key(t, "assistant").turn = t
                           /\ local[t] => OnRecord(Key(t, "user"))
                           /\ OnRecord(Key(t, "assistant")) <=> t \notin help
      BY DEF Key, OnRecord
    <3>6. \A t \in Turns : session[t] = current /\ Asked(t) => Key(t, "user") \in Held'
      BY <3>3, <3>5 DEF StoreInv, AskedIsKnown, Asked
    <3>7. connected => \A t \in Turns : session[t] = current /\ at[t] = "ended" /\ t \notin help =>
                         Key(t, "assistant") \in Held' \/ Coming(t)
      BY <1>3, <3>1, <3>3, <3>5 DEF AnswerIsFresh
    <3>8. ASSUME connected, shown' # NoLive
          PROVE  (\E t \in shown' : Key(t, "assistant") \in overtaken') \/ AtWork(current)
      <4>1. l.live # {} /\ (cache[l.session] # NoLive \/ l.live \subseteq shown')
        BY <3>8, LandCache
      <4>2. PICK t \in l.live : t \in Turns
        BY <1>3, <4>1
      <4>3. /\ session[t] = current /\ t \notin help
            /\ Key(t, "assistant") \notin l.recorded
            /\ \/ Underway(t) \/ Coming(t)
               \/ Key(t, "assistant") \in known /\ CacheIsSound(current)
        BY <1>3, <3>1, <3>8, <4>2 DEF AnswerIsFresh
      <4>4. CASE Underway(t) \/ Coming(t)
        BY <4>2, <4>3, <4>4 DEF Underway, Unended, InAgent, AtWork
      <4>5. CASE Key(t, "assistant") \in known /\ CacheIsSound(current)
        <5>1. Key(t, "assistant") \in overtaken'
          BY <1>1, <3>1, <3>5, <4>2, <4>3, <4>5
        <5>2. l.live \subseteq shown' \/ AtWork(current)
          BY <3>1, <4>1, <4>5 DEF CacheIsSound
        <5>. QED
          BY <4>2, <5>1, <5>2
      <4>. QED
        BY <4>3, <4>4, <4>5
    <3>9. \A t \in help : session[t] = current /\ Key(t, "assistant") \in known =>
             Key(t, "assistant") \in wiped'
      BY <1>1, <3>1, <3>5 DEF TypeOK
    <3>10. /\ AtWork(current) <=> AtWork(current)'
           /\ \A t : (Asked(t) <=> Asked(t)') /\ (Coming(t) <=> Coming(t)')
      BY <1>1 DEF AtWork, Asked, Unended, Coming, ReplyEvent
    <3>. QED
      BY <1>1, <3>4, <3>6, <3>7, <3>8, <3>9, <3>10 DEF ViewIsSound, AreOf, Key, NoLive
  <2>. QED
    BY <2>1, <2>2
<1>. QED
  BY <1>4, <1>5, <1>6, <1>7 DEF StoreInv

(* A history that a later one was asked for after, or that does not come. *)
LEMMA NotLoadedStore ==
  ASSUME StoreInv, TypeOK, NEW l \in loads, Discard(l) \/ LoadFails(l)
  PROVE  StoreInv'
<1>1. /\ session' = session /\ local' = local /\ help' = help /\ at' = at /\ record' = record
      /\ events' = events /\ connected' = connected /\ cache' = cache
      /\ token' = token /\ known' = known /\ current' = current
      /\ view' = view /\ shown' = shown /\ overtaken' = overtaken /\ wiped' = wiped
      /\ loads' = loads \ {l} /\ (unloaded => unloaded') /\ (unloaded' \/ ~ Wanted(l))
  BY DEF Discard, LoadFails, serverVars, linkVars, historyVars, TypeOK
<1>2. AskedIsKnown'
  BY <1>1 DEF StoreInv, AskedIsKnown, Asked, Key
<1>3. LoadsAreSound'
  BY <1>1, LoadsKept DEF StoreInv
<1>4. LoadsAreFresh'
  BY <1>1, FreshKept DEF StoreInv, Underway, Unended, Coming, ReplyEvent, CacheIsSound, AtWork, NoLive
<1>5. ViewIsSound'
  <2>1. Quiet' => Quiet
    BY <1>1 DEF Quiet, Wanted
  <2>. QED
    BY <1>1, <2>1, ViewKept DEF StoreInv
<1>. QED
  BY <1>2, <1>3, <1>4, <1>5 DEF StoreInv

(* The websocket is lost, with what was on its way. *)
LEMMA DisconnectStep ==
  ASSUME IInv, Disconnect
  PROVE  IInv'
<1>1. /\ session' = session /\ local' = local /\ help' = help /\ at' = at /\ record' = record
      /\ live' = live /\ events' = <<>> /\ connected' = FALSE
      /\ token' = token /\ loads' = loads /\ known' = known /\ current' = current
      /\ view' = view /\ shown' = shown /\ overtaken' = overtaken /\ wiped' = wiped
      /\ unloaded' = unloaded
  BY DEF Disconnect, serverVars, storeVars, historyVars
<1>2. ServerInv'
  BY <1>1 DEF IInv, ServerInv, RecordIsSound, LiveIsSound, HelpIsSound, AreOf, Of, ToSet, Key
<1>3. EventsAreSound'
  <2>1. Len(events') = 0
    BY <1>1
  <2>. QED
    BY <1>1, <2>1 DEF EventsAreSound
<1>8. RepliesAreSound'
  <2>1. \A t : ~ Coming(t)'
    BY <1>1 DEF Coming, ToSet
  <2>. QED
    BY <1>1, <2>1 DEF IInv, RepliesAreSound, Key
<1>4. AskedIsKnown' /\ LoadsAreSound'
  BY <1>1, LoadsKept DEF IInv, StoreInv, AskedIsKnown, Asked, Key
<1>5. LoadsAreFresh'
  BY <1>1 DEF LoadsAreFresh
<1>6. ViewIsSound'
  <2>1. Quiet' => Quiet
    BY <1>1 DEF Quiet, Wanted
  <2>. QED
    BY <1>1, <2>1, ViewKept DEF IInv, StoreInv
<1>7. TypeOK'
  BY StoreTypes DEF IInv
<1>. QED
  BY <1>2, <1>3, <1>4, <1>5, <1>6, <1>7, <1>8 DEF IInv, StoreInv

-----------------------------------------------------------------------------
(* The invariant *)

(* It holds at the start: nothing is recorded, asked for or shown. *)
LEMMA InitIInv == Init => IInv
<1> SUFFICES ASSUME Init PROVE IInv
  OBVIOUS
<1>1. events = <<>> /\ view = <<>> /\ loads = {} /\ \A s \in Sessions : record[s] = <<>> /\ live[s] = {}
  BY DEF Init
<1>2. TypeOK
  <2>1. current \in Sessions
    BY SessionsAssumption DEF Init
  <2>2. token \in 0 .. MaxLoads
    BY BoundsAssumption DEF Init
  <2>5. connected \in BOOLEAN /\ unloaded \in BOOLEAN /\ help \subseteq Turns
    BY Zenon DEF Init
  <2>6. cache \in [Sessions -> SUBSET (Turns \union Thinking)]
    BY DEF Init, NoLive
  <2>3. /\ at \in [Turns -> Stages] /\ record \in [Sessions -> Seq(Message)]
        /\ live \in [Sessions -> SUBSET Turns]
    BY DEF Init, Stages
  <2>4. events \in Seq(Event) /\ view \in Seq(Message) /\ outbound \in Seq(Turns)
    BY DEF Init
  <2>. QED
    BY <2>1, <2>2, <2>3, <2>4, <2>5, <2>6 DEF Init, TypeOK
<1>3. ServerInv
  BY <1>1, OfEmpty DEF Init, ServerInv, RecordIsSound, LiveIsSound, HelpIsSound, AreOf
<1>6. RepliesAreSound
  <2>1. \A t : ~ Coming(t)
    BY <1>1 DEF Coming, ToSet
  <2>. QED
    BY <2>1 DEF Init, RepliesAreSound
<1>4. EventsAreSound
  <2>1. Len(events) = 0
    BY <1>1
  <2>. QED
    BY <1>1, <2>1 DEF EventsAreSound
<1>5. StoreInv
  <2>1. Of(view) = {}
    BY <1>1, OfEmpty
  <2>2. shown = NoLive /\ known = {}
    BY DEF Init
  <2>3. \A t \in Turns : at[t] = "new"
    BY DEF Init
  <2>. QED
    BY <1>1, <2>1, <2>2, <2>3, <1>2
       DEF StoreInv, AskedIsKnown, LoadsAreSound, LoadsAreFresh, ViewIsSound, AreOf, Asked, TypeOK
<1>. QED
  BY <1>2, <1>3, <1>4, <1>5, <1>6 DEF IInv

(* A step of a turn sends no reply, and takes none back. *)
LEMMA TurnReplies ==
  ASSUME TypeOK, RepliesAreSound, NEW t \in Turns,
         Send(t) \/ Post(t) \/ PostFails(t) \/ Arrive(t) \/ Begin(t) \/ Help(t)
           \/ Work(t) \/ UseTool(t) \/ NoteTool(t) \/ Answer(t)
  PROVE  RepliesAreSound'
<1>1. at[t] # "ended" /\ \A u \in Turns : u # t => at'[u] = at[u]
  <2>1. CASE Send(t) \/ Post(t) \/ PostFails(t) \/ Arrive(t) \/ Begin(t)
    BY <2>1, MoveOfOne DEF Send, Post, PostFails, Arrive, Begin
  <2>2. CASE Help(t) \/ Work(t) \/ UseTool(t) \/ NoteTool(t)
    BY <2>2, MoveOfOne DEF Help, Work, UseTool, NoteTool
  <2>3. CASE Answer(t)
    <3>1. Move(t, {"working", "worked"}, "replied")
      BY <2>3 DEF Answer
    <3>. QED
      BY <3>1, MoveOfOne
  <2>. QED
    BY <2>1, <2>2, <2>3
<1>2. \A u \in Turns : at[u] = "ended" => at'[u] = "ended"
  BY <1>1
<1>3. known' \subseteq known \union {Key(t, "user")}
  BY DEF Send, Post, PostFails, Arrive, Begin, Help, Work, UseTool, NoteTool, Answer, historyVars
<1>4. \A u \in Turns : Key(u, "assistant") \in known' => Key(u, "assistant") \in known
  BY <1>3 DEF Key
<1>5. events' = events \/ \E kind \in {"question", "tool"} : Broadcast(kind, t)
  BY DEF Send, Post, PostFails, Arrive, Begin, Help, Work, UseTool, NoteTool, Answer, linkVars
<1>6. ASSUME NEW u \in Turns, Coming(u)' PROVE Coming(u)
  <2>1. CASE events' = events
    BY <1>6, <2>1 DEF Coming, ReplyEvent
  <2>2. ASSUME NEW kind \in {"question", "tool"}, Broadcast(kind, t) PROVE Coming(u)
    <3>1. ToSet(events') \subseteq ToSet(events) \union {[kind |-> kind, turn |-> t]}
      BY <2>2, BroadcastEvents
    <3>2. ReplyEvent(u) # [kind |-> kind, turn |-> t]
      <4>1. ReplyEvent(u).kind = "reply" /\ [kind |-> kind, turn |-> t].kind = kind
        BY DEF ReplyEvent
      <4>. QED
        BY <4>1
    <3>3. ReplyEvent(u) \in ToSet(events')
      BY <1>6 DEF Coming, ReplyEvent
    <3>. QED
      BY <3>1, <3>2, <3>3 DEF Coming
  <2>. QED
    BY <1>5, <2>1, <2>2
<1>. QED
  BY <1>2, <1>4, <1>6 DEF RepliesAreSound, Key

(* A step of a turn. *)
LEMMA TurnStep ==
  ASSUME IInv, NEW t \in Turns,
         Send(t) \/ Post(t) \/ PostFails(t) \/ Arrive(t) \/ Begin(t) \/ Help(t)
           \/ Work(t) \/ UseTool(t) \/ NoteTool(t) \/ Answer(t)
  PROVE  IInv'
<1>1. TypeOK /\ ServerInv /\ EventsAreSound /\ RepliesAreSound /\ StoreInv
  BY DEF IInv
<1>2. StoreInv'
  BY <1>1, SendStore, PostFailsStore, TurnStore
<1>3. RecordIsSound' /\ LiveIsSound' /\ HelpIsSound'
  BY <1>1, TurnRecord, TurnLive, TurnHelp DEF ServerInv
<1>4. TypeOK' /\ EventsAreSound'
  BY <1>1, ServerTypes, TurnEvents
<1>5. RepliesAreSound'
  BY <1>1, TurnReplies
<1>. QED
  BY <1>2, <1>3, <1>4, <1>5 DEF IInv, ServerInv

(* An event is taken. *)
LEMMA EventStep ==
  ASSUME IInv, OnUserMessage \/ OnToolUse \/ OnMessage
  PROVE  IInv'
<1>1. TypeOK /\ ServerInv /\ EventsAreSound /\ RepliesAreSound /\ StoreInv
  BY DEF IInv
<1>2. PICK kind \in {"question", "tool", "reply"} :
        /\ Receive(kind)
        /\ kind = "question" => OnUserMessage
        /\ kind = "tool" => OnToolUse
        /\ kind = "reply" => OnMessage
  BY DEF OnUserMessage, OnToolUse, OnMessage
<1>3. session' = session /\ help' = help /\ at' = at /\ record' = record /\ live' = live
  BY <1>2 DEF Receive, serverVars
<1>4. ServerInv'
  BY <1>1, <1>3 DEF ServerInv, RecordIsSound, LiveIsSound, HelpIsSound, AreOf, Of, ToSet, Key
<1>5. RepliesAreSound'
  <2>1. PICK t \in Turns : /\ t = Head(events).turn
                           /\ kind = "reply" => Coming(t)
                           /\ \A u \in Turns : Coming(u)' => Coming(u)
    BY <1>1, <1>2, TakenEvent
  <2>2. /\ kind = "reply" => known' = known \union {Key(t, "assistant")}
        /\ kind # "reply" => known' \subseteq known \union {Key(t, "user")}
    <3>1. CASE kind = "question"
      BY <1>2, <2>1, <3>1 DEF OnUserMessage
    <3>2. CASE kind = "tool"
      BY <1>2, <2>1, <3>2 DEF OnToolUse
    <3>3. CASE kind = "reply"
      BY <1>2, <2>1, <3>3 DEF OnMessage
    <3>. QED
      BY <3>1, <3>2, <3>3
  <2>3. \A u \in Turns : Key(u, "assistant") \in known' => Key(u, "assistant") \in known \/ Coming(u)
    BY <2>1, <2>2 DEF Key
  <2>. QED
    BY <1>1, <1>3, <2>1, <2>3 DEF RepliesAreSound, Key
<1>. QED
  BY <1>1, <1>2, <1>4, <1>5, EventTypes, EventTaken, EventStore DEF IInv

(* A step of the browser that neither takes an event nor asks for a history. *)
LEMMA LoadStep ==
  ASSUME IInv,
         \/ \E s \in Sessions : NewSession(s)
         \/ \E l \in loads : Serve(l) \/ Land(l) \/ Discard(l) \/ LoadFails(l)
  PROVE  IInv'
<1>1. TypeOK /\ ServerInv /\ EventsAreSound /\ RepliesAreSound /\ StoreInv
  BY DEF IInv
<1>2. session' = session /\ help' = help /\ at' = at /\ record' = record /\ live' = live
      /\ events' = events /\ connected' = connected /\ known' = known
  BY DEF historyVars, NewSession, Serve, Land, Discard, LoadFails, serverVars, linkVars
<1>3. ServerInv'
  BY <1>1, <1>2 DEF ServerInv, RecordIsSound, LiveIsSound, HelpIsSound, AreOf, Of, ToSet, Key
<1>7. RepliesAreSound'
  BY <1>1, <1>2 DEF RepliesAreSound, Coming, ReplyEvent, Key
<1>4. EventsAreSound'
  BY <1>1, <1>2, EventsKept DEF Underway
<1>5. StoreInv'
  BY <1>1, NewSessionStore, ServeStore, LandStore, NotLoadedStore
<1>6. TypeOK'
  BY <1>1, StoreTypes
<1>. QED
  BY <1>3, <1>4, <1>5, <1>6, <1>7 DEF IInv

(* A step that changes nothing. *)
LEMMA StutterStep == IInv /\ UNCHANGED vars => IInv'
<1> SUFFICES ASSUME IInv, UNCHANGED vars PROVE IInv'
  OBVIOUS
<1>1. TypeOK /\ ServerInv /\ EventsAreSound /\ RepliesAreSound /\ StoreInv
  BY DEF IInv
<1>2. /\ session' = session /\ local' = local /\ at' = at /\ record' = record /\ live' = live
      /\ outbound' = outbound /\ events' = events /\ connected' = connected /\ StoreKept
  BY DEF vars, serverVars, linkVars, storeVars, historyVars, StoreKept
<1>3. TypeOK'
  BY <1>1, <1>2 DEF TypeOK, StoreKept
<1>4. ServerInv'
  BY <1>1, <1>2 DEF StoreKept, ServerInv, RecordIsSound, LiveIsSound, HelpIsSound, AreOf, Of, ToSet, Key
<1>7. RepliesAreSound'
  BY <1>1, <1>2 DEF StoreKept, RepliesAreSound, Coming, ReplyEvent, Key
<1>5. EventsAreSound'
  BY <1>1, <1>2, EventsKept DEF Underway
<1>6. StoreInv'
  BY <1>1, <1>2, ServerKeeps DEF StoreKept, Coming, ReplyEvent, Asked, Underway, Unended, Beyond
<1>. QED
  BY <1>3, <1>4, <1>5, <1>6, <1>7 DEF IInv

(* Every step keeps the inductive invariant. *)
LEMMA NextIInv == IInv /\ [Next]_vars => IInv'
  BY TurnStep, DeliverStep, EventStep, AskForStep, LoadStep, DisconnectStep, StutterStep DEF Next

(* The inductive invariant holds in every reachable state. *)
THEOREM Invariance == Spec => []IInv
  BY InitIInv, NextIInv, PTL DEF Spec

-----------------------------------------------------------------------------
(* The properties of the runs *)

(***************************************************************************)
(* Whatever responses come late, and whatever sessions are changed to in   *)
(* between, a history that lands last is the one shown (_loadToken): no    *)
(* message of another session stays in the view.                           *)
(***************************************************************************)
THEOREM OwnSessionShown == Spec => []ViewIsOfSession
<1>1. IInv => ViewIsOfSession
  <2> SUFFICES ASSUME IInv, loads = {}, ~ unloaded, NEW i \in 1 .. Len(view)
               PROVE  session[view[i].turn] = current
    BY DEF ViewIsOfSession
  <2>1. view[i] \in ToSet(view)
    BY LenProperties DEF IInv, TypeOK, ToSet
  <2>2. Key(view[i].turn, view[i].role) \in Of(view)
    BY <2>1 DEF Of
  <2>3. AreOf(current, Of(view))
    BY DEF IInv, StoreInv, ViewIsSound, Quiet
  <2>. QED
    BY <2>2, <2>3 DEF AreOf, Key
<1>. QED
  BY <1>1, Invariance, PTL

(* Nothing more is on its way to the browser. *)
LEMMA SettledView ==
  ASSUME IInv, Settled
  PROVE  /\ \A t \in Turns : session[t] = current /\ Asked(t) => Key(t, "user") \in Held
         /\ \A t \in Turns : session[t] = current /\ at[t] = "ended" /\ t \notin help =>
              Key(t, "assistant") \in Held
         /\ \A t \in help : session[t] = current /\ Key(t, "assistant") \in known =>
              Key(t, "assistant") \in Of(view) \union wiped
         /\ shown # NoLive => \/ \E t \in shown : Key(t, "assistant") \in overtaken
                              \/ \E t \in Turns : session[t] = current /\ Unended(t)
<1>1. connected /\ events = <<>> /\ Quiet
  BY DEF Settled, Quiet
<1>2. \A t \in Turns : ~ Coming(t)
  BY <1>1 DEF Coming, ToSet
<1>. QED
  BY <1>1, <1>2 DEF IInv, StoreInv, ViewIsSound, AtWork

(***************************************************************************)
(* Once all has come, the browser shows every question it asked and every  *)
(* reply on record in its session, but for what a history overtook and     *)
(* what is older than a history goes back; and the replies to /help that   *)
(* it received since its last history: whatever the order of events,       *)
(* responses and lost connections (loadHistory, onMessage, get_history).   *)
(***************************************************************************)
THEOREM NothingIsMissing == Spec => []NothingMissing
<1>1. IInv => NothingMissing
  BY SettledView DEF NothingMissing, Asked, Held
<1>. QED
  BY <1>1, Invariance, PTL

(* And no agent at work where all are at rest, but for a turn whose reply a history overtook. *)
THEOREM NoGhostAtWork == Spec => []LiveEnds
<1>1. IInv => LiveEnds
  BY SettledView DEF LiveEnds, Resting, Unended
<1>. QED
  BY <1>1, Invariance, PTL
=============================================================================
