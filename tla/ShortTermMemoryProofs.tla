------------------------- MODULE ShortTermMemoryProofs ------------------------
(***************************************************************************)
(* Theorems about ShortTermMemory, for any mentions, conversations and     *)
(* timeouts and any number of restarts: what is ingested is one whole      *)
(* conversation, and nothing is ingested twice.                            *)
(*                                                                         *)
(* IngestsConversationsOnce is about what has been or may be handed over,  *)
(* and is not inductive: a message may join it from the broadcast, and get *)
(* there from a turn.  IInv adds that each message is made once (Issued),  *)
(* that what is still to be taken is in no episode yet (Unheard), and that *)
(* a session knows its last message and holds its own conversation only    *)
(* (OwnMessages), which is what keeps two sessions apart.                  *)
(***************************************************************************)
EXTENDS ShortTermMemory, SequenceTheorems, FunctionTheorems, FiniteSetTheorems, TLAPS

SessionRecord == [messages : Seq(Messages), last_active : Times, already_ingested : BOOLEAN]
Id(msg) == <<msg.of, msg.bot>>

Shapes ==
  /\ clock \in Times /\ restarts \in 0 .. MaxRestarts
  /\ turn \in [Mentions -> {"none", "asking", "running", "done"}]
  /\ inbox \in Seq(Messages)
  /\ worker \in {"down", "loading", "recv", "mention", "turn"}
  /\ inHand \in Seq(Messages) /\ Len(inHand) <= 1 /\ evicted \in Seq(Messages)
  /\ sessions \in [Convs -> SessionRecord]
  /\ queue \in Seq(Messages) /\ Len(queue) <= QueueCapacity
  /\ rows \subseteq Messages /\ IsFiniteSet(rows)
  /\ handed \subseteq Seq(Messages) /\ waiting \subseteq handed /\ running \subseteq handed
  /\ IsFiniteSet(running) /\ Cardinality(running) <= Permits

\* What the worker holds where.
Stages ==
  /\ worker \notin {"mention", "turn"} => inHand = <<>> /\ evicted = <<>>
  /\ worker \in {"down", "loading"} => inbox = <<>> /\ sessions = NoSessions

\* The messages that turns have made so far.
Issued == {<<m, FALSE>> : m \in {n \in Mentions : turn[n] # "none"}}
            \cup {<<m, TRUE>> : m \in {n \in Mentions : turn[n] = "done"}}
\* What is ingested, or may be.
Episodes == handed \cup {evicted} \cup {sessions[c].messages : c \in Unmarked}
\* A message to be taken has been made, and is in no episode yet.
Unheard ==
  /\ \A i \in 1 .. Len(inbox) :
       /\ Id(inbox[i]) \in Issued
       /\ \A j \in 1 .. Len(inbox) : Id(inbox[j]) = Id(inbox[i]) => i = j
       /\ \A msgs \in Episodes : Id(inbox[i]) \notin Ids(msgs)
  /\ \A msgs \in Episodes : Ids(msgs) \subseteq Issued

\* A session holds messages of its own conversation, the last of them when it says.
OwnMessages(c) ==
  LET s == sessions[c] IN
  /\ \A i \in 1 .. Len(s.messages) : Conv(s.messages[i]) = c
  /\ s.messages # <<>> => s.last_active = s.messages[Len(s.messages)].at

OwnSessions == \A c \in Unmarked : OwnMessages(c)

IInv == Shapes /\ Stages /\ Unheard /\ OwnSessions /\ IngestsConversationsOnce

-----------------------------------------------------------------------------
(* The history loaded at start *)

LEMMA BeforeOrders ==
  \A a, b, c \in Messages :
    /\ ~Before(a, a)
    /\ Before(a, b) /\ Before(b, c) => Before(a, c)
    /\ a # b => Before(a, b) \/ Before(b, a)
<1>1. ASSUME NEW a \in Messages
      PROVE  /\ a.of \in Nat /\ a.at \in Nat /\ a.bot \in BOOLEAN
             /\ a = [of |-> a.of, bot |-> a.bot, at |-> a.at]
  <2>1. a \in [of : Mentions, bot : BOOLEAN, at : Times]
    BY DEF Messages
  <2>2. a.of \in Mentions /\ a.at \in Times /\ a.bot \in BOOLEAN
    BY <2>1
  <2>3. Mentions \subseteq Nat /\ Times \subseteq Nat
    BY MentionsAssumption, BoundsAssumption DEF Times
  <2>4. a = [of |-> a.of, bot |-> a.bot, at |-> a.at]
    BY <2>1, Zenon
  <2> QED BY <2>2, <2>3, <2>4
<1>2. \A a \in Messages : ~Before(a, a)
  BY <1>1 DEF Before
<1>3. ASSUME NEW a \in Messages, NEW b \in Messages, NEW c \in Messages,
             Before(a, b), Before(b, c)
      PROVE  Before(a, c)
  BY <1>1, <1>3 DEF Before
<1>4. ASSUME NEW a \in Messages, NEW b \in Messages, ~Before(a, b), ~Before(b, a)
      PROVE  a = b
  <2>1. a.at = b.at /\ a.of = b.of
    BY <1>1, <1>4 DEF Before
  <2>2. a.bot = b.bot
    BY <1>1, <1>4, <2>1 DEF Before
  <2> QED BY <1>1, <2>1, <2>2
<1> QED BY <1>2, <1>3, <1>4

\* Ranked by how many come before, the messages of a set are a sequence.
LEMMA HistoryOrdered ==
  ASSUME NEW S \in SUBSET Messages, IsFiniteSet(S)
  PROVE  OldestFirst(S) \in SetToSeqs(S)
<1> DEFINE n == Cardinality(S)
           Down(x) == {y \in S : Before(y, x)}
           rank(x) == Cardinality(Down(x))
           r == [x \in S |-> rank(x) + 1]
<1>1. n \in Nat
  BY FS_CardinalityType
<1>2. ASSUME NEW x \in S PROVE IsFiniteSet(Down(x)) /\ rank(x) \in 0 .. n - 1
  <2>1. Down(x) \in SUBSET S /\ Down(x) # S
    BY BeforeOrders
  <2> QED BY <1>1, <2>1, FS_Subset, FS_CardinalityType
<1>3. ASSUME NEW x \in S, NEW y \in S, Before(x, y) PROVE rank(x) < rank(y)
  <2>1. Down(x) \in SUBSET Down(y) /\ Down(x) # Down(y)
    BY <1>3, BeforeOrders
  <2>2. rank(x) <= rank(y) /\ rank(x) # rank(y)
    BY <1>2, <2>1, FS_Subset
  <2>3. rank(x) \in 0 .. n - 1 /\ rank(y) \in 0 .. n - 1
    BY <1>2
  <2> HIDE DEF rank
  <2> QED BY <1>1, <2>2, <2>3
<1> HIDE DEF rank, n
<1>4. r \in [S -> 1 .. n] /\ \A x, y \in S : Before(x, y) => r[x] < r[y]
  <2>1. \A x \in S : rank(x) \in 0 .. n - 1
    BY <1>2
  <2>2. \A x, y \in S : Before(x, y) => rank(x) < rank(y)
    BY <1>3
  <2> QED BY <1>1, <2>1, <2>2
<1> HIDE DEF r
<1>5. r \in Surjection(S, 1 .. n)
  <2>1. r \in Injection(S, 1 .. n)
    BY <1>1, <1>4, BeforeOrders DEF Injection, IsInjective
  <2>2. IsFiniteSet(1 .. n) /\ Cardinality(1 .. n) = n
    BY <1>1, FS_Interval
  <2> QED BY <1>1, <2>1, <2>2, FS_Injection DEF n
<1> DEFINE s == [i \in 1 .. n |-> CHOOSE x \in S : r[x] = i]
<1>6. s \in [1 .. n -> S] /\ \A i \in 1 .. n : r[s[i]] = i
  BY <1>5 DEF Surjection
<1> HIDE DEF s
<1>7. s \in SetToSeqs(S)
  BY <1>6 DEF SetToSeqs, n
<1>8. ASSUME NEW i \in DOMAIN s, NEW j \in DOMAIN s, i < j PROVE Before(s[i], s[j])
  <2>1. s[i] \in S /\ s[j] \in S /\ r[s[i]] = i /\ r[s[j]] = j /\ i \in Nat /\ j \in Nat
    BY <1>1, <1>6
  <2>2. s[i] # s[j] /\ ~Before(s[j], s[i])
    BY <1>4, <1>8, <2>1
  <2> QED BY <2>1, <2>2, BeforeOrders
<1> QED BY <1>7, <1>8 DEF OldestFirst

LEMMA LoadedSession ==
  ASSUME NEW c \in Convs, Shapes
  PROVE  /\ Loaded(c) \in SessionRecord
         /\ Loaded(c) = NoSession \/ Loaded(c).already_ingested
<1> DEFINE S == {msg \in Newest(rows) : Conv(msg) = c}
           msgs == OldestFirst(S)
<1>1. S \in SUBSET Messages /\ IsFiniteSet(S)
  BY FS_Subset DEF Shapes, Newest
<1>2. msgs \in Seq(Messages)
  <2>1. msgs \in [1 .. Cardinality(S) -> S]
    BY <1>1, HistoryOrdered DEF SetToSeqs
  <2>2. msgs \in [1 .. Cardinality(S) -> Messages] /\ Cardinality(S) \in Nat
    BY <1>1, <2>1, FS_CardinalityType
  <2> QED BY <2>2, SeqDef
<1>3. NoSession \in SessionRecord
  BY BoundsAssumption DEF NoSession, Session, SessionRecord, Times
<1> HIDE DEF S
<1>4. CASE msgs = <<>>
  BY <1>1, <1>3, <1>4 DEF Loaded, S
<1>5. CASE msgs # <<>>
  <2>1. msgs[Len(msgs)] \in Messages
    BY <1>2, <1>5, LenProperties
  <2>2. Last(msgs).at \in Times
    BY <2>1 DEF Last, Messages
  <2>3. Loaded(c) = Session(msgs, Last(msgs).at, TRUE)
    BY <1>5 DEF Loaded, S
  <2> QED BY <1>2, <2>2, <2>3 DEF Session, SessionRecord
<1> QED BY <1>4, <1>5

-----------------------------------------------------------------------------
(* Messages and sessions *)

LEMMA MessageTyped ==
  /\ \A m \in Mentions, b \in BOOLEAN, t \in Times :
       Message(m, b, t) \in Messages /\ Id(Message(m, b, t)) = <<m, b>>
  /\ \A msg \in Messages : /\ msg.of \in Mentions /\ msg.bot \in BOOLEAN /\ msg.at \in Times
                           /\ Conv(msg) \in Convs /\ Id(msg) = <<msg.of, msg.bot>>
  /\ 0 \in Times
<1>1. ASSUME NEW m \in Mentions, NEW b \in BOOLEAN, NEW t \in Times
      PROVE  Message(m, b, t) \in Messages /\ Id(Message(m, b, t)) = <<m, b>>
  BY DEF Message, Messages, Id
<1>2. ASSUME NEW msg \in Messages
      PROVE  /\ msg.of \in Mentions /\ msg.bot \in BOOLEAN /\ msg.at \in Times
             /\ Conv(msg) \in Convs /\ Id(msg) = <<msg.of, msg.bot>>
  <2>1. msg.of \in Mentions /\ msg.bot \in BOOLEAN /\ msg.at \in Times
    BY DEF Messages
  <2> QED BY <2>1, MentionsAssumption DEF Conv, Id
<1>3. 0 \in Times
  BY BoundsAssumption DEF Times
<1> QED BY <1>1, <1>2, <1>3

LEMMA Appended ==
  ASSUME NEW s \in Seq(Messages), NEW msg \in Messages
  PROVE  /\ Append(s, msg) \in Seq(Messages) /\ Len(Append(s, msg)) = Len(s) + 1
         /\ Len(s) \in Nat /\ Append(s, msg)[Len(s) + 1] = msg
         /\ \A i \in 1 .. Len(s) : Append(s, msg)[i] = s[i]
         /\ Append(s, msg) # <<>>
         /\ Ids(Append(s, msg)) = Ids(s) \cup {Id(msg)}
<1>1. /\ Append(s, msg) \in Seq(Messages) /\ Len(Append(s, msg)) = Len(s) + 1
      /\ Len(s) \in Nat /\ Append(s, msg)[Len(s) + 1] = msg
      /\ \A i \in 1 .. Len(s) : Append(s, msg)[i] = s[i]
  BY AppendProperties, LenProperties
<1>2. Append(s, msg) # <<>>
  BY <1>1, EmptySeq
<1>3. Ids(Append(s, msg)) = Ids(s) \cup {Id(msg)}
  <2> DEFINE t == Append(s, msg)
  <2>1. 1 .. Len(t) = 1 .. Len(s) \cup {Len(s) + 1}
    BY <1>1
  <2>2. \A i \in 1 .. Len(s) : <<t[i].of, t[i].bot>> = <<s[i].of, s[i].bot>>
    BY <1>1
  <2>3. <<t[Len(s) + 1].of, t[Len(s) + 1].bot>> = Id(msg)
    BY <1>1 DEF Id
  <2> HIDE DEF t
  <2> QED BY <2>1, <2>2, <2>3 DEF Ids, t
<1> QED BY <1>1, <1>2, <1>3

LEMMA Single ==
  ASSUME NEW msg \in Messages
  PROVE  /\ <<msg>> \in Seq(Messages) /\ Len(<<msg>>) = 1 /\ <<msg>>[1] = msg
         /\ <<msg>> # <<>> /\ Ids(<<msg>>) = {Id(msg)}
BY DEF Ids, Id

LEMMA NoIds == Ids(<<>>) = {} /\ <<>> \in Seq(Messages) /\ Len(<<>>) = 0
BY DEF Ids

LEMMA HeadAndTail ==
  ASSUME NEW s \in Seq(Messages), s # <<>>
  PROVE  /\ Head(s) \in Messages /\ Head(s) = s[1] /\ Len(s) \in Nat \ {0}
         /\ Tail(s) \in Seq(Messages) /\ Len(Tail(s)) = Len(s) - 1
         /\ \A i \in 1 .. Len(Tail(s)) : Tail(s)[i] = s[i + 1]
<1>1. Len(s) \in Nat \ {0}
  BY LenProperties, EmptySeq
<1> QED BY <1>1, HeadTailProperties, ElementOfSeq

\* What push makes of the session of a message, and what it returns.
LEMMA PushEffect ==
  ASSUME NEW msg \in Messages, sessions \in [Convs -> SessionRecord]
  PROVE  LET c == Conv(msg)  s == sessions[c]  new == Pushed(msg)[c]
             old == IF IsExpired(s, msg.at) THEN <<>> ELSE s.messages
         IN  /\ Pushed(msg) \in [Convs -> SessionRecord]
             /\ \A d \in Convs \ {c} : Pushed(msg)[d] = sessions[d]
             /\ new.messages = Append(old, msg) /\ new.last_active = msg.at
             /\ new.already_ingested = (~IsExpired(s, msg.at) /\ s.already_ingested)
             /\ old \in Seq(Messages)
             /\ Ended(msg) = IF IsExpired(s, msg.at) /\ ~s.already_ingested
                             THEN s.messages ELSE <<>>
<1> DEFINE c == Conv(msg)
           s == sessions[c]
           old == IF IsExpired(s, msg.at) THEN NoSession ELSE s
           new == Session(Append(old.messages, msg), msg.at, old.already_ingested)
<1>1. c \in Convs /\ msg.at \in Times /\ s \in SessionRecord
  BY MessageTyped
<1>2. NoSession \in SessionRecord /\ NoSession.messages = <<>> /\ ~NoSession.already_ingested
  BY MessageTyped DEF NoSession, Session, SessionRecord
<1>3. old \in SessionRecord
  BY <1>1, <1>2
<1>4. old.messages \in Seq(Messages) /\ old.already_ingested \in BOOLEAN
  BY <1>3 DEF SessionRecord
<1>5. /\ new \in SessionRecord /\ new.messages = Append(old.messages, msg)
      /\ new.last_active = msg.at /\ new.already_ingested = old.already_ingested
  BY <1>1, <1>4, Appended DEF Session, SessionRecord
<1>6. Pushed(msg) = [sessions EXCEPT ![c] = new]
  BY DEF Pushed
<1>7. old.messages = IF IsExpired(s, msg.at) THEN <<>> ELSE s.messages
  BY <1>2
<1>8. old.already_ingested = (~IsExpired(s, msg.at) /\ s.already_ingested)
  BY <1>1, <1>2 DEF SessionRecord
<1>9. Ended(msg) = IF IsExpired(s, msg.at) /\ ~s.already_ingested THEN s.messages ELSE <<>>
  BY DEF Ended
<1> HIDE DEF new, old
<1>10. /\ Pushed(msg) \in [Convs -> SessionRecord] /\ Pushed(msg)[c] = new
       /\ \A d \in Convs \ {c} : Pushed(msg)[d] = sessions[d]
  BY <1>1, <1>5, <1>6
<1> QED BY <1>4, <1>5, <1>7, <1>8, <1>9, <1>10

-----------------------------------------------------------------------------
(* Types *)

LEMMA HandOverTyped ==
  ASSUME Shapes, NEW ended \in SUBSET Seq(Messages), HandOver(ended)
  PROVE  handed' \subseteq Seq(Messages) /\ waiting' \subseteq handed' /\ running \subseteq handed'
BY DEF HandOver, Shapes

LEMMA Finite ==
  ASSUME NEW s \in Seq(Messages)
  PROVE  IsFiniteSet(ToSet(s)) /\ ToSet(s) \subseteq Messages
<1>1. s \in [1 .. Len(s) -> Messages] /\ Len(s) \in Nat /\ DOMAIN s = 1 .. Len(s)
  BY LenProperties
<1>2. s \in Surjection(1 .. Len(s), ToSet(s))
  BY <1>1 DEF Surjection, ToSet
<1>3. IsFiniteSet(1 .. Len(s))
  BY <1>1, FS_Interval
<1> QED BY <1>1, <1>2, <1>3, FS_Surjection DEF ToSet

LEMMA StepTypes ==
  ASSUME Shapes, Stages, [Next]_vars
  PROVE  Shapes'
<1> USE DEF Shapes
<1>1. CASE Tick
  BY <1>1, BoundsAssumption DEF Tick, workerVars, storeVars, jobVars, Times
<1>2. CASE Load
  <2>1. sessions' \in [Convs -> SessionRecord]
    <3>1. NoSessions \in [Convs -> SessionRecord]
      BY MessageTyped, NoIds DEF NoSessions, NoSession, Session, SessionRecord
    <3>2. [c \in Convs |-> Loaded(c)] \in [Convs -> SessionRecord]
      BY LoadedSession
    <3> QED BY <1>2, <3>1, <3>2 DEF Load
  <2> QED BY <1>2, <2>1 DEF Load, timeVars, storeVars, jobVars
<1>3. CASE TakeMention
  <2>1. Head(inbox) \in Messages /\ Tail(inbox) \in Seq(Messages)
    BY <1>3, HeadAndTail DEF TakeMention, CanTake
  <2>2. sessions' \in [Convs -> SessionRecord]
    BY <1>3, <2>1, PushEffect DEF TakeMention
  <2>3. evicted' \in Seq(Messages)
    <3>1. sessions[Conv(Head(inbox))].messages \in Seq(Messages)
      BY <2>1, MessageTyped DEF SessionRecord
    <3> QED BY <1>3, <3>1, NoIds DEF TakeMention, Ended
  <2>4. inHand' \in Seq(Messages) /\ Len(inHand') <= 1
    BY <1>3, <2>1, Single DEF TakeMention
  <2> QED BY <1>3, <2>1, <2>2, <2>3, <2>4 DEF TakeMention, timeVars, storeVars, jobVars
<1>4. CASE TakeAnswer
  <2> DEFINE msg == Message(Head(inbox).of, TRUE, clock)
  <2>1. Head(inbox) \in Messages /\ Tail(inbox) \in Seq(Messages)
    BY <1>4, HeadAndTail DEF TakeAnswer, CanTake
  <2>2. msg \in Messages
    BY <2>1, MessageTyped
  <2>3. sessions' = Pushed(msg) /\ inHand' = <<msg>>
    BY <1>4 DEF TakeAnswer
  <2> HIDE DEF msg
  <2>4. sessions' \in [Convs -> SessionRecord]
    BY <2>2, <2>3, PushEffect
  <2>5. inHand' \in Seq(Messages) /\ Len(inHand') <= 1
    BY <2>2, <2>3, Single
  <2> QED BY <1>4, <2>1, <2>4, <2>5 DEF TakeAnswer, timeVars, storeVars, jobVars
<1>5. CASE Lag
  <2>1. inbox' \in Seq(Messages)
    BY <1>5, CapacityAssumption, SubSeqProperties, LenProperties DEF Lag
  <2> QED BY <1>5, <2>1 DEF Lag, timeVars, workerVars, storeVars, jobVars
<1>6. CASE Persist
  <2>1. {evicted} \in SUBSET Seq(Messages) /\ HandOver({evicted})
    BY <1>6 DEF Persist
  <2>2. queue' \in Seq(Messages) /\ Len(queue') <= QueueCapacity
    BY <1>6, ConcatProperties, LenProperties, CapacityAssumption DEF Persist
  <2> QED BY <1>6, <2>1, <2>2, HandOverTyped, NoIds DEF Persist, timeVars
<1>7. CASE FlushTick
  <2> DEFINE expired == {c \in Convs : IsExpired(sessions[c], clock)}
             ended == {sessions[c].messages : c \in {d \in expired : ~sessions[d].already_ingested}}
  <2>1. sessions' \in [Convs -> SessionRecord]
    <3>1. NoSession \in SessionRecord
      BY MessageTyped DEF NoSession, Session, SessionRecord
    <3> QED BY <1>7, <3>1 DEF FlushTick
  <2>2. ended \in SUBSET Seq(Messages)
    BY DEF SessionRecord
  <2>3. HandOver(ended)
    BY <1>7 DEF FlushTick
  <2> HIDE DEF ended
  <2> QED BY <1>7, <2>1, <2>2, <2>3, HandOverTyped DEF FlushTick, timeVars, workerVars, storeVars
<1>8. CASE Write
  <2>1. Head(queue) \in Messages /\ Tail(queue) \in Seq(Messages) /\ Len(Tail(queue)) <= QueueCapacity
    BY <1>8, HeadAndTail, CapacityAssumption DEF Write
  <2>2. rows' \subseteq Messages /\ IsFiniteSet(rows')
    BY <1>8, <2>1, FS_AddElement DEF Write
  <2> QED BY <1>8, <2>1, <2>2 DEF Write, timeVars, workerVars, jobVars
<1>9. CASE End
  <2>1. PICK n \in 0 .. Len(queue) : rows' = rows \cup ToSet(SubSeq(queue, 1, n))
    BY <1>9 DEF End
  <2>2. SubSeq(queue, 1, n) \in Seq(Messages)
    BY SubSeqProperties, LenProperties
  <2>3. rows' \subseteq Messages /\ IsFiniteSet(rows')
    BY <2>1, <2>2, Finite, FS_Union
  <2>4. IsFiniteSet(running') /\ Cardinality(running') <= Permits
    BY <1>9, FS_EmptySet, CapacityAssumption DEF End
  <2>5. sessions' \in [Convs -> SessionRecord]
    BY <1>9, MessageTyped, NoIds DEF End, NoSessions, NoSession, Session, SessionRecord
  <2>6. queue' \in Seq(Messages) /\ Len(queue') <= QueueCapacity
    BY <1>9, NoIds, CapacityAssumption DEF End
  <2>7. turn' \in [Mentions -> {"none", "asking", "running", "done"}]
    BY <1>9 DEF End
  <2>8. restarts' \in 0 .. MaxRestarts
    BY <1>9, BoundsAssumption DEF End
  <2> QED BY <1>9, <2>3, <2>4, <2>5, <2>6, <2>7, <2>8, NoIds DEF End
<1>10. CASE Boot
  BY <1>10 DEF Boot, timeVars, storeVars, jobVars
<1>11. ASSUME NEW m \in Mentions, Arrive(m) PROVE Shapes'
  <2>1. inbox' \in Seq(Messages)
    BY <1>11, MessageTyped, Appended DEF Arrive, Broadcast
  <2> QED BY <1>11, <2>1 DEF Arrive, timeVars, workerVars, storeVars, jobVars
<1>12. ASSUME NEW m \in Mentions, ReadHistory(m) PROVE Shapes'
  BY <1>12 DEF ReadHistory, timeVars, workerVars, storeVars, jobVars
<1>13. ASSUME NEW m \in Mentions, Complete(m) PROVE Shapes'
  <2>1. inbox' \in Seq(Messages)
    BY <1>13, MessageTyped, Appended DEF Complete, Broadcast
  <2> QED BY <1>13, <2>1 DEF Complete, timeVars, workerVars, storeVars, jobVars
<1>14. ASSUME NEW job \in Jobs, StartJob(job) PROVE Shapes'
  <2>1. IsFiniteSet(running') /\ Cardinality(running') <= Permits
    <3>1. Cardinality(running) \in Nat /\ Cardinality(running) < Permits
      BY <1>14, FS_CardinalityType DEF StartJob
    <3>2. /\ IsFiniteSet(running \cup {job})
          /\ Cardinality(running \cup {job}) \in {Cardinality(running), Cardinality(running) + 1}
      BY FS_AddElement
    <3>3. running' = running \cup {job}
      BY <1>14 DEF StartJob
    <3> QED BY <3>1, <3>2, <3>3, CapacityAssumption
  <2> QED BY <1>14, <2>1 DEF StartJob, timeVars, workerVars, storeVars
<1>15. ASSUME NEW job \in Jobs, EndJob(job) PROVE Shapes'
  <2>1. IsFiniteSet(running') /\ Cardinality(running') <= Permits
    <3>1. Cardinality(running) \in Nat
      BY FS_CardinalityType
    <3>2. /\ IsFiniteSet(running \ {job})
          /\ Cardinality(running \ {job}) \in {Cardinality(running), Cardinality(running) - 1}
      BY FS_RemoveElement
    <3>3. running' = running \ {job}
      BY <1>15 DEF EndJob
    <3> QED BY <3>1, <3>2, <3>3, CapacityAssumption
  <2> QED BY <1>15, <2>1 DEF EndJob, timeVars, workerVars, storeVars
<1>16. CASE UNCHANGED vars
  BY <1>16 DEF vars, timeVars, workerVars, storeVars, jobVars
<1> QED
  BY <1>1, <1>2, <1>3, <1>4, <1>5, <1>6, <1>7, <1>8, <1>9, <1>10, <1>11, <1>12, <1>13, <1>14,
     <1>15, <1>16 DEF Next, WorkerStep

-----------------------------------------------------------------------------
(* Where the worker is *)

LEMMA StepStages ==
  ASSUME Shapes, Stages, [Next]_vars
  PROVE  Stages'
<1> USE DEF Stages
<1>1. CASE Tick
  BY <1>1 DEF Tick, workerVars
<1>2. CASE Load
  BY <1>2 DEF Load
<1>3. CASE TakeMention
  BY <1>3 DEF TakeMention, CanTake
<1>4. CASE TakeAnswer
  BY <1>4 DEF TakeAnswer, CanTake
<1>5. CASE Lag
  BY <1>5 DEF Lag, workerVars
<1>6. CASE Persist
  BY <1>6 DEF Persist
<1>7. CASE FlushTick
  BY <1>7 DEF FlushTick, workerVars
<1>8. CASE Write
  BY <1>8 DEF Write, workerVars
<1>9. CASE End
  BY <1>9 DEF End
<1>10. CASE Boot
  BY <1>10 DEF Boot
<1>11. ASSUME NEW m \in Mentions, Arrive(m) PROVE Stages'
  BY <1>11 DEF Arrive, Broadcast, Alive, workerVars
<1>12. ASSUME NEW m \in Mentions, ReadHistory(m) PROVE Stages'
  BY <1>12 DEF ReadHistory, workerVars
<1>13. ASSUME NEW m \in Mentions, Complete(m) PROVE Stages'
  BY <1>13 DEF Complete, Broadcast, Alive, workerVars
<1>14. ASSUME NEW job \in Jobs, StartJob(job) \/ EndJob(job) PROVE Stages'
  BY <1>14 DEF StartJob, EndJob, workerVars
<1>15. CASE UNCHANGED vars
  BY <1>15 DEF vars, workerVars
<1> QED
  BY <1>1, <1>2, <1>3, <1>4, <1>5, <1>6, <1>7, <1>8, <1>9, <1>10, <1>11, <1>12, <1>13, <1>14,
     <1>15 DEF Next, WorkerStep

-----------------------------------------------------------------------------
(* Episodes *)

Heard(id) == \E msgs \in Episodes : id \in Ids(msgs)

LEMMA TimeoutTyped == \A n \in Nat : Timeout(n) \in Nat
<1>1. \A n \in Nat : n * PerMessage \in Nat
  BY TimeoutAssumption
<1> QED BY <1>1, TimeoutAssumption DEF Timeout

LEMMA EmptyConversation == IsConversation(<<>>) /\ \A msgs : Apart(<<>>, msgs) /\ Apart(msgs, <<>>)
BY NoIds DEF IsConversation, Apart

\* Sessions of two conversations have no message in common.
LEMMA OwnMessagesApart ==
  ASSUME NEW c \in Convs, NEW d \in Convs, c # d, OwnMessages(c), OwnMessages(d)
  PROVE  Apart(sessions[c].messages, sessions[d].messages)
<1> SUFFICES ASSUME NEW id \in Ids(sessions[c].messages), id \in Ids(sessions[d].messages)
             PROVE  FALSE
  BY DEF Apart
<1>1. PICK i \in 1 .. Len(sessions[c].messages) :
        id = <<sessions[c].messages[i].of, sessions[c].messages[i].bot>>
  BY DEF Ids
<1>2. PICK j \in 1 .. Len(sessions[d].messages) :
        id = <<sessions[d].messages[j].of, sessions[d].messages[j].bot>>
  BY DEF Ids
<1>3. sessions[c].messages[i].of = sessions[d].messages[j].of
  BY <1>1, <1>2
<1> QED BY <1>3 DEF OwnMessages, Conv

\* A message keeps the conversation that it joins before that has expired.
LEMMA JoinedConversation ==
  ASSUME NEW s \in Seq(Messages), NEW msg \in Messages, IsConversation(s),
         s # <<>> => /\ Conv(s[Len(s)]) = Conv(msg)
                     /\ msg.at - s[Len(s)].at <= Timeout(Len(s))
  PROVE  IsConversation(Append(s, msg))
<1> DEFINE t == Append(s, msg)
<1>1. Len(t) = Len(s) + 1 /\ Len(s) \in Nat /\ t[Len(s) + 1] = msg
      /\ \A i \in 1 .. Len(s) : t[i] = s[i]
  BY Appended
<1> HIDE DEF t
<1> SUFFICES ASSUME NEW i \in 1 .. Len(t) - 1
             PROVE  Conv(t[i]) = Conv(t[i + 1]) /\ t[i + 1].at - t[i].at <= Timeout(i)
  BY DEF IsConversation, t
<1>2. CASE i < Len(s)
  <2>1. i \in 1 .. Len(s) - 1 /\ t[i] = s[i] /\ t[i + 1] = s[i + 1]
    BY <1>1, <1>2
  <2> QED BY <2>1 DEF IsConversation
<1>3. CASE i = Len(s)
  <2>1. s # <<>> /\ t[i] = s[Len(s)] /\ t[i + 1] = msg
    BY <1>1, <1>3, EmptySeq
  <2> QED BY <1>3, <2>1
<1> QED BY <1>1, <1>2, <1>3

LEMMA EpisodeForms ==
  /\ \A job \in handed : job \in Episodes
  /\ evicted \in Episodes
  /\ \A c \in Unmarked : c \in Convs /\ sessions[c].messages \in Episodes
BY DEF Episodes, Unmarked

\* A message is pushed that no episode holds; the session that expires is handed
\* to the worker or not.
LEMMA PushKeeps ==
  ASSUME Shapes, OwnSessions, IngestsConversationsOnce, evicted = <<>>, handed' = handed,
         NEW msg \in Messages, ~Heard(Id(msg)),
         sessions' = Pushed(msg), evicted' \in {<<>>, Ended(msg)}
  PROVE  /\ OwnSessions' /\ IngestsConversationsOnce'
         /\ \A id : Heard(id)' => Heard(id) \/ id = Id(msg)
<1> DEFINE c == Conv(msg)
           s == sessions[c]
           old == IF IsExpired(s, msg.at) THEN <<>> ELSE s.messages
<1>1. c \in Convs /\ msg.at \in Times /\ sessions \in [Convs -> SessionRecord]
  BY MessageTyped DEF Shapes
<1>2. s \in SessionRecord /\ s.messages \in Seq(Messages) /\ s.already_ingested \in BOOLEAN
  BY <1>1 DEF SessionRecord
<1>3. /\ \A d \in Convs \ {c} : sessions'[d] = sessions[d]
      /\ sessions'[c].messages = Append(old, msg) /\ sessions'[c].last_active = msg.at
      /\ sessions'[c].already_ingested = (~IsExpired(s, msg.at) /\ s.already_ingested)
      /\ old \in Seq(Messages)
      /\ Ended(msg) = IF IsExpired(s, msg.at) /\ ~s.already_ingested THEN s.messages ELSE <<>>
  BY <1>1, PushEffect
<1>4. Ids(Append(old, msg)) = Ids(old) \cup {Id(msg)}
  BY <1>3, Appended
\* If the session may still be ingested, what it had may be, or was nothing.
<1>5. c \in Unmarked' => old = <<>> \/ (c \in Unmarked /\ old = s.messages /\ ~IsExpired(s, msg.at))
  BY <1>1, <1>2, <1>3 DEF Unmarked
<1>6. evicted' = <<>> \/ (c \in Unmarked /\ evicted' = s.messages /\ old = <<>>)
  BY <1>1, <1>3 DEF Unmarked
<1>7. \A d \in Unmarked' \ {c} : d \in Unmarked /\ d # c /\ sessions'[d] = sessions[d]
  BY <1>3 DEF Unmarked
<1>8. c \in Unmarked => OwnMessages(c)
  BY DEF OwnSessions
<1> HIDE DEF c, old
<1>9. OwnSessions'
  <2> SUFFICES ASSUME NEW d \in Unmarked' PROVE OwnMessages(d)'
    BY DEF OwnSessions
  <2>1. CASE d # c
    BY <1>7, <2>1 DEF OwnSessions, OwnMessages
  <2>2. CASE d = c
    <3> DEFINE new == sessions'[c].messages
    <3>1. /\ Len(new) = Len(old) + 1 /\ Len(old) \in Nat /\ new[Len(old) + 1] = msg
          /\ \A i \in 1 .. Len(old) : new[i] = old[i]
      BY <1>3, Appended
    <3>2. \A i \in 1 .. Len(old) : Conv(old[i]) = c
      BY <1>5, <1>8, <2>2, NoIds DEF OwnMessages
    <3>3. sessions'[c].last_active = new[Len(new)].at
      BY <1>3, <3>1
    <3> HIDE DEF new
    <3>4. ASSUME NEW i \in 1 .. Len(new) PROVE Conv(new[i]) = c
      BY <3>1, <3>2 DEF c
    <3> QED BY <2>2, <3>3, <3>4 DEF OwnMessages, new
  <2> QED BY <2>1, <2>2
<1>10. c \in Unmarked' => IsConversation(sessions'[c].messages)
  <2> SUFFICES ASSUME c \in Unmarked' PROVE IsConversation(Append(old, msg))
    BY <1>3
  <2>1. IsConversation(old)
    BY <1>5, EmptyConversation DEF IngestsConversationsOnce
  <2>2. ASSUME old # <<>>
        PROVE  Conv(old[Len(old)]) = c /\ msg.at - old[Len(old)].at <= Timeout(Len(old))
    <3>1. old = s.messages /\ OwnMessages(c) /\ ~IsExpired(s, msg.at) /\ s.messages # <<>>
      BY <1>5, <1>8, <2>2
    <3>2. Len(old) \in 1 .. Len(old) /\ Len(old) \in Nat
      BY <1>3, <2>2, LenProperties, EmptySeq
    <3>3. Conv(old[Len(old)]) = c /\ s.last_active = old[Len(old)].at
      BY <3>1, <3>2 DEF OwnMessages
    <3>4. ~(msg.at - s.last_active > Timeout(Len(old)))
      BY <3>1 DEF IsExpired
    <3>5. msg.at \in Int /\ s.last_active \in Int /\ Timeout(Len(old)) \in Int
      <4>1. Timeout(Len(old)) \in Nat
        BY <3>2, TimeoutTyped
      <4>2. s.last_active \in Times
        BY <1>2 DEF SessionRecord
      <4> QED BY <1>1, <4>1, <4>2, BoundsAssumption DEF Times
    <3> QED BY <3>3, <3>4, <3>5
  <2> QED BY <1>3, <2>1, <2>2, JoinedConversation DEF c
<1>11. \A msgs \in Episodes' : IsConversation(msgs)
  BY <1>6, <1>7, <1>10, EmptyConversation DEF Episodes, IngestsConversationsOnce
<1>12. \A msgs \in Episodes : Id(msg) \notin Ids(msgs)
  BY DEF Heard
<1>13. IngestedOnce'
  <2>1. ASSUME NEW job \in handed
        PROVE  Apart(job, evicted') /\ \A other \in handed \ {job} : Apart(job, other)
    BY <1>6, EmptyConversation DEF IngestsConversationsOnce, IngestedOnce, Apart
  <2>2. ASSUME NEW d \in Unmarked', NEW done \in handed \cup {evicted'}
        PROVE  Apart(sessions'[d].messages, done)
    <3>1. CASE done = <<>>
      BY <3>1, EmptyConversation
    <3>2. CASE d # c /\ done \in handed
      BY <1>7, <3>2 DEF IngestsConversationsOnce, IngestedOnce
    <3>3. CASE d # c /\ done # <<>> /\ done = evicted'
      <4>1. c \in Unmarked /\ done = s.messages /\ d \in Unmarked /\ sessions'[d] = sessions[d]
        BY <1>6, <1>7, <3>3
      <4>2. Apart(sessions[d].messages, sessions[c].messages)
        BY <3>3, <4>1, OwnMessagesApart DEF OwnSessions, Unmarked
      <4> QED BY <4>1, <4>2 DEF c
    <3>4. CASE d = c /\ done \in handed
      <4>1. Apart(old, done)
        BY <1>5, <3>4, EmptyConversation DEF IngestsConversationsOnce, IngestedOnce
      <4>2. Id(msg) \notin Ids(done)
        BY <1>12, <3>4, EpisodeForms
      <4> QED BY <1>3, <1>4, <3>4, <4>1, <4>2 DEF Apart
    <3>5. CASE d = c /\ done # <<>> /\ done = evicted'
      <4>1. c \in Unmarked /\ done = s.messages /\ old = <<>>
        BY <1>6, <3>5
      <4>2. Id(msg) \notin Ids(done) /\ Ids(old) = {}
        BY <1>12, <4>1, EpisodeForms, NoIds DEF c
      <4> QED BY <1>3, <1>4, <3>5, <4>2 DEF Apart
    <3> QED BY <3>1, <3>2, <3>3, <3>4, <3>5
  <2> QED BY <2>1, <2>2 DEF IngestedOnce
<1>14. ASSUME NEW id, Heard(id)' PROVE Heard(id) \/ id = Id(msg)
  <2>1. PICK msgs \in Episodes' : id \in Ids(msgs)
    BY <1>14 DEF Heard
  <2>2. CASE msgs \in handed
    BY <2>1, <2>2, EpisodeForms DEF Heard
  <2>3. CASE msgs = evicted'
    BY <1>6, <2>1, <2>3, EpisodeForms, NoIds DEF Heard, c
  <2>4. ASSUME NEW d \in Unmarked', msgs = sessions'[d].messages PROVE Heard(id) \/ id = Id(msg)
    <3>1. CASE d # c
      BY <1>7, <2>1, <2>4, <3>1, EpisodeForms DEF Heard
    <3>2. CASE d = c
      <4>1. id \in Ids(old) \/ id = Id(msg)
        BY <1>3, <1>4, <2>1, <2>4, <3>2
      <4>2. id \in Ids(old) => Heard(id)
        BY <1>5, <2>4, <3>2, EpisodeForms, NoIds DEF Heard, c
      <4> QED BY <4>1, <4>2
    <3> QED BY <3>1, <3>2
  <2> QED BY <2>1, <2>2, <2>3, <2>4 DEF Episodes
<1>15. IngestsConversationsOnce'
  BY <1>11, <1>13 DEF IngestsConversationsOnce, Episodes
<1> QED BY <1>9, <1>14, <1>15

\* What step does not touch the episodes.
LEMMA EpisodesUnchanged ==
  ASSUME OwnSessions, IngestsConversationsOnce, UNCHANGED <<sessions, evicted, handed>>
  PROVE  OwnSessions' /\ IngestsConversationsOnce' /\ \A id : Heard(id)' => Heard(id)
<1>1. Unmarked' = Unmarked /\ Episodes' = Episodes
  BY DEF Unmarked, Episodes
<1>2. OwnSessions'
  BY <1>1 DEF OwnSessions, OwnMessages
<1>3. IngestsConversationsOnce'
  BY <1>1 DEF IngestsConversationsOnce, IngestedOnce
<1>4. \A id : Heard(id)' => Heard(id)
  BY <1>1 DEF Heard
<1> QED BY <1>2, <1>3, <1>4

\* A worker that has lost its sessions may ingest none of those it loads.
LEMMA EpisodesHandedOnly ==
  ASSUME OwnSessions, IngestsConversationsOnce, evicted' = <<>>, handed' = handed,
         \A c \in Convs : sessions'[c] = NoSession \/ sessions'[c].already_ingested
  PROVE  OwnSessions' /\ IngestsConversationsOnce' /\ \A id : Heard(id)' => Heard(id)
<1>1. \A c \in Unmarked' : sessions'[c].messages = <<>>
  BY DEF Unmarked, NoSession, Session
<1>2. OwnSessions'
  BY <1>1, NoIds DEF OwnSessions, OwnMessages
<1>3. IngestsConversationsOnce'
  BY <1>1, EmptyConversation DEF IngestsConversationsOnce, IngestedOnce
<1>4. \A id : Heard(id)' => Heard(id)
  BY <1>1, NoIds DEF Heard, Episodes
<1> QED BY <1>2, <1>3, <1>4

\* The ended session that the worker holds is handed over.
LEMMA EvictedHanded ==
  ASSUME OwnSessions, IngestsConversationsOnce, HandOver({evicted}), evicted' = <<>>,
         sessions' = sessions
  PROVE  OwnSessions' /\ IngestsConversationsOnce' /\ \A id : Heard(id)' => Heard(id)
<1>1. handed' \subseteq handed \cup {evicted} /\ Unmarked' = Unmarked
  BY DEF HandOver, Unmarked
<1>2. OwnSessions'
  BY <1>1 DEF OwnSessions, OwnMessages
<1>3. \A msgs \in Episodes' : msgs \in Episodes \/ msgs = <<>>
  BY <1>1 DEF Episodes
<1>4. \A msgs \in Episodes' : IsConversation(msgs)
  BY <1>3, EmptyConversation DEF IngestsConversationsOnce, Episodes
<1>5. IngestedOnce'
  <2>1. \A job \in handed' : Apart(job, evicted')
    BY EmptyConversation
  <2>2. \A job \in handed', other \in handed' : job # other => Apart(job, other)
    BY <1>1 DEF IngestsConversationsOnce, IngestedOnce, Apart
  <2>3. \A c \in Unmarked', done \in handed' \cup {evicted'} : Apart(sessions'[c].messages, done)
    BY <1>1, EmptyConversation DEF IngestsConversationsOnce, IngestedOnce
  <2> QED BY <2>1, <2>2, <2>3 DEF IngestedOnce
<1>6. \A id : Heard(id)' => Heard(id)
  BY <1>3, NoIds DEF Heard
<1> QED BY <1>2, <1>4, <1>5, <1>6 DEF IngestsConversationsOnce, Episodes

\* All sessions that have expired are handed over at once.
LEMMA ExpiredHanded ==
  ASSUME Shapes, OwnSessions, IngestsConversationsOnce, evicted = <<>>, FlushTick
  PROVE  OwnSessions' /\ IngestsConversationsOnce' /\ \A id : Heard(id)' => Heard(id)
<1> DEFINE expired == {c \in Convs : IsExpired(sessions[c], clock)}
           ending == {c \in expired : ~sessions[c].already_ingested}
<1>1. ending \subseteq Unmarked /\ ending \subseteq expired /\ expired \subseteq Convs
  BY DEF Unmarked
<1>2. /\ sessions' = [c \in Convs |-> IF c \in expired THEN NoSession ELSE sessions[c]]
      /\ HandOver({sessions[c].messages : c \in ending}) /\ evicted' = <<>>
  BY DEF FlushTick, workerVars
<1> HIDE DEF expired, ending
<1>3. \A job \in handed' : job \in handed \/ \E c \in ending : job = sessions[c].messages
  BY <1>2 DEF HandOver
<1>4. \A c \in Unmarked' :
        \/ sessions'[c].messages = <<>>
        \/ c \in Unmarked /\ c \notin ending /\ sessions'[c] = sessions[c]
  <2> SUFFICES ASSUME NEW c \in Unmarked', c \notin expired
               PROVE  c \in Unmarked /\ c \notin ending /\ sessions'[c] = sessions[c]
    BY <1>2 DEF NoSession, Session, Unmarked
  <2>1. c \in Convs
    BY DEF Unmarked
  <2> QED BY <1>1, <1>2, <2>1 DEF Unmarked
\* Sessions of different conversations, and what has been ingested, are apart.
<1>5. \A c \in Unmarked, d \in Unmarked : c # d => Apart(sessions[c].messages, sessions[d].messages)
  BY OwnMessagesApart DEF OwnSessions, Unmarked
<1>6. \A c \in Unmarked, job \in handed : Apart(sessions[c].messages, job)
  BY DEF IngestsConversationsOnce, IngestedOnce
<1>7. OwnSessions'
  BY <1>4, NoIds DEF OwnSessions, OwnMessages
<1>8. \A msgs \in Episodes' : msgs \in Episodes \/ msgs = <<>>
  BY <1>1, <1>2, <1>3, <1>4 DEF Episodes
<1>9. \A msgs \in Episodes' : IsConversation(msgs)
  BY <1>8, EmptyConversation DEF IngestsConversationsOnce, Episodes
<1>10. IngestedOnce'
  <2>1. \A job \in handed' : Apart(job, evicted')
    BY <1>2, EmptyConversation
  <2>2. ASSUME NEW job \in handed', NEW other \in handed', job # other PROVE Apart(job, other)
    <3>1. CASE job \in handed /\ other \in handed
      BY <2>2, <3>1 DEF IngestsConversationsOnce, IngestedOnce
    <3>2. CASE job \in handed /\ other \notin handed
      BY <1>1, <1>3, <1>6, <3>2 DEF Apart
    <3>3. CASE job \notin handed /\ other \in handed
      BY <1>1, <1>3, <1>6, <3>3
    <3>4. CASE job \notin handed /\ other \notin handed
      BY <1>1, <1>3, <1>5, <2>2, <3>4
    <3> QED BY <3>1, <3>2, <3>3, <3>4
  <2>3. ASSUME NEW c \in Unmarked', NEW done \in handed' \cup {evicted'}
        PROVE  Apart(sessions'[c].messages, done)
    <3>1. CASE sessions'[c].messages = <<>> \/ done = <<>>
      BY <3>1, EmptyConversation
    <3>2. CASE c \in Unmarked /\ c \notin ending /\ sessions'[c] = sessions[c] /\ done \in handed'
      BY <1>1, <1>3, <1>5, <1>6, <3>2
    <3> QED BY <1>2, <1>4, <3>1, <3>2
  <2> QED BY <2>1, <2>2, <2>3 DEF IngestedOnce
<1>11. \A id : Heard(id)' => Heard(id)
  BY <1>8, NoIds DEF Heard
<1> QED BY <1>7, <1>9, <1>10, <1>11 DEF IngestsConversationsOnce, Episodes

-----------------------------------------------------------------------------
(* Messages yet to be taken *)

\* k messages are taken from the broadcast, or skipped.
LEMMA UnheardKept ==
  ASSUME Shapes, Unheard, Issued \subseteq Issued', NEW k \in Nat, inbox' \in Seq(Messages),
         Len(inbox') + k <= Len(inbox), \A i \in 1 .. Len(inbox') : inbox'[i] = inbox[i + k],
         \A id : Heard(id)' => Heard(id) \/ (k = 1 /\ id = Id(inbox[1]))
  PROVE  Unheard'
<1> PICK n \in Nat : n = Len(inbox)
  BY LenProperties DEF Shapes
<1> PICK n1 \in Nat : n1 = Len(inbox')
  BY LenProperties
<1>1. \A i \in 1 .. n1 : i + k \in 1 .. n /\ i + k \in Nat /\ i \in Nat
  OBVIOUS
<1>2. ASSUME NEW i \in 1 .. n1
      PROVE  /\ Id(inbox'[i]) \in Issued'
             /\ \A j \in 1 .. n1 : Id(inbox'[j]) = Id(inbox'[i]) => i = j
             /\ \A msgs \in Episodes' : Id(inbox'[i]) \notin Ids(msgs)
  <2>1. inbox'[i] = inbox[i + k] /\ Id(inbox[i + k]) \in Issued
    BY <1>1 DEF Unheard
  <2>2. ASSUME NEW j \in 1 .. n1, Id(inbox'[j]) = Id(inbox'[i]) PROVE i = j
    <3>1. Id(inbox[j + k]) = Id(inbox[i + k])
      BY <2>1, <2>2
    <3>2. i + k = j + k
      BY <1>1, <3>1 DEF Unheard
    <3> QED BY <1>1, <3>2
  <2>3. ASSUME NEW id, id = Id(inbox'[i]) PROVE ~Heard(id)'
    <3>1. ~Heard(Id(inbox[i + k]))
      BY <1>1 DEF Unheard, Heard
    <3>2. k = 1 => Id(inbox[i + k]) # Id(inbox[1])
      <4> SUFFICES ASSUME k = 1, Id(inbox[i + k]) = Id(inbox[1]) PROVE FALSE
        OBVIOUS
      <4>1. 1 \in 1 .. n /\ i + k # 1
        BY <1>1
      <4> QED BY <1>1, <4>1 DEF Unheard
    <3> QED BY <2>1, <2>3, <3>1, <3>2
  <2> QED BY <2>1, <2>2, <2>3 DEF Heard
<1>3. \A msgs \in Episodes' : Ids(msgs) \subseteq Issued'
  <2> SUFFICES ASSUME NEW id, Heard(id)' PROVE id \in Issued
    BY DEF Heard
  <2>1. Heard(id) => id \in Issued
    BY DEF Heard, Unheard
  <2>2. CASE k = 1 /\ id = Id(inbox[1])
    <3>1. 1 \in 1 .. n
      BY <2>2
    <3> QED BY <2>2, <3>1 DEF Unheard
  <2> QED BY <2>1, <2>2
<1> QED BY <1>2, <1>3 DEF Unheard

\* A turn makes a message, which nobody has made before, and broadcasts it.
LEMMA UnheardMade ==
  ASSUME Shapes, Unheard, NEW msg \in Messages, Id(msg) \notin Issued,
         Issued' = Issued \cup {Id(msg)}, Broadcast(msg), \A id : Heard(id)' => Heard(id)
  PROVE  Unheard'
<1> PICK n \in Nat : n = Len(inbox)
  BY LenProperties DEF Shapes
<1>1. \A msgs \in Episodes' : Ids(msgs) \subseteq Issued /\ \A i \in 1 .. n : Id(inbox[i]) \notin Ids(msgs)
  BY DEF Heard, Unheard
<1>2. CASE inbox' = inbox
  BY <1>1, <1>2 DEF Unheard
<1>3. CASE inbox' = Append(inbox, msg)
  <2>1. /\ Len(inbox') = n + 1 /\ inbox'[n + 1] = msg
        /\ \A i \in 1 .. n : inbox'[i] = inbox[i]
    BY <1>3, Appended DEF Shapes
  <2>2. ASSUME NEW i \in 1 .. n + 1
        PROVE  /\ Id(inbox'[i]) \in Issued'
               /\ \A msgs \in Episodes' : Id(inbox'[i]) \notin Ids(msgs)
    BY <1>1, <2>1 DEF Unheard
  <2>3. ASSUME NEW i \in 1 .. n + 1, NEW j \in 1 .. n + 1, Id(inbox'[j]) = Id(inbox'[i])
        PROVE  i = j
    <3>1. \A h \in 1 .. n : Id(inbox'[h]) \in Issued /\ Id(inbox'[h]) # Id(inbox'[n + 1])
      BY <2>1 DEF Unheard
    <3>2. CASE i \in 1 .. n /\ j \in 1 .. n
      BY <2>1, <2>3, <3>2 DEF Unheard
    <3> QED BY <2>3, <3>1, <3>2
  <2> QED BY <1>1, <2>1, <2>2, <2>3 DEF Unheard
<1> QED BY <1>2, <1>3 DEF Broadcast

-----------------------------------------------------------------------------
(* The invariant *)

LEMMA InitHolds == Init => IInv
<1> SUFFICES ASSUME Init PROVE IInv
  OBVIOUS
<1> USE DEF Init
<1>1. Shapes
  <2>1. sessions \in [Convs -> SessionRecord]
    BY MessageTyped, NoIds DEF NoSessions, NoSession, Session, SessionRecord
  <2>2. /\ clock \in Times /\ restarts \in 0 .. MaxRestarts /\ Cardinality(running) <= Permits
        /\ Len(queue) <= QueueCapacity /\ IsFiniteSet(rows) /\ IsFiniteSet(running)
    BY MessageTyped, BoundsAssumption, CapacityAssumption, FS_EmptySet, NoIds
  <2> QED BY <2>1, <2>2, NoIds DEF Shapes
<1>2. Stages
  BY DEF Stages
<1>3. \A msgs \in Episodes : msgs = <<>>
  BY DEF Episodes, Unmarked, NoSessions, NoSession, Session
<1>4. Unheard
  BY <1>3, NoIds DEF Unheard
<1>5. OwnSessions
  BY NoIds DEF OwnSessions, OwnMessages, Unmarked, NoSessions, NoSession, Session
<1>6. IngestsConversationsOnce
  <2>1. \A c \in Unmarked : sessions[c].messages = <<>>
    BY DEF Unmarked, NoSessions, NoSession, Session
  <2> QED BY <1>3, <2>1, EmptyConversation DEF IngestsConversationsOnce, IngestedOnce, Episodes
<1> QED BY <1>1, <1>2, <1>4, <1>5, <1>6 DEF IInv, OwnSessions

\* The episodes of a step, and what is then still to be taken.
Kept == OwnSessions' /\ IngestsConversationsOnce' /\ Unheard'

LEMMA StepEpisodes ==
  ASSUME Shapes, Shapes', Stages, OwnSessions, IngestsConversationsOnce, Unheard, [Next]_vars
  PROVE  Kept
<1> USE DEF Kept
<1>1. ASSUME UNCHANGED <<turn, inbox>>, OwnSessions', IngestsConversationsOnce',
             \A id : Heard(id)' => Heard(id)
      PROVE  Kept
  <2>1. Issued' = Issued /\ Len(inbox) \in Nat /\ inbox' \in Seq(Messages)
    BY <1>1, LenProperties DEF Issued, Shapes
  <2>2. Len(inbox') + 0 <= Len(inbox) /\ \A i \in 1 .. Len(inbox') : inbox'[i] = inbox[i + 0]
    BY <1>1, <2>1
  <2> QED BY <1>1, <2>1, <2>2, UnheardKept
<1>2. CASE UNCHANGED <<turn, inbox, sessions, evicted, handed>>
  BY <1>1, <1>2, EpisodesUnchanged
<1>3. CASE Tick
  BY <1>2, <1>3 DEF Tick, workerVars, jobVars
<1>4. CASE Load
  <2>1. UNCHANGED <<turn, inbox, evicted, handed>> /\ evicted = <<>>
    BY <1>4 DEF Load, Stages, jobVars
  <2>2. \A c \in Convs : sessions'[c] = NoSession \/ sessions'[c].already_ingested
    BY <1>4, LoadedSession DEF Load, NoSessions
  <2> QED BY <1>1, <2>1, <2>2, EpisodesHandedOnly
\* The worker takes the first message of the broadcast.
<1>5. ASSUME CanTake, NEW msg \in Messages, Id(msg) = Id(Head(inbox)),
             sessions' = Pushed(msg), evicted' \in {<<>>, Ended(msg)},
             inbox' = Tail(inbox), UNCHANGED <<turn, handed>>
      PROVE  Kept
  <2>1. /\ Head(inbox) = inbox[1] /\ Len(inbox) \in Nat \ {0} /\ Len(Tail(inbox)) = Len(inbox) - 1
        /\ \A i \in 1 .. Len(Tail(inbox)) : Tail(inbox)[i] = inbox[i + 1]
    BY <1>5, HeadAndTail DEF CanTake, Shapes
  <2>2. ~Heard(Id(msg)) /\ evicted = <<>>
    <3>1. 1 \in 1 .. Len(inbox)
      BY <2>1
    <3> QED BY <1>5, <2>1, <3>1 DEF Unheard, Heard, Stages, CanTake
  <2>3. OwnSessions' /\ IngestsConversationsOnce' /\ \A id : Heard(id)' => Heard(id) \/ id = Id(msg)
    BY <1>5, <2>2, PushKeeps
  <2>4. Issued' = Issued /\ inbox' \in Seq(Messages)
    BY <1>5 DEF Issued, Shapes
  <2>5. Len(inbox') + 1 <= Len(inbox) /\ \A i \in 1 .. Len(inbox') : inbox'[i] = inbox[i + 1]
    BY <1>5, <2>1
  <2>6. Unheard'
    BY <1>5, <2>1, <2>3, <2>4, <2>5, UnheardKept
  <2> QED BY <2>3, <2>6
<1>6. CASE TakeMention
  <2>1. Head(inbox) \in Messages
    BY <1>6, HeadAndTail DEF TakeMention, CanTake, Shapes
  <2> QED BY <1>5, <1>6, <2>1 DEF TakeMention, jobVars
<1>7. CASE TakeAnswer
  <2> DEFINE msg == Message(Head(inbox).of, TRUE, clock)
  <2>1. Head(inbox) \in Messages /\ Head(inbox).bot
    BY <1>7, HeadAndTail DEF TakeAnswer, CanTake, Shapes
  <2>2. Head(inbox).of \in Mentions /\ Head(inbox).bot = TRUE
    BY <2>1, MessageTyped
  <2>3. msg \in Messages /\ Id(msg) = <<Head(inbox).of, TRUE>>
    BY <2>2, MessageTyped DEF Shapes
  <2>4. Id(msg) = Id(Head(inbox))
    BY <2>2, <2>3 DEF Id
  <2>5. /\ CanTake /\ sessions' = Pushed(msg) /\ inbox' = Tail(inbox)
        /\ UNCHANGED <<turn, handed, evicted>> /\ evicted = <<>>
    BY <1>7 DEF TakeAnswer, CanTake, Stages, jobVars
  <2> HIDE DEF msg
  <2> QED BY <1>5, <2>3, <2>4, <2>5
<1>8. CASE Lag
  <2> DEFINE k == Len(inbox) - BroadcastCapacity
  <2>1. Len(inbox) \in Nat /\ k \in Nat /\ k >= 1 /\ BroadcastCapacity \in Nat /\ BroadcastCapacity >= 1
    BY <1>8, CapacityAssumption, LenProperties DEF Lag, Shapes
  <2>2. inbox' = SubSeq(inbox, k + 1, Len(inbox)) /\ UNCHANGED <<turn, sessions, evicted, handed>>
    BY <1>8 DEF Lag, workerVars, jobVars
  <2>3. /\ inbox' \in Seq(Messages) /\ Len(inbox') = Len(inbox) - k
        /\ \A i \in 1 .. Len(inbox') : inbox'[i] = inbox[i + k]
    BY <2>1, <2>2, SubSeqProperties DEF Shapes
  <2>4. OwnSessions' /\ IngestsConversationsOnce' /\ \A id : Heard(id)' => Heard(id)
    BY <2>2, EpisodesUnchanged
  <2>5. Issued' = Issued
    BY <2>2 DEF Issued
  <2> HIDE DEF k
  <2>6. Len(inbox') + k <= Len(inbox)
    BY <2>1, <2>3
  <2>7. Unheard'
    BY <2>1, <2>3, <2>4, <2>5, <2>6, UnheardKept
  <2> QED BY <2>4, <2>7
<1>9. CASE Persist
  BY <1>1, <1>9, EvictedHanded DEF Persist
<1>10. CASE FlushTick
  <2>1. evicted = <<>> /\ UNCHANGED <<turn, inbox>>
    BY <1>10 DEF FlushTick, Stages
  <2> QED BY <1>1, <1>10, <2>1, ExpiredHanded
<1>11. CASE Write
  BY <1>2, <1>11 DEF Write, workerVars, jobVars
<1>12. CASE End
  <2>1. OwnSessions' /\ IngestsConversationsOnce' /\ \A id : Heard(id)' => Heard(id)
    BY <1>12, EpisodesHandedOnly DEF End, NoSessions
  <2>2. Issued \subseteq Issued'
    BY <1>12 DEF End, Issued, Shapes
  <2>3. inbox' = <<>> /\ Len(inbox) \in Nat
    BY <1>12, LenProperties DEF End, Shapes
  <2>4. Len(inbox') + 0 <= Len(inbox) /\ inbox' \in Seq(Messages)
        /\ \A i \in 1 .. Len(inbox') : inbox'[i] = inbox[i + 0]
    BY <2>3, NoIds
  <2> QED BY <2>1, <2>2, <2>4, UnheardKept
<1>13. CASE Boot
  BY <1>2, <1>13 DEF Boot, jobVars
<1>14. ASSUME NEW m \in Mentions, Arrive(m) PROVE Kept
  <2> DEFINE msg == Message(m, FALSE, clock)
  <2>1. msg \in Messages /\ Id(msg) = <<m, FALSE>>
    BY MessageTyped DEF Shapes
  <2>2. Id(msg) \notin Issued /\ Issued' = Issued \cup {Id(msg)}
    <3>1. turn[m] = "none" /\ turn' = [turn EXCEPT ![m] = "asking"]
      BY <1>14 DEF Arrive
    <3>2. /\ {n \in Mentions : turn'[n] # "none"} = {n \in Mentions : turn[n] # "none"} \cup {m}
          /\ {n \in Mentions : turn'[n] = "done"} = {n \in Mentions : turn[n] = "done"}
      BY <3>1 DEF Shapes
    <3>3. Issued' = Issued \cup {<<m, FALSE>>}
      BY <3>2 DEF Issued
    <3>4. <<m, FALSE>> \notin Issued
      BY <3>1 DEF Issued
    <3> QED BY <2>1, <3>3, <3>4
  <2>3. OwnSessions' /\ IngestsConversationsOnce' /\ \A id : Heard(id)' => Heard(id)
    BY <1>14, EpisodesUnchanged DEF Arrive, workerVars, jobVars
  <2>4. Broadcast(msg)
    BY <1>14 DEF Arrive
  <2> QED BY <2>1, <2>2, <2>3, <2>4, UnheardMade
<1>15. ASSUME NEW m \in Mentions, ReadHistory(m) PROVE Kept
  <2>1. OwnSessions' /\ IngestsConversationsOnce' /\ \A id : Heard(id)' => Heard(id)
    BY <1>15, EpisodesUnchanged DEF ReadHistory, workerVars, jobVars
  <2>2. Issued' = Issued
    BY <1>15 DEF ReadHistory, Issued, Shapes
  <2>3. inbox' = inbox /\ Len(inbox) \in Nat /\ inbox \in Seq(Messages)
    BY <1>15, LenProperties DEF ReadHistory, Shapes
  <2>4. Len(inbox') + 0 <= Len(inbox) /\ \A i \in 1 .. Len(inbox') : inbox'[i] = inbox[i + 0]
    BY <2>3
  <2> QED BY <2>1, <2>2, <2>3, <2>4, UnheardKept
<1>16. ASSUME NEW m \in Mentions, Complete(m) PROVE Kept
  <2> DEFINE msg == Message(m, TRUE, 0)
  <2>1. msg \in Messages /\ Id(msg) = <<m, TRUE>>
    BY MessageTyped
  <2>2. Id(msg) \notin Issued /\ Issued' = Issued \cup {Id(msg)}
    <3>1. turn[m] = "running" /\ turn' = [turn EXCEPT ![m] = "done"]
      BY <1>16 DEF Complete
    <3>2. /\ {n \in Mentions : turn'[n] # "none"} = {n \in Mentions : turn[n] # "none"}
          /\ {n \in Mentions : turn'[n] = "done"} = {n \in Mentions : turn[n] = "done"} \cup {m}
      BY <3>1 DEF Shapes
    <3>3. Issued' = Issued \cup {<<m, TRUE>>}
      BY <3>2 DEF Issued
    <3>4. <<m, TRUE>> \notin Issued
      BY <3>1 DEF Issued
    <3> QED BY <2>1, <3>3, <3>4
  <2>3. OwnSessions' /\ IngestsConversationsOnce' /\ \A id : Heard(id)' => Heard(id)
    BY <1>16, EpisodesUnchanged DEF Complete, workerVars, jobVars
  <2>4. Broadcast(msg)
    BY <1>16 DEF Complete
  <2> QED BY <2>1, <2>2, <2>3, <2>4, UnheardMade
<1>17. ASSUME NEW job \in Jobs, StartJob(job) \/ EndJob(job) PROVE Kept
  BY <1>2, <1>17 DEF StartJob, EndJob, workerVars
<1>18. CASE UNCHANGED vars
  BY <1>2, <1>18 DEF vars, workerVars, jobVars
<1> QED
  BY <1>3, <1>4, <1>6, <1>7, <1>8, <1>9, <1>10, <1>11, <1>12, <1>13, <1>14, <1>15, <1>16, <1>17,
     <1>18 DEF Next, WorkerStep

LEMMA Invariance == Spec => []IInv
<1>1. IInv /\ [Next]_vars => IInv'
  <2> SUFFICES ASSUME IInv, [Next]_vars PROVE IInv'
    OBVIOUS
  <2>1. Shapes' /\ Stages'
    BY StepTypes, StepStages DEF IInv
  <2>2. OwnSessions' /\ IngestsConversationsOnce' /\ Unheard'
    BY <2>1, StepEpisodes DEF IInv, Kept
  <2> QED BY <2>1, <2>2 DEF IInv
<1> QED BY <1>1, InitHolds, PTL DEF Spec

-----------------------------------------------------------------------------
(* How sessions end *)

LEMMA PrefixSelf == ASSUME NEW s \in Seq(Messages) PROVE IsPrefix(s, s)
BY LenProperties DEF IsPrefix

LEMMA PrefixAppend ==
  ASSUME NEW s \in Seq(Messages), NEW msg \in Messages
  PROVE  IsPrefix(s, Append(s, msg))
<1> DEFINE t == Append(s, msg)
<1>1. /\ t \in Seq(Messages) /\ Len(t) = Len(s) + 1 /\ Len(s) \in Nat
      /\ \A i \in 1 .. Len(s) : t[i] = s[i]
  BY Appended
<1> HIDE DEF t
<1>2. SubSeq(s, 1, Len(s)) = SubSeq(t, 1, Len(s))
  BY <1>1, SubSeqProperties
<1> QED BY <1>1, <1>2 DEF IsPrefix, t

\* What a step leaves out, hands over or lets the worker hold.
Handed(s) ==
  \/ s.already_ingested \/ Len(s.messages) < MinIngest
  \/ s.messages \in waiting' \/ s.messages = evicted' \/ worker' = "turn"

LEMMA StepEndsHanded ==
  ASSUME Shapes, Stages, [Next]_vars, worker' # "down"
  PROVE  /\ \A c \in Convs :
              ~IsPrefix(sessions[c].messages, sessions'[c].messages) => Handed(sessions[c])
         /\ evicted = evicted' \/ Len(evicted) < MinIngest \/ evicted \in waiting'
<1> DEFINE First == \A c \in Convs :
                      ~IsPrefix(sessions[c].messages, sessions'[c].messages) => Handed(sessions[c])
           Second == evicted = evicted' \/ Len(evicted) < MinIngest \/ evicted \in waiting'
<1>1. \A c \in Convs : sessions[c].messages \in Seq(Messages) /\ sessions[c].already_ingested \in BOOLEAN
  BY DEF Shapes, SessionRecord
<1>2. ASSUME sessions' = sessions PROVE First
  BY <1>1, <1>2, PrefixSelf
<1>3. evicted = <<>> => Second
  BY NoIds, TimeoutAssumption
<1>4. CASE UNCHANGED <<sessions, evicted>>
  BY <1>2, <1>4
<1>5. CASE Load
  <2>1. sessions = NoSessions /\ evicted = <<>>
    BY <1>5 DEF Load, Stages
  <2>2. \A c \in Convs : Len(sessions[c].messages) < MinIngest
    BY <2>1, NoIds, TimeoutAssumption DEF NoSessions, NoSession, Session
  <2> QED BY <1>3, <2>1, <2>2 DEF Handed
\* push keeps the session, or ends it: the worker then holds it, if it may.
<1>6. ASSUME NEW msg \in Messages, sessions' = Pushed(msg), evicted = <<>>,
             evicted' = Ended(msg) \/ worker' = "turn"
      PROVE  First /\ Second
  <2> SUFFICES ASSUME NEW c \in Convs, ~IsPrefix(sessions[c].messages, sessions'[c].messages)
               PROVE  Handed(sessions[c])
    BY <1>3, <1>6
  <2>1. c = Conv(msg)
    BY <1>1, <1>6, PrefixSelf, PushEffect DEF Shapes
  <2>2. IsExpired(sessions[c], msg.at)
    BY <1>1, <1>6, <2>1, PrefixAppend, PushEffect DEF Shapes
  <2>3. Ended(msg) = sessions[c].messages \/ sessions[c].already_ingested
    BY <2>1, <2>2 DEF Ended
  <2> QED BY <1>6, <2>3 DEF Handed
<1>7. CASE TakeMention
  <2>1. Head(inbox) \in Messages
    BY <1>7, HeadAndTail DEF TakeMention, CanTake, Shapes
  <2> QED BY <1>6, <1>7, <2>1 DEF TakeMention, CanTake, Stages
<1>8. CASE TakeAnswer
  <2> DEFINE msg == Message(Head(inbox).of, TRUE, clock)
  <2>1. msg \in Messages
    BY <1>8, HeadAndTail, MessageTyped DEF TakeAnswer, CanTake, Shapes
  <2>2. sessions' = Pushed(msg) /\ evicted = <<>> /\ worker' = "turn"
    BY <1>8 DEF TakeAnswer, CanTake, Stages
  <2> HIDE DEF msg
  <2> QED BY <1>6, <2>1, <2>2
<1>9. CASE Persist
  <2>1. Len(evicted) >= MinIngest => evicted \in waiting'
    BY <1>9 DEF Persist, HandOver
  <2>2. Len(evicted) \in Nat
    BY LenProperties DEF Shapes
  <2> QED BY <1>2, <1>9, <2>1, <2>2, TimeoutAssumption DEF Persist
<1>10. CASE FlushTick
  <2>1. evicted = <<>>
    BY <1>10 DEF FlushTick, Stages
  <2> SUFFICES ASSUME NEW c \in Convs, ~IsPrefix(sessions[c].messages, sessions'[c].messages)
               PROVE  Handed(sessions[c])
    BY <1>3, <2>1
  <2>2. IsExpired(sessions[c], clock)
    BY <1>1, <1>10, PrefixSelf DEF FlushTick
  <2>3. \/ sessions[c].already_ingested \/ ~(Len(sessions[c].messages) >= MinIngest)
        \/ sessions[c].messages \in waiting'
    BY <1>10, <2>2 DEF FlushTick, HandOver
  <2>4. Len(sessions[c].messages) \in Nat
    BY <1>1, LenProperties
  <2> QED BY <2>3, <2>4, TimeoutAssumption DEF Handed
<1>11. CASE Tick \/ Lag \/ Write \/ Boot
  BY <1>4, <1>11 DEF Tick, Lag, Write, Boot, workerVars
<1>12. CASE End
  BY <1>12 DEF End
<1>13. ASSUME NEW m \in Mentions, Arrive(m) \/ ReadHistory(m) \/ Complete(m) PROVE First /\ Second
  BY <1>4, <1>13 DEF Arrive, ReadHistory, Complete, workerVars
<1>14. ASSUME NEW job \in Jobs, StartJob(job) \/ EndJob(job) PROVE First /\ Second
  BY <1>4, <1>14 DEF StartJob, EndJob, workerVars
<1>15. CASE UNCHANGED vars
  BY <1>4, <1>15 DEF vars, workerVars
<1> QED
  BY <1>5, <1>7, <1>8, <1>9, <1>10, <1>11, <1>12, <1>13, <1>14, <1>15 DEF Next, WorkerStep

-----------------------------------------------------------------------------
(* The theorems *)

\* The queue and the ingestions keep to their limits, and what is loaded at start
\* are sessions like any other.
THEOREM TypeCorrect == Spec => []TypeOK
<1>1. IInv => TypeOK
  <2> SUFFICES ASSUME Shapes PROVE TypeOK
    BY DEF IInv
  <2>1. /\ \A c \in Convs :
             sessions[c] \in [messages : Seq(Messages), last_active : Times, already_ingested : BOOLEAN]
        /\ \A job \in handed : job \in Seq(Messages)
        /\ Jobs \subseteq handed
    BY DEF Shapes, SessionRecord, Jobs
  <2> QED BY <2>1 DEF Shapes, TypeOK
<1> QED BY <1>1, Invariance, PTL

\* However mentions, answers and silences fall, whatever the worker misses or
\* loses, and however often the agent restarts, each session ingested is one
\* unbroken conversation and no message is in two of them.
THEOREM IngestedWholeAndOnce == Spec => []IngestsConversationsOnce
<1>1. IInv => IngestsConversationsOnce
  BY DEF IInv
<1> QED BY <1>1, Invariance, PTL

\* No session leaves memory unseen: push, the flush on the minute and the worker's
\* hand-over lose none that is long enough, was not loaded at start, and was not
\* ended by the agent's own message.
THEOREM EndedSessionsHanded == Spec => EndsAreHanded
<1>1. IInv /\ [Next]_vars =>
        [worker' # "down" =>
           /\ \A c \in Convs :
                LET s == sessions[c] IN
                ~IsPrefix(s.messages, sessions'[c].messages) =>
                  \/ s.already_ingested \/ Len(s.messages) < MinIngest
                  \/ s.messages \in waiting' \/ s.messages = evicted' \/ worker' = "turn"
           /\ evicted = evicted' \/ Len(evicted) < MinIngest \/ evicted \in waiting']_vars
  BY StepEndsHanded DEF IInv, Handed
<1> QED BY <1>1, Invariance, PTL DEF Spec, EndsAreHanded
=============================================================================
