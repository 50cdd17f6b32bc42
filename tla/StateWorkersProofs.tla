--------------------------- MODULE StateWorkersProofs --------------------------
(***************************************************************************)
(* Theorems about StateWorkers: no source takes a message for new twice    *)
(* within its window, and what is marked has counted or is about to.       *)
(*                                                                         *)
(* OncePerWindow is about all ids ever marked and the code only looks at   *)
(* those it remembers.  The link is Tracks: a source remembers the last    *)
(* EventCacheMax ids it marked, in their order.                            *)
(***************************************************************************)
EXTENDS StateWorkers, SequenceTheorems, FiniteSetTheorems, TLAPS

Busy == {"checking", "marking", "patching", "applying"}
TaskRecord == [id : Ids \cup {NoId}, at : TaskStages]

Shapes ==
  /\ team \in Teams /\ team \subseteq Workers /\ published \in 0 .. MaxEvents
  /\ inbox \in [Listeners -> Seq(Events)] /\ hand \in [Listeners -> Seq(Events)]
  /\ stage \in [Listeners -> Busy \cup {"idle", "stopped"}]
  /\ stage["affect"] \in {"idle", "stopped"}
  /\ cache \in [Sources -> Seq(Ids)]
  /\ marks \in [Sources -> Seq(Ids)] /\ done \in [Sources -> Seq(Ids)]
  /\ tasks \in Seq(TaskRecord)
\* A worker that is busy has an event it marks.
InHand ==
  \A w \in team : stage[w] \in Busy =>
    /\ Len(hand[w]) >= 1 /\ hand[w][1] \in Events
    /\ SourceOf(w, hand[w][1]) # {}
\* The ids c that are remembered are the last ones marked, of m.
Tracks(c, m) ==
  /\ Len(c) <= EventCacheMax /\ Len(c) <= Len(m)
  /\ Len(c) < EventCacheMax => Len(c) = Len(m)
  /\ \A i \in 1 .. Len(c) : c[i] = m[(Len(m) - Len(c)) + i]
Spaced(m) ==
  \A i, j \in DOMAIN m : i < j /\ m[i] = m[j] => j - i > EventCacheMax
Windows == \A s \in Sources : Tracks(cache[s], marks[s]) /\ Spaced(marks[s])

IInv ==
  Shapes /\ InHand /\ Windows /\ MarkedCounts /\ Cardinality(Evaluating) <= Permits

-----------------------------------------------------------------------------
(* The ids remembered *)

LEMMA Appended ==
  ASSUME NEW S, NEW s \in Seq(S), NEW x \in S
  PROVE  /\ Append(s, x) \in Seq(S) /\ Len(Append(s, x)) = Len(s) + 1 /\ Len(s) \in Nat
         /\ \A i \in 1 .. Len(s) : Append(s, x)[i] = s[i]
         /\ Append(s, x)[Len(s) + 1] = x
BY AppendProperties, LenProperties

LEMMA Shortened ==
  ASSUME NEW S, NEW s \in Seq(S), s # <<>>
  PROVE  /\ Tail(s) \in Seq(S) /\ Len(Tail(s)) = Len(s) - 1 /\ Len(s) \in Nat \ {0}
         /\ \A i \in 1 .. Len(s) - 1 : Tail(s)[i] = s[i + 1]
         /\ Head(s) = s[1] /\ Head(s) \in S
BY HeadTailProperties, LenProperties, ElementOfSeq

LEMMA Offset ==
  ASSUME NEW a \in Nat, NEW b \in Nat, b <= a
  PROVE  /\ (a + 1) - (b + 1) = a - b
         /\ \A i, j \in 1 .. b : /\ (a - b) + i \in 1 .. a
                                 /\ ((a - b) + j) - ((a - b) + i) = j - i
                                 /\ i < j => (a - b) + i < (a - b) + j
OBVIOUS

\* An id that is not remembered is that of none of the last EventCacheMax marks.
LEMMA Remembered ==
  ASSUME NEW c \in Seq(Ids), NEW m \in Seq(Ids), NEW id \in Ids,
         Tracks(c, m), Spaced(m), \A i \in 1 .. Len(c) : c[i] # id
  PROVE  /\ Remember(c, id) \in Seq(Ids) /\ Append(m, id) \in Seq(Ids)
         /\ Tracks(Remember(c, id), Append(m, id)) /\ Spaced(Append(m, id))
<1> DEFINE d == Append(c, id)
           n == Append(m, id)
<1>1. /\ d \in Seq(Ids) /\ Len(d) = Len(c) + 1 /\ Len(c) \in Nat
      /\ \A i \in 1 .. Len(c) : d[i] = c[i]
      /\ d[Len(c) + 1] = id
      /\ n \in Seq(Ids) /\ Len(n) = Len(m) + 1 /\ Len(m) \in Nat
      /\ \A i \in 1 .. Len(m) : n[i] = m[i]
      /\ n[Len(m) + 1] = id
      /\ EventCacheMax \in Nat \ {0}
  BY Appended, CacheAssumption
<1> HIDE DEF d, n
<1>2. \A i \in 1 .. Len(d) : d[i] = n[(Len(n) - Len(d)) + i]
  <2>0. Len(n) - Len(d) = Len(m) - Len(c) /\ Len(c) <= Len(m)
    BY <1>1, Offset DEF Tracks
  <2> SUFFICES ASSUME NEW i \in 1 .. Len(d) PROVE d[i] = n[(Len(m) - Len(c)) + i]
    BY <2>0
  <2> DEFINE k == (Len(m) - Len(c)) + i
  <2>1. CASE i = Len(c) + 1
    <3>1. k = Len(m) + 1
      BY <1>1, <2>1
    <3> QED BY <1>1, <2>1, <3>1
  <2>2. CASE i # Len(c) + 1
    <3>1. i \in 1 .. Len(c) /\ k \in 1 .. Len(m)
      BY <1>1, <2>2 DEF Tracks
    <3>2. c[i] = m[k]
      BY <3>1 DEF Tracks
    <3> HIDE DEF k
    <3>3. n[k] = m[k] /\ d[i] = c[i]
      BY <1>1, <3>1
    <3> QED BY <3>2, <3>3 DEF k
  <2> QED BY <2>1, <2>2
<1>4. Spaced(n)
  <2> SUFFICES ASSUME NEW i \in 1 .. Len(m) + 1, NEW j \in 1 .. Len(m) + 1, i < j, n[i] = n[j]
               PROVE  j - i > EventCacheMax
    BY <1>1 DEF Spaced
  <2>1. CASE j # Len(m) + 1
    <3>1. i \in 1 .. Len(m) /\ j \in 1 .. Len(m) /\ DOMAIN m = 1 .. Len(m)
      <4>1. DOMAIN m = 1 .. Len(m)
        BY LenProperties
      <4>2. j <= Len(m) /\ i <= Len(m)
        BY <1>1, <2>1
      <4> QED BY <1>1, <4>1, <4>2
    <3>2. m[i] = m[j]
      BY <1>1, <3>1
    <3> QED BY <3>1, <3>2 DEF Spaced
  <2>2. CASE j = Len(m) + 1
    <3>1. i \in 1 .. Len(m) /\ m[i] = id
      BY <1>1, <2>2
    <3> DEFINE k == i - (Len(m) - Len(c))
    <3>2. k \notin 1 .. Len(c)
      <4> SUFFICES ASSUME k \in 1 .. Len(c) PROVE FALSE
        OBVIOUS
      <4>1. (Len(m) - Len(c)) + k = i
        BY <1>1
      <4> HIDE DEF k
      <4>2. c[k] = m[i]
        BY <4>1 DEF Tracks
      <4> QED BY <3>1, <4>2
    <3>3. i <= Len(m) - Len(c)
      BY <1>1, <3>1, <3>2
    <3>4. Len(c) = EventCacheMax
      BY <1>1, <3>1, <3>3 DEF Tracks
    <3> QED BY <1>1, <2>2, <3>3, <3>4
  <2> QED BY <2>1, <2>2
<1>3. CASE Len(d) > EventCacheMax
  <2>1. Remember(c, id) = Tail(d)
    BY <1>3 DEF Remember, d
  <2>2. d # <<>>
    BY <1>1
  <2>3. /\ Tail(d) \in Seq(Ids) /\ Len(Tail(d)) = Len(d) - 1
        /\ \A i \in 1 .. Len(d) - 1 : Tail(d)[i] = d[i + 1]
    BY <1>1, <2>2, Shortened
  <2> DEFINE t == Tail(d)
  <2> HIDE DEF t
  <2>4. Len(t) = EventCacheMax /\ Len(t) = Len(c) /\ Len(t) <= Len(n)
    BY <1>1, <1>3, <2>3 DEF Tracks, t
  <2>5. ASSUME NEW i \in 1 .. Len(t) PROVE t[i] = n[(Len(n) - Len(t)) + i]
    <3>1. i + 1 \in 1 .. Len(d) /\ (Len(n) - Len(d)) + (i + 1) = (Len(n) - Len(t)) + i
      BY <1>1, <2>4
    <3>2. t[i] = d[i + 1]
      BY <1>1, <2>3, <2>4 DEF t
    <3>3. d[i + 1] = n[(Len(n) - Len(d)) + (i + 1)]
      BY <1>2, <3>1
    <3> QED BY <3>1, <3>2, <3>3
  <2>6. Tracks(t, n)
    BY <1>1, <2>4, <2>5 DEF Tracks
  <2> QED BY <1>1, <2>1, <2>3, <2>6, <1>4 DEF t, n
<1>5. CASE ~(Len(d) > EventCacheMax)
  <2>1. Remember(c, id) = d
    BY <1>5 DEF Remember, d
  <2>2. Len(d) <= EventCacheMax /\ Len(c) = Len(m)
    BY <1>1, <1>5 DEF Tracks
  <2>3. Tracks(d, n)
    BY <1>1, <1>2, <2>2 DEF Tracks
  <2> QED BY <1>1, <1>4, <2>1, <2>3 DEF n
<1> QED BY <1>3, <1>5

\* No id is remembered twice.
LEMMA RememberedOnce ==
  ASSUME NEW c \in Seq(Ids), NEW m \in Seq(Ids), Tracks(c, m), Spaced(m)
  PROVE  IsInjective(c)
<1>1. Len(c) \in Nat /\ Len(m) \in Nat /\ DOMAIN c = 1 .. Len(c) /\ DOMAIN m = 1 .. Len(m)
      /\ EventCacheMax \in Nat
  BY LenProperties, CacheAssumption
<1>2. ASSUME NEW i \in 1 .. Len(c), NEW j \in 1 .. Len(c), c[i] = c[j], i < j PROVE FALSE
  <2> DEFINE o == Len(m) - Len(c)
  <2>1. o + i \in 1 .. Len(m) /\ o + j \in 1 .. Len(m) /\ o + i < o + j
    BY <1>1, <1>2, Offset DEF Tracks
  <2>2. m[o + i] = m[o + j]
    BY <1>2 DEF Tracks
  <2>3. (o + j) - (o + i) > EventCacheMax
    BY <1>1, <2>1, <2>2 DEF Spaced
  <2>4. (o + j) - (o + i) = j - i
    BY <1>1, Offset DEF Tracks
  <2>5. j - i <= EventCacheMax /\ j - i \in Int
    <3>1. Len(c) <= EventCacheMax
      BY DEF Tracks
    <3> QED BY <1>1, <3>1
  <2> HIDE DEF o
  <2> QED BY <1>1, <2>3, <2>4, <2>5
<1>3. \A i, j \in 1 .. Len(c) : c[i] = c[j] => i = j
  BY <1>1, <1>2
<1> QED BY <1>1, <1>3 DEF IsInjective

-----------------------------------------------------------------------------
(* Counting *)

One(p) == IF p THEN 1 ELSE 0

\* An element leaves or stays, enters or does not.
LEMMA Replaced ==
  ASSUME NEW S, IsFiniteSet(S), NEW x, NEW T, T \ {x} = S \ {x}
  PROVE  /\ Cardinality(T) \in Nat /\ Cardinality(S) \in Nat
         /\ Cardinality(T) + One(x \in S) = Cardinality(S) + One(x \in T)
<1> DEFINE R == S \ {x}
<1>1. /\ IsFiniteSet(R) /\ Cardinality(R) \in Nat /\ Cardinality(S) \in Nat
      /\ Cardinality(R) = IF x \in S THEN Cardinality(S) - 1 ELSE Cardinality(S)
  BY FS_RemoveElement, FS_CardinalityType
<1>2. Cardinality(R \cup {x}) = Cardinality(R) + 1
  <2>1. x \notin R
    OBVIOUS
  <2> HIDE DEF R
  <2> QED BY <1>1, <2>1, FS_AddElement
<1>3. T = IF x \in T THEN R \cup {x} ELSE R
  OBVIOUS
<1> HIDE DEF R
<1>4. One(x \in S) = (IF x \in S THEN 1 ELSE 0) /\ One(x \in T) = (IF x \in T THEN 1 ELSE 0)
  BY DEF One
<1>5. CASE x \in T
  <2>1. Cardinality(T) = Cardinality(R) + 1 /\ One(x \in T) = 1
    BY <1>2, <1>3, <1>4, <1>5
  <2> QED BY <1>1, <1>4, <2>1
<1>6. CASE x \notin T
  <2>1. Cardinality(T) = Cardinality(R) /\ One(x \in T) = 0
    BY <1>3, <1>4, <1>6
  <2> QED BY <1>1, <1>4, <2>1
<1> QED BY <1>5, <1>6

\* What is marked counts or is in progress, before as after.
LEMMA Balance ==
  ASSUME NEW m \in Nat, NEW mm \in Nat, NEW d \in Nat, NEW dd \in Nat,
         NEW c \in Nat, NEW cc \in Nat, NEW o \in Nat, NEW oo \in Nat,
         mm + d + o = m + dd + oo, m = d + c, cc + o = c + oo
  PROVE  mm = dd + cc
OBVIOUS

LEMMA Recounted ==
  ASSUME NEW S, IsFiniteSet(S), NEW x, NEW T, T \ {x} = S \ {x},
         NEW m \in Nat, NEW mm \in Nat, NEW d \in Nat, NEW dd \in Nat,
         mm + d + One(x \in S) = m + dd + One(x \in T), m = d + Cardinality(S)
  PROVE  mm = dd + Cardinality(T)
<1>1. /\ Cardinality(T) \in Nat /\ Cardinality(S) \in Nat
      /\ Cardinality(T) + One(x \in S) = Cardinality(S) + One(x \in T)
  BY Replaced
<1>2. One(x \in S) \in Nat /\ One(x \in T) \in Nat
  BY DEF One
<1>3. PICK c \in Nat, cc \in Nat, o \in Nat, oo \in Nat :
        c = Cardinality(S) /\ cc = Cardinality(T) /\ o = One(x \in S) /\ oo = One(x \in T)
  BY <1>1, <1>2
<1>4. mm + d + o = m + dd + oo /\ m = d + c /\ cc + o = c + oo
  BY <1>1, <1>2, <1>3
<1>5. mm = dd + cc
  BY <1>4, Balance
<1> QED BY <1>3, <1>5

LEMMA WorkersFinite == IsFiniteSet(Workers)
<1>1. IsFiniteSet({"command"})
  BY FS_Singleton
<1>2. IsFiniteSet({"command", "user"})
  <2>1. {"command", "user"} = {"command"} \cup {"user"}
    OBVIOUS
  <2> QED BY <1>1, <2>1, FS_AddElement
<1>3. IsFiniteSet({"command", "user", "goal"})
  <2>1. {"command", "user", "goal"} = {"command", "user"} \cup {"goal"}
    OBVIOUS
  <2> QED BY <1>2, <2>1, FS_AddElement
<1>4. IsFiniteSet({"command", "user", "goal", "environment"})
  <2>1. {"command", "user", "goal", "environment"} = {"command", "user", "goal"} \cup {"environment"}
    OBVIOUS
  <2> QED BY <1>3, <2>1, FS_AddElement
<1>5. Workers = {"command", "user", "goal", "environment"} \cup {"intent"}
  BY DEF Workers
<1> QED BY <1>4, <1>5, FS_AddElement

LEMMA TasksFinite ==
  ASSUME Shapes
  PROVE  /\ DOMAIN tasks = 1 .. Len(tasks) /\ Len(tasks) \in Nat /\ IsFiniteSet(DOMAIN tasks)
         /\ IsFiniteSet(Evaluating) /\ Cardinality(Evaluating) \in Nat
<1>1. DOMAIN tasks = 1 .. Len(tasks) /\ Len(tasks) \in Nat /\ IsFiniteSet(DOMAIN tasks)
  BY LenProperties, FS_Interval DEF Shapes
<1>2. Evaluating \subseteq DOMAIN tasks
  BY DEF Evaluating
<1> QED BY <1>1, <1>2, FS_Subset, FS_CardinalityType

LEMMA InProgressFinite ==
  ASSUME Shapes, NEW s \in Sources
  PROVE  IsFiniteSet(InProgress(s)) /\ Cardinality(InProgress(s)) \in Nat
<1>1. InProgress(s) \subseteq DOMAIN tasks \/ InProgress(s) \subseteq Workers
  BY DEF InProgress, Shapes
<1> QED BY <1>1, TasksFinite, WorkersFinite, FS_Subset, FS_CardinalityType

\* Worker w has an event of source s to make count.
Counting(w, s) ==
  /\ stage[w] \in {"patching", "applying"} /\ hand[w][1].id # NoId /\ Source(w) = s

\* What is marked, done, or being made to count by w: a step keeps the balance.
CountStep(w) ==
  \A s \in Sources :
    /\ Len(marks[s]) \in Nat /\ Len(marks'[s]) \in Nat
    /\ Len(done[s]) \in Nat /\ Len(done'[s]) \in Nat
    /\ s = "affect" => marks'[s] = marks[s] /\ done'[s] = done[s]
    /\ s # "affect" => Len(marks'[s]) + Len(done[s]) + One(Counting(w, s))
                         = Len(marks[s]) + Len(done'[s]) + One(Counting(w, s)')

LEMMA WorkerCounted ==
  ASSUME Shapes, MarkedCounts, NEW w \in team,
         UNCHANGED <<team, tasks>>, stage'["affect"] = stage["affect"],
         \A v \in team \ {w} : stage'[v] = stage[v] /\ hand'[v] = hand[v],
         CountStep(w)
  PROVE  MarkedCounts'
<1> SUFFICES ASSUME NEW s \in Sources, s = "affect" => stage'["affect"] # "stopped"
             PROVE  Len(marks'[s]) = Len(done'[s]) + Cardinality(InProgress(s)')
  BY DEF MarkedCounts
<1>1. Len(marks[s]) = Len(done[s]) + Cardinality(InProgress(s))
  BY DEF MarkedCounts
<1>2. CASE s = "affect"
  <2>1. InProgress(s)' = InProgress(s)
    BY <1>2 DEF InProgress
  <2> QED BY <1>1, <1>2, <2>1 DEF CountStep
<1>3. CASE s # "affect"
  <2> DEFINE S == InProgress(s)
             T == InProgress(s)'
  <2>1. (w \in S <=> Counting(w, s)) /\ (w \in T <=> Counting(w, s)')
    BY <1>3 DEF InProgress, Counting
  <2>2. T = {v \in team : Counting(v, s)'} /\ S = {v \in team : Counting(v, s)}
    BY <1>3 DEF InProgress, Counting
  <2>3. \A v \in team \ {w} : Counting(v, s)' <=> Counting(v, s)
    BY DEF Counting, Source
  <2>4. T \ {w} = S \ {w}
    BY <2>2, <2>3
  <2>5. IsFiniteSet(S)
    BY InProgressFinite
  <2>6. /\ Len(marks[s]) \in Nat /\ Len(marks'[s]) \in Nat
        /\ Len(done[s]) \in Nat /\ Len(done'[s]) \in Nat
        /\ Len(marks'[s]) + Len(done[s]) + One(Counting(w, s))
             = Len(marks[s]) + Len(done'[s]) + One(Counting(w, s)')
    BY <1>3 DEF CountStep
  <2>7. One(w \in S) = One(Counting(w, s)) /\ One(w \in T) = One(Counting(w, s)')
    BY <2>1 DEF One
  <2>8. Len(marks[s]) = Len(done[s]) + Cardinality(S)
    BY <1>1
  <2> HIDE DEF S, T
  <2>9. PICK m \in Nat, mm \in Nat, d \in Nat, dd \in Nat :
          m = Len(marks[s]) /\ mm = Len(marks'[s]) /\ d = Len(done[s]) /\ dd = Len(done'[s])
    BY <2>6
  <2>10. mm + d + One(w \in S) = m + dd + One(w \in T) /\ m = d + Cardinality(S)
    BY <2>6, <2>7, <2>8, <2>9
  <2>11. mm = dd + Cardinality(T)
    BY <2>4, <2>5, <2>10, Recounted
  <2> QED BY <2>9, <2>11 DEF T
<1> QED BY <1>2, <1>3

\* Evaluation n has a message to make count.
Applying(n) == tasks[n].at = "applying" /\ tasks[n].id # NoId
TaskCountStep(n) ==
  /\ \A s \in Sources \ {"affect"} : marks'[s] = marks[s] /\ done'[s] = done[s]
  /\ Len(marks["affect"]) \in Nat /\ Len(marks'["affect"]) \in Nat
  /\ Len(done["affect"]) \in Nat /\ Len(done'["affect"]) \in Nat
  /\ Len(marks'["affect"]) + Len(done["affect"]) + One(Applying(n))
       = Len(marks["affect"]) + Len(done'["affect"]) + One(Applying(n)')

LEMMA TaskCounted ==
  ASSUME Shapes, MarkedCounts, NEW n \in DOMAIN tasks,
         UNCHANGED <<team, stage, hand>>, DOMAIN tasks' = DOMAIN tasks,
         \A k \in DOMAIN tasks \ {n} : tasks'[k] = tasks[k],
         TaskCountStep(n)
  PROVE  MarkedCounts'
<1> SUFFICES ASSUME NEW s \in Sources, s = "affect" => stage["affect"] # "stopped"
             PROVE  Len(marks'[s]) = Len(done'[s]) + Cardinality(InProgress(s)')
  BY DEF MarkedCounts
<1>1. Len(marks[s]) = Len(done[s]) + Cardinality(InProgress(s))
  BY DEF MarkedCounts
<1>2. CASE s # "affect"
  <2>1. InProgress(s)' = InProgress(s)
    BY <1>2 DEF InProgress, Source
  <2> QED BY <1>1, <1>2, <2>1 DEF TaskCountStep
<1>3. CASE s = "affect"
  <2> DEFINE S == InProgress(s)
             T == InProgress(s)'
  <2>1. (n \in S <=> Applying(n)) /\ (n \in T <=> Applying(n)')
    BY <1>3 DEF InProgress, Applying
  <2>2. T = {k \in DOMAIN tasks : Applying(k)'} /\ S = {k \in DOMAIN tasks : Applying(k)}
    BY <1>3 DEF InProgress, Applying
  <2>3. \A k \in DOMAIN tasks \ {n} : Applying(k)' <=> Applying(k)
    BY DEF Applying, Source
  <2>4. T \ {n} = S \ {n}
    BY <2>2, <2>3
  <2>5. IsFiniteSet(S)
    BY InProgressFinite
  <2>6. /\ Len(marks[s]) \in Nat /\ Len(marks'[s]) \in Nat
        /\ Len(done[s]) \in Nat /\ Len(done'[s]) \in Nat
        /\ Len(marks'[s]) + Len(done[s]) + One(Applying(n))
             = Len(marks[s]) + Len(done'[s]) + One(Applying(n)')
    BY <1>3 DEF TaskCountStep
  <2>7. One(n \in S) = One(Applying(n)) /\ One(n \in T) = One(Applying(n)')
    BY <2>1 DEF One
  <2>8. Len(marks[s]) = Len(done[s]) + Cardinality(S)
    BY <1>1
  <2> HIDE DEF S, T
  <2>9. PICK m \in Nat, mm \in Nat, d \in Nat, dd \in Nat :
          m = Len(marks[s]) /\ mm = Len(marks'[s]) /\ d = Len(done[s]) /\ dd = Len(done'[s])
    BY <2>6
  <2>10. mm + d + One(n \in S) = m + dd + One(n \in T) /\ m = d + Cardinality(S)
    BY <2>6, <2>7, <2>8, <2>9
  <2>11. mm = dd + Cardinality(T)
    BY <2>4, <2>5, <2>10, Recounted
  <2> QED BY <2>9, <2>11 DEF T
<1> QED BY <1>2, <1>3

-----------------------------------------------------------------------------
(* Marking *)

LEMMA SourcesOfWorker ==
  ASSUME NEW w \in Workers, NEW e \in Events PROVE SourceOf(w, e) \subseteq Sources \ {"affect"}
<1>1. CASE w = "command"
  BY <1>1 DEF SourceOf, CommandSource, Sources
<1>2. CASE w = "user"
  BY <1>2 DEF SourceOf, UserSource, Sources
<1>3. CASE w = "goal"
  BY <1>3 DEF SourceOf, GoalSource, Sources
<1>4. CASE w = "environment"
  BY <1>4 DEF SourceOf, EnvironmentSource, Sources
<1>5. CASE w = "intent"
  BY <1>5 DEF SourceOf, IntentSource, Sources
<1> QED BY <1>1, <1>2, <1>3, <1>4, <1>5 DEF Workers

LEMMA EventIds == \A e \in Events : e.id \in Ids \cup {NoId}
BY EventsAssumption DEF RawEvent, Response, IntentEvent

LEMMA MarkNewKeeps ==
  ASSUME Shapes, Windows, NEW s \in Sources, NEW id \in Ids \cup {NoId}, IsNew(s, id), MarkNew(s, id)
  PROVE  /\ cache' \in [Sources -> Seq(Ids)] /\ marks' \in [Sources -> Seq(Ids)] /\ Windows'
         /\ \A t \in Sources : /\ Len(marks[t]) \in Nat /\ Len(marks'[t]) \in Nat
                               /\ t # s \/ id = NoId => marks'[t] = marks[t]
                               /\ t = s /\ id # NoId => Len(marks'[t]) = Len(marks[t]) + 1
<1>0. \A t \in Sources : /\ cache[t] \in Seq(Ids) /\ marks[t] \in Seq(Ids) /\ Len(marks[t]) \in Nat
                         /\ Tracks(cache[t], marks[t]) /\ Spaced(marks[t])
  BY LenProperties DEF Shapes, Windows
<1>1. CASE id = NoId
  <2>1. cache' = cache /\ marks' = marks
    BY <1>1 DEF MarkNew
  <2> QED BY <1>0, <1>1, <2>1 DEF Windows, Shapes
<1>2. CASE id # NoId
  <2>1. id \in Ids /\ \A i \in 1 .. Len(cache[s]) : cache[s][i] # id
    <3>1. DOMAIN cache[s] = 1 .. Len(cache[s]) /\ id \notin ToSet(cache[s])
      BY <1>0, <1>2, LenProperties DEF IsNew
    <3> QED BY <1>2, <3>1 DEF ToSet
  <2> DEFINE c == Remember(cache[s], id)
             m == Append(marks[s], id)
  <2>2. c \in Seq(Ids) /\ m \in Seq(Ids) /\ Tracks(c, m) /\ Spaced(m)
    BY <1>0, <2>1, Remembered
  <2>3. Len(m) = Len(marks[s]) + 1 /\ Len(m) \in Nat
    BY <1>0, <2>1, Appended
  <2>4. cache' = [cache EXCEPT ![s] = c] /\ marks' = [marks EXCEPT ![s] = m]
    BY <1>2 DEF MarkNew
  <2> HIDE DEF c, m
  <2>5. /\ cache' \in [Sources -> Seq(Ids)] /\ marks' \in [Sources -> Seq(Ids)]
        /\ cache'[s] = c /\ marks'[s] = m
        /\ \A t \in Sources \ {s} : cache'[t] = cache[t] /\ marks'[t] = marks[t]
    BY <2>2, <2>4 DEF Shapes
  <2>6. ASSUME NEW t \in Sources PROVE Tracks(cache'[t], marks'[t]) /\ Spaced(marks'[t])
    <3>1. CASE t = s
      BY <2>2, <2>5, <3>1
    <3>2. CASE t # s
      BY <1>0, <2>5, <3>2
    <3> QED BY <3>1, <3>2
  <2>7. Windows'
    BY <2>6 DEF Windows, Tracks, Spaced
  <2> QED BY <1>0, <1>2, <2>3, <2>5, <2>7
<1> QED BY <1>1, <1>2

LEMMA FinishKeeps ==
  ASSUME Shapes, NEW s \in Sources, NEW id \in Ids \cup {NoId}, Finish(s, id)
  PROVE  /\ done' \in [Sources -> Seq(Ids)]
         /\ \A t \in Sources : /\ Len(done[t]) \in Nat /\ Len(done'[t]) \in Nat
                               /\ t # s \/ id = NoId => done'[t] = done[t]
                               /\ t = s /\ id # NoId => Len(done'[t]) = Len(done[t]) + 1
<1>1. \A t \in Sources : done[t] \in Seq(Ids) /\ Len(done[t]) \in Nat
  BY LenProperties DEF Shapes
<1>2. CASE id = NoId
  BY <1>1, <1>2 DEF Finish, Shapes
<1>3. CASE id # NoId
  <2> DEFINE d == Append(done[s], id)
  <2>1. d \in Seq(Ids) /\ Len(d) = Len(done[s]) + 1 /\ Len(d) \in Nat
    BY <1>1, <1>3, Appended
  <2>2. done' = [done EXCEPT ![s] = d]
    BY <1>3 DEF Finish
  <2> HIDE DEF d
  <2>3. /\ done' \in [Sources -> Seq(Ids)] /\ done'[s] = d
        /\ \A t \in Sources \ {s} : done'[t] = done[t]
    BY <2>1, <2>2 DEF Shapes
  <2> QED BY <1>1, <1>3, <2>1, <2>3
<1> QED BY <1>2, <1>3

\* What a busy worker has in hand, and where it marks it.
LEMMA HandOf ==
  ASSUME Shapes, InHand, NEW w \in Listeners, stage[w] \in Busy
  PROVE  /\ w \in team /\ w \in Workers /\ hand[w][1] \in Events
         /\ hand[w][1].id \in Ids \cup {NoId}
         /\ Source(w) \in Sources \ {"affect"}
<1>1. w \in team /\ w \in Workers
  BY DEF Shapes, Listeners, Busy
<1>2. hand[w][1] \in Events /\ SourceOf(w, hand[w][1]) # {}
  BY <1>1 DEF InHand
<1>3. Source(w) \in SourceOf(w, hand[w][1])
  BY <1>2 DEF Source
<1> QED BY <1>1, <1>2, <1>3, SourcesOfWorker, EventIds

-----------------------------------------------------------------------------
(* The state's workers *)

\* A step of worker w.
LEMMA WorkerMoves ==
  ASSUME IInv, NEW w \in team, UNCHANGED <<team, published, tasks>>,
         inbox' \in [Listeners -> Seq(Events)],
         NEW st \in Busy \cup {"idle"}, stage' = [stage EXCEPT ![w] = st],
         NEW h \in Seq(Events), hand' = [hand EXCEPT ![w] = h],
         st \in Busy => Len(h) >= 1 /\ h[1] \in Events /\ SourceOf(w, h[1]) # {},
         cache' \in [Sources -> Seq(Ids)], marks' \in [Sources -> Seq(Ids)],
         done' \in [Sources -> Seq(Ids)], Windows', CountStep(w)
  PROVE  IInv'
<1>1. /\ Shapes /\ InHand /\ MarkedCounts /\ w \in Workers /\ w # "affect" /\ w \in Listeners
      /\ stage \in [Listeners -> Busy \cup {"idle", "stopped"}] /\ hand \in [Listeners -> Seq(Events)]
      /\ "affect" \in Listeners /\ team \subseteq Listeners
  BY DEF IInv, Shapes, Workers, Listeners
<1>2. /\ Listeners' = Listeners /\ Evaluating' = Evaluating
  BY DEF Listeners, Evaluating
<1>3. /\ stage' \in [Listeners -> Busy \cup {"idle", "stopped"}] /\ hand' \in [Listeners -> Seq(Events)]
      /\ stage'[w] = st /\ hand'[w] = h /\ stage'["affect"] = stage["affect"]
      /\ \A v \in team \ {w} : stage'[v] = stage[v] /\ hand'[v] = hand[v]
  BY <1>1 DEF Busy
<1>4. Shapes'
  BY <1>1, <1>2, <1>3 DEF Shapes
<1>5. InHand'
  BY <1>1, <1>3 DEF InHand
<1>6. MarkedCounts'
  BY <1>1, <1>3, WorkerCounted
<1> QED BY <1>2, <1>4, <1>5, <1>6 DEF IInv

\* A step in which nothing is marked, counts or starts to.
LEMMA QuietCount ==
  ASSUME Shapes, NEW w, UNCHANGED <<marks, done>>,
         stage[w] \notin {"patching", "applying"}, stage'[w] \notin {"patching", "applying"}
  PROVE  CountStep(w)
<1>1. \A s \in Sources : Len(marks[s]) \in Nat /\ Len(done[s]) \in Nat
  BY LenProperties DEF Shapes
<1>2. \A s \in Sources : One(Counting(w, s)) = 0 /\ One(Counting(w, s)') = 0
  BY DEF Counting, One
<1> QED BY <1>1, <1>2 DEF CountStep

LEMMA HeadOfInbox ==
  ASSUME Shapes, NEW w \in Listeners, inbox[w] # <<>>
  PROVE  /\ Head(inbox[w]) \in Events
         /\ [inbox EXCEPT ![w] = Tail(@)] \in [Listeners -> Seq(Events)]
<1>1. inbox[w] \in Seq(Events)
  BY DEF Shapes
<1>2. Head(inbox[w]) \in Events /\ Tail(inbox[w]) \in Seq(Events)
  BY <1>1, Shortened
<1> QED BY <1>2 DEF Shapes

LEMMA TakeKeeps == ASSUME IInv, NEW w \in Listeners, Take(w) PROVE IInv'
<1> DEFINE e == Head(inbox[w])
<1>1. /\ w \in team /\ stage[w] = "idle" /\ inbox[w] # <<>>
      /\ inbox' = [inbox EXCEPT ![w] = Tail(@)]
      /\ UNCHANGED <<team, published, cache, tasks, marks, done>>
      /\ \/ UNCHANGED <<stage, hand>>
         \/ /\ SourceOf(w, e) # {} /\ hand' = [hand EXCEPT ![w] = <<e>>]
            /\ \E st \in {"checking", "marking"} : stage' = [stage EXCEPT ![w] = st]
  BY DEF Take, workerVars, historyVars
<1>2. /\ Shapes /\ Windows /\ Windows' /\ e \in Events /\ inbox' \in [Listeners -> Seq(Events)]
      /\ stage \in [Listeners -> Busy \cup {"idle", "stopped"}] /\ hand \in [Listeners -> Seq(Events)]
      /\ cache \in [Sources -> Seq(Ids)] /\ marks \in [Sources -> Seq(Ids)]
      /\ done \in [Sources -> Seq(Ids)]
  BY <1>1, HeadOfInbox DEF IInv, Shapes, Windows
<1> HIDE DEF e
<1>3. CASE UNCHANGED <<stage, hand>>
  <2>1. /\ stage' = [stage EXCEPT ![w] = "idle"] /\ hand' = [hand EXCEPT ![w] = hand[w]]
        /\ hand[w] \in Seq(Events)
    BY <1>1, <1>2, <1>3
  <2>2. stage'[w] = "idle"
    BY <1>1, <1>3
  <2>3. CountStep(w)
    BY <1>1, <1>2, <2>2, QuietCount
  <2>4. "idle" \notin Busy
    BY DEF Busy
  <2> QED BY <1>1, <1>2, <2>1, <2>3, <2>4, WorkerMoves
<1>4. CASE /\ SourceOf(w, e) # {} /\ hand' = [hand EXCEPT ![w] = <<e>>]
           /\ \E st \in {"checking", "marking"} : stage' = [stage EXCEPT ![w] = st]
  <2>1. PICK st \in {"checking", "marking"} : stage' = [stage EXCEPT ![w] = st]
    BY <1>4
  <2>2. stage'[w] = st /\ st \in Busy
    BY <1>2, <2>1 DEF Busy
  <2>3. CountStep(w)
    BY <1>1, <1>2, <2>2, QuietCount
  <2>4. <<e>> \in Seq(Events) /\ Len(<<e>>) >= 1 /\ <<e>>[1] = e
    BY <1>2
  <2> QED BY <1>1, <1>2, <1>4, <2>1, <2>2, <2>3, <2>4, WorkerMoves
<1> QED BY <1>1, <1>3, <1>4

\* A worker puts an event down, or goes on to mark it.
LEMMA PassKeeps == ASSUME IInv, NEW w \in Listeners, CheckAffect(w) \/ SkipSeen(w) PROVE IInv'
<1>1. /\ stage[w] \in {"checking", "marking"}
      /\ UNCHANGED <<team, published, inbox, cache, tasks, marks, done>>
      /\ \/ stage' = [stage EXCEPT ![w] = "idle"] /\ hand' = [hand EXCEPT ![w] = <<>>]
         \/ stage' = [stage EXCEPT ![w] = "marking"] /\ hand' = hand
  BY DEF CheckAffect, SkipSeen, PutDown, busVars, historyVars
<1>2. /\ Shapes /\ InHand /\ Windows' /\ w \in team /\ inbox' \in [Listeners -> Seq(Events)]
      /\ stage \in [Listeners -> Busy \cup {"idle", "stopped"}] /\ hand \in [Listeners -> Seq(Events)]
      /\ cache' \in [Sources -> Seq(Ids)] /\ marks' \in [Sources -> Seq(Ids)]
      /\ done' \in [Sources -> Seq(Ids)]
  BY <1>1, HandOf DEF IInv, Shapes, Windows, Busy
<1>3. CASE stage' = [stage EXCEPT ![w] = "idle"] /\ hand' = [hand EXCEPT ![w] = <<>>]
  <2>1. stage'[w] = "idle" /\ "idle" \notin Busy /\ <<>> \in Seq(Events)
    BY <1>2, <1>3 DEF Busy
  <2>2. CountStep(w)
    BY <1>1, <1>2, <2>1, QuietCount
  <2> QED BY <1>1, <1>2, <1>3, <2>1, <2>2, WorkerMoves
<1>4. CASE stage' = [stage EXCEPT ![w] = "marking"] /\ hand' = hand
  <2>1. stage'[w] = "marking" /\ "marking" \in Busy /\ stage[w] \in Busy
    BY <1>1, <1>2, <1>4 DEF Busy
  <2>2. hand' = [hand EXCEPT ![w] = hand[w]] /\ hand[w] \in Seq(Events)
    BY <1>2, <1>4
  <2>3. Len(hand[w]) >= 1 /\ hand[w][1] \in Events /\ SourceOf(w, hand[w][1]) # {}
    BY <1>2, <2>1 DEF InHand
  <2>4. CountStep(w)
    BY <1>1, <1>2, <2>1, QuietCount
  <2> QED BY <1>1, <1>2, <1>4, <2>1, <2>2, <2>3, <2>4, WorkerMoves
<1> QED BY <1>1, <1>3, <1>4

LEMMA Sums ==
  ASSUME NEW m \in Nat, NEW d \in Nat
  PROVE  (m + 1) + d + 0 = m + d + 1 /\ (m + 1) + d + 0 = m + (d + 1) + 0 /\ m + d + 1 = m + (d + 1) + 0
OBVIOUS

LEMMA MarkKeeps == ASSUME IInv, NEW w \in Listeners, Mark(w) PROVE IInv'
<1> DEFINE id == hand[w][1].id
           src == Source(w)
<1>1. /\ stage[w] = "marking" /\ IsNew(src, id) /\ MarkNew(src, id)
      /\ UNCHANGED <<team, published, inbox, tasks>>
      /\ \/ /\ \E st \in {"patching", "applying"} : stage' = [stage EXCEPT ![w] = st]
            /\ UNCHANGED <<hand, done>>
         \/ /\ stage' = [stage EXCEPT ![w] = "idle"] /\ hand' = [hand EXCEPT ![w] = <<>>]
            /\ Finish(src, id)
  BY DEF Mark, PutDown, busVars
<1>2. /\ Shapes /\ InHand /\ Windows /\ w \in team /\ inbox' \in [Listeners -> Seq(Events)]
      /\ stage \in [Listeners -> Busy \cup {"idle", "stopped"}] /\ hand \in [Listeners -> Seq(Events)]
      /\ hand[w][1] \in Events /\ id \in Ids \cup {NoId} /\ src \in Sources \ {"affect"}
      /\ SourceOf(w, hand[w][1]) # {} /\ Len(hand[w]) >= 1
  <2>1. stage[w] \in Busy /\ Shapes /\ InHand /\ Windows
    BY <1>1 DEF IInv, Busy
  <2>2. w \in team
    BY <2>1, HandOf
  <2> QED BY <1>1, <2>1, <2>2, HandOf DEF InHand, Shapes
<1>3. \A s \in Sources : One(Counting(w, s)) = 0
  BY <1>1 DEF Counting, One
<1> HIDE DEF id
<1>4. /\ cache' \in [Sources -> Seq(Ids)] /\ marks' \in [Sources -> Seq(Ids)] /\ Windows'
      /\ \A t \in Sources : /\ Len(marks[t]) \in Nat /\ Len(marks'[t]) \in Nat
                            /\ t # src \/ id = NoId => marks'[t] = marks[t]
                            /\ t = src /\ id # NoId => Len(marks'[t]) = Len(marks[t]) + 1
  <2> HIDE DEF src
  <2> QED BY <1>1, <1>2, MarkNewKeeps
<1>5. ASSUME NEW st \in {"patching", "applying"}, stage' = [stage EXCEPT ![w] = st],
             UNCHANGED <<hand, done>>
      PROVE  IInv'
  <2>1. stage'[w] = st /\ st \in Busy /\ done' \in [Sources -> Seq(Ids)]
    BY <1>2, <1>5 DEF Shapes, Busy
  <2>2. hand' = [hand EXCEPT ![w] = hand[w]] /\ hand[w] \in Seq(Events)
    BY <1>2, <1>5
  <2>3. Source(w)' = src
    BY <1>5 DEF Source
  <2>4. \A s \in Sources : One(Counting(w, s)') = IF id # NoId /\ s = src THEN 1 ELSE 0
    BY <1>5, <2>1, <2>3 DEF Counting, One, id
  <2>5. \A s \in Sources : Len(done[s]) \in Nat
    BY <1>2, LenProperties DEF Shapes
  <2> HIDE DEF src
  <2>6. CountStep(w)
    <3> SUFFICES ASSUME NEW s \in Sources
                 PROVE  /\ s = "affect" => marks'[s] = marks[s]
                        /\ Len(marks'[s]) + Len(done[s]) + 0
                             = Len(marks[s]) + Len(done[s]) + One(Counting(w, s)')
      BY <1>3, <1>4, <1>5, <2>5 DEF CountStep
    <3>1. CASE id # NoId /\ s = src
      <4>1. Len(marks'[s]) = Len(marks[s]) + 1 /\ One(Counting(w, s)') = 1 /\ s # "affect"
        BY <1>2, <1>4, <2>4, <3>1
      <4>2. Len(marks[s]) \in Nat /\ Len(done[s]) \in Nat
        BY <1>4, <2>5
      <4> QED BY <4>1, <4>2, Sums
    <3>2. CASE ~(id # NoId /\ s = src)
      <4>1. marks'[s] = marks[s] /\ One(Counting(w, s)') = 0
        BY <1>4, <2>4, <3>2
      <4> QED BY <1>4, <2>5, <4>1
    <3> QED BY <3>1, <3>2
  <2> QED BY <1>1, <1>2, <1>4, <1>5, <2>1, <2>2, <2>6, WorkerMoves
<1>6. ASSUME stage' = [stage EXCEPT ![w] = "idle"], hand' = [hand EXCEPT ![w] = <<>>], Finish(src, id)
      PROVE  IInv'
  <2>1. stage'[w] = "idle" /\ "idle" \notin Busy /\ <<>> \in Seq(Events)
    BY <1>2, <1>6 DEF Busy
  <2>2. \A s \in Sources : One(Counting(w, s)') = 0
    BY <2>1 DEF Counting, One
  <2> HIDE DEF src
  <2>3. /\ done' \in [Sources -> Seq(Ids)]
        /\ \A t \in Sources : /\ Len(done[t]) \in Nat /\ Len(done'[t]) \in Nat
                              /\ t # src \/ id = NoId => done'[t] = done[t]
                              /\ t = src /\ id # NoId => Len(done'[t]) = Len(done[t]) + 1
    BY <1>2, <1>6, FinishKeeps
  <2>4. CountStep(w)
    <3> SUFFICES ASSUME NEW s \in Sources
                 PROVE  /\ s = "affect" => marks'[s] = marks[s] /\ done'[s] = done[s]
                        /\ Len(marks'[s]) + Len(done[s]) + 0 = Len(marks[s]) + Len(done'[s]) + 0
      BY <1>3, <1>4, <2>2, <2>3 DEF CountStep
    <3>1. CASE id # NoId /\ s = src
      <4>1. Len(marks'[s]) = Len(marks[s]) + 1 /\ Len(done'[s]) = Len(done[s]) + 1 /\ s # "affect"
        BY <1>2, <1>4, <2>3, <3>1
      <4>2. Len(marks[s]) \in Nat /\ Len(done[s]) \in Nat
        BY <1>4, <2>3
      <4> QED BY <4>1, <4>2, Sums
    <3>2. CASE ~(id # NoId /\ s = src)
      <4>1. marks'[s] = marks[s] /\ done'[s] = done[s]
        BY <1>4, <2>3, <3>2
      <4> QED BY <1>4, <2>3, <4>1
    <3> QED BY <3>1, <3>2
  <2> QED BY <1>1, <1>2, <1>4, <1>6, <2>1, <2>3, <2>4, WorkerMoves
<1> QED BY <1>1, <1>5, <1>6

\* A batch counts: what was in progress is done.
LEMMA ApplyKeeps == ASSUME IInv, NEW w \in Listeners, Apply(w) PROVE IInv'
<1> DEFINE id == hand[w][1].id
           src == Source(w)
<1>1. /\ stage[w] = "applying" /\ UNCHANGED <<team, published, inbox, cache, tasks, marks>>
      /\ stage' = [stage EXCEPT ![w] = "idle"] /\ hand' = [hand EXCEPT ![w] = <<>>]
      /\ Finish(src, id)
  BY DEF Apply, PutDown, busVars
<1>2. /\ Shapes /\ InHand /\ Windows' /\ w \in team /\ inbox' \in [Listeners -> Seq(Events)]
      /\ stage \in [Listeners -> Busy \cup {"idle", "stopped"}]
      /\ hand[w][1] \in Events /\ id \in Ids \cup {NoId} /\ src \in Sources \ {"affect"}
      /\ cache' \in [Sources -> Seq(Ids)] /\ marks' \in [Sources -> Seq(Ids)]
  <2>1. stage[w] \in Busy /\ Shapes /\ InHand /\ Windows
    BY <1>1 DEF IInv, Busy
  <2>2. w \in team
    BY <2>1, HandOf
  <2> QED BY <1>1, <2>1, <2>2, HandOf DEF Windows, Shapes
<1>3. stage'[w] = "idle" /\ "idle" \notin Busy /\ <<>> \in Seq(Events)
  BY <1>1, <1>2 DEF Busy
<1>4. \A s \in Sources : /\ One(Counting(w, s)) = IF id # NoId /\ s = src THEN 1 ELSE 0
                         /\ One(Counting(w, s)') = 0
  BY <1>1, <1>3 DEF Counting, One
<1>5. \A s \in Sources : Len(marks[s]) \in Nat
  BY <1>1, <1>2, LenProperties DEF Shapes
<1> HIDE DEF id, src
<1>6. /\ done' \in [Sources -> Seq(Ids)]
      /\ \A t \in Sources : /\ Len(done[t]) \in Nat /\ Len(done'[t]) \in Nat
                            /\ t # src \/ id = NoId => done'[t] = done[t]
                            /\ t = src /\ id # NoId => Len(done'[t]) = Len(done[t]) + 1
  BY <1>1, <1>2, FinishKeeps
<1>7. CountStep(w)
  <2> SUFFICES ASSUME NEW s \in Sources
               PROVE  /\ s = "affect" => done'[s] = done[s]
                      /\ Len(marks[s]) + Len(done[s]) + One(Counting(w, s))
                           = Len(marks[s]) + Len(done'[s]) + 0
    BY <1>1, <1>4, <1>5, <1>6 DEF CountStep
  <2>1. CASE id # NoId /\ s = src
    <3>1. One(Counting(w, s)) = 1 /\ Len(done'[s]) = Len(done[s]) + 1 /\ s # "affect"
      BY <1>2, <1>4, <1>6, <2>1
    <3>2. Len(marks[s]) \in Nat /\ Len(done[s]) \in Nat
      BY <1>5, <1>6
    <3> QED BY <3>1, <3>2, Sums
  <2>2. CASE ~(id # NoId /\ s = src)
    <3>1. One(Counting(w, s)) = 0 /\ done'[s] = done[s]
      BY <1>4, <1>6, <2>2
    <3> QED BY <1>5, <1>6, <3>1
  <2> QED BY <2>1, <2>2
<1> QED BY <1>1, <1>2, <1>3, <1>6, <1>7, WorkerMoves

-----------------------------------------------------------------------------
(* The affect evaluator *)

LEMMA MoveTyped ==
  ASSUME Shapes, NEW n \in DOMAIN tasks, NEW at \in TaskStages, Move(n, at)
  PROVE  /\ tasks' \in Seq(TaskRecord) /\ DOMAIN tasks' = DOMAIN tasks
         /\ tasks[n].id \in Ids \cup {NoId} /\ tasks[n].at \in TaskStages
         /\ tasks'[n].id = tasks[n].id /\ tasks'[n].at = at
         /\ \A k \in DOMAIN tasks \ {n} : tasks'[k] = tasks[k]
<1>1. tasks \in Seq(TaskRecord) /\ DOMAIN tasks = 1 .. Len(tasks) /\ Len(tasks) \in Nat
  BY TasksFinite DEF Shapes
<1>2. tasks[n] \in TaskRecord
  BY <1>1, ElementOfSeq
<1>3. Task(tasks[n].id, at) \in TaskRecord
  BY <1>2 DEF TaskRecord, Task
<1>4. tasks' = [tasks EXCEPT ![n] = Task(tasks[n].id, at)]
  BY DEF Move
<1>5. tasks' \in Seq(TaskRecord) /\ DOMAIN tasks' = DOMAIN tasks
  BY <1>1, <1>3, <1>4, ExceptSeq
<1>6. tasks'[n] = Task(tasks[n].id, at) /\ \A k \in DOMAIN tasks \ {n} : tasks'[k] = tasks[k]
  BY <1>4
<1> QED BY <1>2, <1>5, <1>6 DEF TaskRecord, Task

\* A step of evaluation n; one that waits may only go on if there is a permit.
LEMMA TaskMoves ==
  ASSUME IInv, NEW n \in DOMAIN tasks, NEW at \in TaskStages \ {"queued"}, Move(n, at),
         UNCHANGED <<team, published, inbox, stage, hand>>,
         tasks[n].at # "over", tasks[n].at = "queued" => Cardinality(Evaluating) < Permits,
         cache' \in [Sources -> Seq(Ids)], marks' \in [Sources -> Seq(Ids)],
         done' \in [Sources -> Seq(Ids)], Windows', TaskCountStep(n)
  PROVE  IInv'
<1>1. /\ Shapes /\ InHand /\ MarkedCounts /\ Cardinality(Evaluating) <= Permits
      /\ Cardinality(Evaluating) \in Nat /\ IsFiniteSet(Evaluating) /\ Permits \in Nat
  BY TasksFinite, BoundsAssumption DEF IInv
<1>2. /\ tasks' \in Seq(TaskRecord) /\ DOMAIN tasks' = DOMAIN tasks /\ tasks'[n].at = at
      /\ \A k \in DOMAIN tasks \ {n} : tasks'[k] = tasks[k]
  BY <1>1, MoveTyped
<1>3. Shapes'
  BY <1>1, <1>2 DEF Shapes, Listeners
<1>4. InHand'
  BY <1>1 DEF InHand
<1>5. MarkedCounts'
  BY <1>1, <1>2, TaskCounted
<1>6. Cardinality(Evaluating') <= Permits
  <2>1. Evaluating' \subseteq Evaluating \cup {n} /\ (tasks[n].at # "queued" => n \in Evaluating)
    BY <1>2 DEF Evaluating
  <2>2. CASE Evaluating' \subseteq Evaluating
    BY <1>1, <2>2, FS_Subset, FS_CardinalityType
  <2>3. CASE tasks[n].at = "queued"
    <3>1. n \notin Evaluating
      BY <2>3 DEF Evaluating
    <3>2. /\ IsFiniteSet(Evaluating \cup {n})
          /\ Cardinality(Evaluating \cup {n}) = Cardinality(Evaluating) + 1
      BY <1>1, <3>1, FS_AddElement
    <3>3. Cardinality(Evaluating') <= Cardinality(Evaluating) + 1 /\ Cardinality(Evaluating') \in Nat
      BY <2>1, <3>2, FS_Subset, FS_CardinalityType
    <3>4. Cardinality(Evaluating) + 1 <= Permits
      BY <1>1, <2>3
    <3> QED BY <1>1, <3>3, <3>4
  <2> QED BY <2>1, <2>2, <2>3
<1> QED BY <1>3, <1>4, <1>5, <1>6 DEF IInv

\* A step in which nothing is marked as evaluated, is applied or starts to be.
LEMMA QuietTask ==
  ASSUME IInv, NEW n \in DOMAIN tasks, NEW at \in {"asking", "marking", "over"}, Move(n, at),
         UNCHANGED <<team, published, inbox, stage, hand, cache, marks, done>>,
         tasks[n].at \notin {"applying", "over"},
         tasks[n].at = "queued" => Cardinality(Evaluating) < Permits
  PROVE  IInv'
<1>1. /\ Shapes /\ at \in TaskStages \ {"queued"} /\ Windows'
      /\ cache' \in [Sources -> Seq(Ids)] /\ marks' \in [Sources -> Seq(Ids)]
      /\ done' \in [Sources -> Seq(Ids)]
  BY DEF IInv, Shapes, Windows, TaskStages
<1>2. tasks'[n].at = at
  BY <1>1, MoveTyped
<1>3. One(Applying(n)) = 0 /\ One(Applying(n)') = 0
  BY <1>2 DEF Applying, One
<1>4. Len(marks["affect"]) \in Nat /\ Len(done["affect"]) \in Nat
  BY <1>1, LenProperties DEF Shapes, Sources
<1>5. TaskCountStep(n)
  BY <1>3, <1>4 DEF TaskCountStep
<1> QED BY <1>1, <1>5, TaskMoves

LEMMA QuietTaskKeeps ==
  ASSUME IInv, NEW n \in 1 .. MaxEvents, Acquire(n) \/ AskFails(n) \/ UpdateGraph(n) \/ Duplicate(n)
  PROVE  IInv'
<1>1. CASE Acquire(n)
  BY <1>1, QuietTask DEF Acquire, Ask, busVars, workerVars
<1>2. CASE AskFails(n)
  BY <1>2, QuietTask DEF AskFails, Return, busVars, workerVars, historyVars
<1>3. CASE UpdateGraph(n)
  BY <1>3, QuietTask DEF UpdateGraph, busVars, workerVars, historyVars
<1>4. CASE Duplicate(n)
  BY <1>4, QuietTask DEF Duplicate, busVars, workerVars, historyVars
<1> QED BY <1>1, <1>2, <1>3, <1>4

LEMMA MarkAffectKeeps == ASSUME IInv, NEW n \in 1 .. MaxEvents, MarkAffect(n) PROVE IInv'
<1> DEFINE id == tasks[n].id
<1>1. /\ n \in DOMAIN tasks /\ tasks[n].at = "marking" /\ IsNew("affect", id)
      /\ MarkNew("affect", id) /\ Move(n, "applying")
      /\ UNCHANGED <<team, published, inbox, stage, hand, done>>
  BY DEF MarkAffect, busVars, workerVars
<1>2. /\ Shapes /\ Windows /\ "applying" \in TaskStages \ {"queued"} /\ "affect" \in Sources
      /\ done' \in [Sources -> Seq(Ids)]
  BY <1>1 DEF IInv, Shapes, TaskStages, Sources
<1>3. id \in Ids \cup {NoId} /\ tasks'[n].id = id /\ tasks'[n].at = "applying"
  BY <1>1, <1>2, MoveTyped
<1>4. One(Applying(n)) = 0 /\ One(Applying(n)') = IF id # NoId THEN 1 ELSE 0
  BY <1>1, <1>3 DEF Applying, One
<1> HIDE DEF id
<1>5. /\ cache' \in [Sources -> Seq(Ids)] /\ marks' \in [Sources -> Seq(Ids)] /\ Windows'
      /\ \A t \in Sources : /\ Len(marks[t]) \in Nat /\ Len(marks'[t]) \in Nat
                            /\ t # "affect" \/ id = NoId => marks'[t] = marks[t]
                            /\ t = "affect" /\ id # NoId => Len(marks'[t]) = Len(marks[t]) + 1
  BY <1>1, <1>2, <1>3, MarkNewKeeps
<1>6. TaskCountStep(n)
  <2>1. Len(marks["affect"]) \in Nat /\ Len(done["affect"]) \in Nat
    BY <1>2, <1>5, LenProperties DEF Shapes
  <2>2. Len(marks'["affect"]) + Len(done["affect"]) + 0
          = Len(marks["affect"]) + Len(done["affect"]) + One(Applying(n)')
    <3>1. CASE id # NoId
      <4>1. Len(marks'["affect"]) = Len(marks["affect"]) + 1 /\ One(Applying(n)') = 1
        BY <1>2, <1>4, <1>5, <3>1
      <4> QED BY <2>1, <4>1, Sums
    <3>2. CASE id = NoId
      BY <1>2, <1>4, <1>5, <3>2
    <3> QED BY <3>1, <3>2
  <2> QED BY <1>1, <1>2, <1>4, <1>5, <2>1, <2>2 DEF TaskCountStep
<1>7. tasks[n].at # "over" /\ tasks[n].at # "queued"
  BY <1>1
<1> QED BY <1>1, <1>2, <1>5, <1>6, <1>7, TaskMoves

LEMMA ApplyAffectKeeps == ASSUME IInv, NEW n \in 1 .. MaxEvents, ApplyAffect(n) PROVE IInv'
<1> DEFINE id == tasks[n].id
<1>1. /\ n \in DOMAIN tasks /\ tasks[n].at = "applying" /\ Finish("affect", id) /\ Move(n, "over")
      /\ UNCHANGED <<team, published, inbox, stage, hand, cache, marks>>
  BY DEF ApplyAffect, busVars, workerVars
<1>2. /\ Shapes /\ Windows' /\ "over" \in TaskStages \ {"queued"} /\ "affect" \in Sources
      /\ cache' \in [Sources -> Seq(Ids)] /\ marks' \in [Sources -> Seq(Ids)]
  BY <1>1 DEF IInv, Shapes, Windows, TaskStages, Sources
<1>3. id \in Ids \cup {NoId} /\ tasks'[n].at = "over"
  BY <1>1, <1>2, MoveTyped
<1>4. One(Applying(n)) = (IF id # NoId THEN 1 ELSE 0) /\ One(Applying(n)') = 0
  BY <1>1, <1>3 DEF Applying, One
<1> HIDE DEF id
<1>5. /\ done' \in [Sources -> Seq(Ids)]
      /\ \A t \in Sources : /\ Len(done[t]) \in Nat /\ Len(done'[t]) \in Nat
                            /\ t # "affect" \/ id = NoId => done'[t] = done[t]
                            /\ t = "affect" /\ id # NoId => Len(done'[t]) = Len(done[t]) + 1
  BY <1>1, <1>2, <1>3, FinishKeeps
<1>6. TaskCountStep(n)
  <2>1. Len(marks["affect"]) \in Nat /\ Len(done["affect"]) \in Nat
    BY <1>2, <1>5, LenProperties DEF Shapes
  <2>2. Len(marks["affect"]) + Len(done["affect"]) + One(Applying(n))
          = Len(marks["affect"]) + Len(done'["affect"]) + 0
    <3>1. CASE id # NoId
      <4>1. Len(done'["affect"]) = Len(done["affect"]) + 1 /\ One(Applying(n)) = 1
        BY <1>2, <1>4, <1>5, <3>1
      <4> QED BY <2>1, <4>1, Sums
    <3>2. CASE id = NoId
      BY <1>2, <1>4, <1>5, <3>2
    <3> QED BY <3>1, <3>2
  <2> QED BY <1>1, <1>2, <1>4, <1>5, <2>1, <2>2 DEF TaskCountStep
<1>7. tasks[n].at # "over" /\ tasks[n].at # "queued"
  BY <1>1
<1> QED BY <1>1, <1>2, <1>5, <1>6, <1>7, TaskMoves

-----------------------------------------------------------------------------
(* Events, shutdown and the invariant *)

LEMMA PublishKeeps == ASSUME IInv, NEW e \in Events, Publish(e) PROVE IInv'
<1> DEFINE after(w) == LET all == Append(inbox[w], e)
                       IN  IF stage[w] = "stopped" THEN <<>>
                           ELSE IF Len(all) > BroadcastCapacity THEN Tail(all) ELSE all
<1>1. /\ published < MaxEvents /\ published' = published + 1
      /\ inbox' = [w \in Listeners |-> after(w)]
      /\ UNCHANGED <<team, stage, hand, cache, tasks, marks, done>>
  BY DEF Publish, workerVars, historyVars
<1>2. ASSUME NEW w \in Listeners PROVE after(w) \in Seq(Events)
  <2> DEFINE all == Append(inbox[w], e)
  <2>1. all \in Seq(Events) /\ all # <<>>
    <3>1. inbox[w] \in Seq(Events)
      BY DEF IInv, Shapes
    <3>2. all \in Seq(Events) /\ Len(all) = Len(inbox[w]) + 1 /\ Len(inbox[w]) \in Nat
      BY <3>1, Appended
    <3> HIDE DEF all
    <3>3. Len(all) # 0
      BY <3>2
    <3> QED BY <3>2, <3>3
  <2> HIDE DEF all
  <2>2. Tail(all) \in Seq(Events) /\ <<>> \in Seq(Events)
    BY <2>1, Shortened
  <2> QED BY <2>1, <2>2 DEF all
<1> HIDE DEF after
<1>3. published' \in 0 .. MaxEvents /\ inbox' \in [Listeners -> Seq(Events)] /\ Listeners' = Listeners
  BY <1>1, <1>2, BoundsAssumption DEF IInv, Shapes, Listeners
<1>4. Shapes' /\ InHand' /\ Windows'
  BY <1>1, <1>3 DEF IInv, Shapes, InHand, Windows
<1>5. Evaluating' = Evaluating /\ \A s \in Sources : InProgress(s)' = InProgress(s)
  BY <1>1 DEF Evaluating, InProgress, Source
<1>6. MarkedCounts'
  BY <1>1, <1>5 DEF IInv, MarkedCounts
<1> QED BY <1>4, <1>5, <1>6 DEF IInv

\* Steps that touch nothing IInv is about.
LEMMA UntouchedKeeps ==
  ASSUME IInv, UNCHANGED <<team, published, inbox, stage, hand, cache, tasks, marks, done>>
  PROVE  IInv'
<1>1. Shapes' /\ InHand' /\ Windows'
  BY DEF IInv, Shapes, InHand, Windows, Listeners
<1>2. Evaluating' = Evaluating /\ \A s \in Sources : InProgress(s)' = InProgress(s)
  BY DEF Evaluating, InProgress, Source
<1>3. MarkedCounts'
  BY <1>2 DEF IInv, MarkedCounts
<1> QED BY <1>1, <1>2, <1>3 DEF IInv

LEMMA TakeAffectKeeps == ASSUME IInv, TakeAffect PROVE IInv'
<1> DEFINE e == Head(inbox["affect"])
           t == Task(e.id, "queued")
<1>1. /\ inbox["affect"] # <<>> /\ inbox' = [inbox EXCEPT !["affect"] = Tail(@)]
      /\ UNCHANGED <<team, published, stage, hand, cache, marks, done>>
      /\ tasks' = tasks \/ tasks' = Append(tasks, t)
  BY DEF TakeAffect, workerVars, historyVars
<1>2. Shapes /\ "affect" \in Listeners
  BY DEF IInv, Listeners
<1>3. e \in Events /\ inbox' \in [Listeners -> Seq(Events)] /\ Listeners' = Listeners
  BY <1>1, <1>2, HeadOfInbox DEF Listeners
<1>4. t \in TaskRecord /\ t.at = "queued"
  BY <1>3, EventIds DEF Task, TaskRecord, TaskStages
<1> HIDE DEF t
\* The new evaluation waits.
<1>5. /\ tasks' \in Seq(TaskRecord) /\ DOMAIN tasks \subseteq DOMAIN tasks'
      /\ \A n \in DOMAIN tasks : tasks'[n] = tasks[n]
      /\ \A n \in DOMAIN tasks' \ DOMAIN tasks : tasks'[n].at = "queued"
  <2>1. CASE tasks' = tasks
    BY <1>2, <2>1 DEF Shapes
  <2>2. CASE tasks' = Append(tasks, t)
    <3>1. tasks \in Seq(TaskRecord) /\ DOMAIN tasks = 1 .. Len(tasks) /\ Len(tasks) \in Nat
      BY <1>2, TasksFinite DEF Shapes
    <3>2. /\ tasks' \in Seq(TaskRecord) /\ Len(tasks') = Len(tasks) + 1
          /\ \A n \in 1 .. Len(tasks) : tasks'[n] = tasks[n]
          /\ tasks'[Len(tasks) + 1] = t
      BY <1>4, <2>2, <3>1, Appended
    <3>3. DOMAIN tasks' = 1 .. Len(tasks) + 1
      BY <3>2, LenProperties
    <3> QED BY <1>4, <3>1, <3>2, <3>3
  <2> QED BY <1>1, <2>1, <2>2
<1>6. Shapes' /\ InHand' /\ Windows'
  BY <1>1, <1>3, <1>5 DEF IInv, Shapes, InHand, Windows
<1>7. Evaluating' = Evaluating /\ \A s \in Sources : InProgress(s)' = InProgress(s)
  BY <1>1, <1>5 DEF Evaluating, InProgress, Source
<1>8. MarkedCounts'
  BY <1>1, <1>7 DEF IInv, MarkedCounts
<1> QED BY <1>6, <1>7, <1>8 DEF IInv

\* The evaluator's abort ends its tasks; a worker has nothing in hand when it stops.
LEMMA StopWorkerKeeps == ASSUME IInv, NEW w \in Listeners, StopWorker(w) PROVE IInv'
<1>1. /\ stage[w] = "idle" /\ stage' = [stage EXCEPT ![w] = "stopped"]
      /\ inbox' = [inbox EXCEPT ![w] = <<>>]
      /\ tasks' = IF w = "affect" THEN [n \in DOMAIN tasks |-> Task(tasks[n].id, "over")] ELSE tasks
      /\ UNCHANGED <<team, published, hand, cache, marks, done>>
  BY DEF StopWorker, historyVars
<1>2. /\ Shapes /\ InHand /\ Listeners' = Listeners /\ "affect" \in Listeners /\ team \subseteq Listeners
      /\ stage \in [Listeners -> Busy \cup {"idle", "stopped"}] /\ "affect" \notin team
  BY <1>1 DEF IInv, Listeners, Shapes, Workers
<1>3. /\ stage' \in [Listeners -> Busy \cup {"idle", "stopped"}] /\ stage'[w] = "stopped"
      /\ \A v \in Listeners \ {w} : stage'[v] = stage[v]
      /\ stage'["affect"] \in {"idle", "stopped"} /\ (w = "affect" => stage'["affect"] = "stopped")
  BY <1>1, <1>2 DEF Shapes
<1>4. /\ tasks' \in Seq(TaskRecord)
      /\ w = "affect" => \A n \in DOMAIN tasks' : tasks'[n].at = "over"
  <2>1. CASE w # "affect"
    BY <1>1, <1>2, <2>1 DEF Shapes
  <2>2. CASE w = "affect"
    <3>1. /\ tasks \in Seq(TaskRecord) /\ DOMAIN tasks = 1 .. Len(tasks) /\ Len(tasks) \in Nat
          /\ \A n \in DOMAIN tasks : tasks[n] \in TaskRecord
      BY <1>2, TasksFinite, ElementOfSeq DEF Shapes
    <3>2. \A n \in DOMAIN tasks : Task(tasks[n].id, "over") \in TaskRecord
      BY <3>1 DEF Task, TaskRecord, TaskStages
    <3>3. tasks' = [n \in 1 .. Len(tasks) |-> Task(tasks[n].id, "over")]
      BY <1>1, <2>2, <3>1
    <3>4. tasks' \in [1 .. Len(tasks) -> TaskRecord]
      BY <3>1, <3>2, <3>3
    <3>5. \A n \in DOMAIN tasks' : tasks'[n].at = "over"
      BY <3>3 DEF Task
    <3> QED BY <3>1, <3>4, <3>5, SeqDef
  <2> QED BY <2>1, <2>2
<1>5. inbox' \in [Listeners -> Seq(Events)]
  <2>1. <<>> \in Seq(Events)
    OBVIOUS
  <2> QED BY <1>1, <1>2, <2>1 DEF Shapes
<1>6. Shapes' /\ Windows'
  BY <1>1, <1>2, <1>3, <1>4, <1>5 DEF IInv, Shapes, Windows
<1>7. InHand'
  BY <1>1, <1>2, <1>3 DEF InHand, Busy
<1>8. CASE w # "affect"
  <2>1. Evaluating' = Evaluating /\ stage'["affect"] = stage["affect"]
    BY <1>1, <1>2, <1>3, <1>8 DEF Evaluating
  <2>2. ASSUME NEW s \in Sources PROVE InProgress(s)' = InProgress(s)
    <3>1. CASE s = "affect"
      BY <1>1, <1>8, <3>1 DEF InProgress
    <3>2. CASE s # "affect"
      <4>1. \A v \in team : /\ stage'[v] \in {"patching", "applying"} <=> stage[v] \in {"patching", "applying"}
                            /\ hand'[v] = hand[v] /\ Source(v)' = Source(v)
        BY <1>1, <1>2, <1>3 DEF Source
      <4> QED BY <1>1, <3>2, <4>1 DEF InProgress
    <3> QED BY <3>1, <3>2
  <2>3. MarkedCounts'
    BY <1>1, <2>1, <2>2 DEF IInv, MarkedCounts
  <2> QED BY <1>6, <1>7, <2>1, <2>3 DEF IInv
<1>9. CASE w = "affect"
  <2>1. Cardinality(Evaluating') <= Permits
    <3>1. Evaluating' = {}
      BY <1>4, <1>9 DEF Evaluating
    <3> QED BY <3>1, FS_EmptySet, BoundsAssumption
  <2>2. ASSUME NEW s \in Sources, s # "affect" PROVE InProgress(s)' = InProgress(s)
    <3>1. \A v \in team : stage'[v] = stage[v] /\ hand'[v] = hand[v] /\ Source(v)' = Source(v)
      BY <1>1, <1>2, <1>3, <1>9 DEF Source
    <3> QED BY <1>1, <2>2, <3>1 DEF InProgress
  <2>3. MarkedCounts'
    BY <1>1, <1>3, <1>9, <2>2 DEF IInv, MarkedCounts
  <2> QED BY <1>6, <1>7, <2>1, <2>3 DEF IInv
<1> QED BY <1>8, <1>9

LEMMA InitHolds == ASSUME Init PROVE IInv
<1>1. Shapes
  <2>1. <<>> \in Seq(Events) /\ <<>> \in Seq(Ids) /\ <<>> \in Seq(TaskRecord)
    OBVIOUS
  <2>2. team \subseteq Workers /\ 0 \in 0 .. MaxEvents /\ "affect" \in Listeners
    BY TeamsAssumption, BoundsAssumption DEF Init, Listeners
  <2> QED BY <2>1, <2>2 DEF Init, Shapes
<1>2. InHand
  BY DEF Init, InHand, Busy, Listeners
<1>3. Windows
  BY CacheAssumption DEF Init, Windows, Tracks, Spaced
<1>4. Evaluating = {} /\ \A s \in Sources : InProgress(s) = {}
  BY DEF Init, Evaluating, InProgress, Listeners
<1>5. Cardinality(Evaluating) <= Permits /\ \A s \in Sources : Cardinality(InProgress(s)) = 0
  BY <1>4, FS_EmptySet, BoundsAssumption
<1>6. MarkedCounts
  BY <1>5 DEF Init, MarkedCounts
<1> QED BY <1>1, <1>2, <1>3, <1>5, <1>6 DEF IInv

LEMMA StepKeeps == ASSUME IInv, [Next]_vars PROVE IInv'
<1>1. CASE UNCHANGED vars
  BY <1>1, UntouchedKeeps DEF vars, busVars, workerVars, historyVars
<1>2. CASE Shutdown \/ \E w \in Listeners : Patch(w)
  BY <1>2, UntouchedKeeps DEF Shutdown, Patch, busVars, workerVars, historyVars
<1>3. CASE \E e \in Events : Publish(e)
  BY <1>3, PublishKeeps
<1>4. CASE \E w \in Listeners : WorkerStep(w) \/ StopWorker(w)
  BY <1>2, <1>4, TakeKeeps, PassKeeps, MarkKeeps, ApplyKeeps, StopWorkerKeeps DEF WorkerStep
<1>5. CASE TakeAffect
  BY <1>5, TakeAffectKeeps
<1>6. CASE \E n \in 1 .. MaxEvents : TaskStep(n)
  BY <1>6, QuietTaskKeeps, MarkAffectKeeps, ApplyAffectKeeps DEF TaskStep
<1> QED BY <1>1, <1>2, <1>3, <1>4, <1>5, <1>6 DEF Next

LEMMA Invariance == Spec => []IInv
BY InitHolds, StepKeeps, PTL DEF Spec

-----------------------------------------------------------------------------
(* The theorems *)

\* Each source remembers no more ids than it may and none of them twice, every
\* worker is in a state of its own, and evaluations keep to the permits.
THEOREM TypeCorrect == Spec => []TypeOK
<1>1. ASSUME IInv PROVE TypeOK
  <2>1. \A s \in Sources : Len(cache[s]) <= EventCacheMax /\ IsInjective(cache[s])
    BY <1>1, RememberedOnce DEF IInv, Shapes, Windows, Tracks
  <2>2. \A n \in DOMAIN tasks : tasks[n].at \in TaskStages
    <3>1. ASSUME NEW n \in DOMAIN tasks PROVE tasks[n] \in TaskRecord
      BY <1>1, TasksFinite, ElementOfSeq DEF IInv, Shapes
    <3> QED BY <3>1 DEF TaskRecord
  <2> QED BY <1>1, <2>1, <2>2 DEF IInv, Shapes, Busy, TypeOK
<1> QED BY <1>1, Invariance, PTL

\* Whatever is delivered twice, whichever workers and evaluations overlap, and
\* however small the cache is, a source takes an id for new again only after
\* EventCacheMax others.
THEOREM NewOncePerWindow == Spec => []OncePerWindow
<1>1. IInv => OncePerWindow
  BY DEF IInv, Windows, Spaced, OncePerWindow
<1> QED BY <1>1, Invariance, PTL

\* No evaluation or worker that gives up, finds a duplicate or waits for the store
\* leaves an id marked that neither has counted nor will.
THEOREM MarksAreCounted == Spec => []MarkedCounts
<1>1. IInv => MarkedCounts
  BY DEF IInv
<1> QED BY <1>1, Invariance, PTL
=============================================================================
