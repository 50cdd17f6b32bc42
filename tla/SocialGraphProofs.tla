---------------------------- MODULE SocialGraphProofs --------------------------
(***************************************************************************)
(* Theorems about SocialGraph, for any users, requests, updates and limits,*)
(* wherever others step between the statements of a query, and whatever    *)
(* the decay does to a metric: an answer called fresh is recent, and the   *)
(* two paths to an answer agree.                                           *)
(*                                                                         *)
(* FreshIsRecent is about answers; IInv traces them back: a tree shows     *)
(* edges of the time it is stamped with (TreeOf), and so does what a query *)
(* has read, although it may have read a value before an update and the    *)
(* time to decay it by after (ReadsNow).                                   *)
(***************************************************************************)
EXTENDS SocialGraph, SequenceTheorems, FiniteSetTheorems, TLAPS

QueryStages == {"idle", "find", "read", "upsert", "written", "graph", "answered", "orphan"}
EvaluatorStages == {"next", "att", "read", "upsert", "written", "ill"}
EdgeRecord == [values : Metrics, last : Times \cup {-1}]

Shapes ==
  /\ clock \in Times
  /\ att \in [Keys -> EdgeRecord] /\ ill \in [Keys -> EdgeRecord]
  /\ \A k \in Keys : att[k].last <= clock /\ ill[k].last <= clock
  /\ root = [k \in Keys |-> root[k]]
  /\ todo \in Seq(Update)
  /\ pc \in [Procs -> QueryStages \cup EvaluatorStages]
  /\ pc[Evaluator] \in EvaluatorStages /\ (pc[Evaluator] # "next" => todo # <<>>)
  /\ asked = [q \in Queries |-> asked[q]]
  /\ \A q \in Queries : pc[q] \in QueryStages /\ (pc[q] # "idle" => asked[q] \in Options)
  /\ first \subseteq Queries
  /\ got \in [Procs -> Seq(Int)] /\ \A p \in Procs : Len(got[p]) <= 12
  /\ made = [p \in Procs |-> made[p]]
  /\ tree = [q \in Queries |-> tree[q]] /\ answer = [q \in Queries |-> answer[q]]

\* The edges under a key that have been there at a time.
EdgesAt(H, kind, k, t) ==
  {h.edge : h \in {g \in H : g.kind = kind /\ g.key = k /\ g.at = t}}
HeldNow ==
  \A k \in Keys : /\ att[k] \in EdgesAt(held, "att", k, clock)
                  /\ ill[k] \in EdgesAt(held, "ill", k, clock)

\* What statement n of a query has read, or would read now.
Seen(read, n, now) == IF n <= Len(read) THEN read[n] ELSE now
\* Each value that a query has read comes from an edge of this moment, whose time
\* is the one that it reads for it or the moment itself.
ReadsOf(read, last, before, edges, now) ==
  \A i \in 1 .. 5 : i + before <= Len(read) =>
    \E e \in edges : e.values[FieldOrder[i]] = read[i + before] /\ last \in {e.last, now}
ReadsNow(p) ==
  /\ ReadsOf(got[p], Seen(got[p], 11, att[Key(p)].last), 0,
             EdgesAt(held, "att", Key(p), clock), clock)
  /\ ReadsOf(got[p], Seen(got[p], 12, ill[Key(p)].last), 5,
             EdgesAt(held, "ill", Key(p), clock), clock)
\* And has its type.
ReadsTyped(p) ==
  /\ \A i \in 1 .. 10 : i <= Len(got[p]) => got[p][i] \in -Unit .. Unit
  /\ \A i \in 11 .. 12 : i <= Len(got[p]) => got[p][i] \in -1 .. clock

IsTree(t, now) ==
  /\ t = Tree(t.name, t.core, t.illusion, t.hint, t.stamp)
  /\ t.name \in Names /\ t.core \in Metrics /\ t.illusion \in Metrics /\ t.hint \in 0 .. Unit
  /\ t.stamp \in 0 .. now
\* A field of a tree is that of an edge of the tree's time, or its decay.
Shown(H, kind, k, t, f, x) ==
  \E e \in EdgesAt(H, kind, k, t) : \E last \in {-1, e.last} : Decayed(e.values[f], last, t) = x
TreeOf(H, now, t, k) ==
  /\ IsTree(t, now) /\ KeyOf[t.name] = k
  /\ \A f \in Fields : /\ Shown(H, "att", k, t.stamp, f, t.core[f])
                       /\ Shown(H, "ill", k, t.stamp, f, t.illusion[f])
Roots == \A k \in Keys : root[k] # NoTree => TreeOf(held, clock, root[k], k)

Proc(p) ==
  /\ pc[p] \in {"read", "graph"} => ReadsNow(p) /\ ReadsTyped(p)
  /\ pc[p] \notin {"read", "graph"} => got[p] = <<>>
  /\ pc[p] \in {"upsert", "written", "orphan"} => TreeOf(held, clock, made[p], Key(p))

\* What FreshIsRecent says of one query.
RecentIn(H, kind, k, t, limit, f) ==
  UNION {{Decayed(h.edge.values[f], last, h.at) : last \in {-1, h.edge.last}} :
           h \in {g \in H : g.kind = kind /\ g.key = k /\ g.at \in (t - limit) .. t}}
Fresh(H, a, o, k) ==
  a # <<>> => (o.limit # NoLimit /\ a.source = "tree_fresh" =>
    IF o.intent = "affect"
    THEN \A f \in Fields : /\ a.body.core[f] \in RecentIn(H, "att", k, a.at, o.limit, f)
                           /\ a.body.illusion[f] \in RecentIn(H, "ill", k, a.at, o.limit, f)
    ELSE /\ \E v \in RecentIn(H, "att", k, a.at, o.limit, "trust") : TrustState(v) = a.body.trust
         /\ \E v \in RecentIn(H, "att", k, a.at, o.limit, "tension") :
              TensionState(v) = a.body.tension)
Query(q) ==
  /\ pc[q] \in {"idle", "find", "orphan"} => tree[q] = NoTree
  /\ tree[q] # NoTree => TreeOf(held, clock, tree[q], Key(q))
  /\ pc[q] # "answered" => answer[q] = <<>>
  /\ Fresh(held, answer[q], asked[q], Key(q))

Local(p) == Proc(p) /\ (p \in Queries => Query(p))
IInv == Shapes /\ HeldNow /\ Roots /\ \A p \in Procs : Local(p)

-----------------------------------------------------------------------------
(* Numbers *)

LEMMA Clamped ==
  ASSUME NEW x \in Int, NEW lo \in Int, NEW hi \in Int, lo <= hi
  PROVE  Clamp(x, lo, hi) \in lo .. hi
BY DEF Clamp

LEMMA MaxOfTwo ==
  ASSUME NEW a \in Int, NEW b \in Int
  PROVE  Max({a, b}) = IF a >= b THEN a ELSE b
<1>1. CASE a >= b
  BY <1>1 DEF Max
<1>2. CASE a < b
  BY <1>2 DEF Max
<1> QED BY <1>1, <1>2

LEMMA NextBreak ==
  ASSUME NEW from \in 0 .. 11
  PROVE  Min({i \in Breaks : i > from}) \in from + 1 .. 12
<1> DEFINE later == {i \in Breaks : i > from}
<1>1. later \subseteq 1 .. 12 /\ 12 \in later
  <2>1. Breaks \subseteq 1 .. 12 /\ 12 \in Breaks
    BY BreaksAssumption
  <2>2. 12 > from
    OBVIOUS
  <2> QED BY <2>1, <2>2
\* The least number is among a few.
<1>2. \E x \in later : \A y \in later : x <= y
  <2> DEFINE lowest(x) == x \in later /\ \A y \in later : x <= y
  <2>1. \A y \in later : y \in {1, 2, 3, 4, 5, 6, 7, 8, 9, 10, 11, 12}
    BY <1>1
  <2> HIDE DEF later
  <2> QED BY <1>1, <2>1
<1>3. Min(later) \in later
  BY <1>2 DEF Min
<1> QED BY <1>1, <1>3

LEMMA EdgesTyped ==
  ASSUME Shapes, NEW k \in Keys
  PROVE  /\ att[k] \in EdgeRecord /\ ill[k] \in EdgeRecord
         /\ \A f \in Fields : /\ att[k].values[f] \in -Unit .. Unit
                              /\ ill[k].values[f] \in -Unit .. Unit
         /\ att[k].last \in -1 .. clock /\ ill[k].last \in -1 .. clock
         /\ clock \in Nat /\ clock <= MaxTime
BY TimeAssumption DEF Shapes, EdgeRecord, Metrics, Times

LEMMA DecayedInRange ==
  ASSUME NEW x \in -Unit .. Unit, NEW now \in 0 .. MaxTime, NEW last \in -1 .. now
  PROVE  Decayed(x, last, now) \in -Unit .. Unit
<1> DEFINE days == IF last < 0 THEN 0 ELSE (now - last) \div Day
<1>1. days \in 0 .. MaxTime
  <2>1. MaxTime \in Nat /\ Day \in Nat /\ Day >= 1
    BY TimeAssumption
  <2>2. CASE last < 0
    BY <2>1, <2>2
  <2>3. CASE last >= 0
    <3>1. now - last \in 0 .. MaxTime
      BY <2>1, <2>3
    <3>2. \A n \in Nat, d \in Nat : d >= 1 => n \div d \in 0 .. n
      OBVIOUS
    <3>3. (now - last) \div Day \in 0 .. now - last
      BY <2>1, <3>1, <3>2
    <3> QED BY <2>1, <2>3, <3>1, <3>3
  <2> QED BY <2>2, <2>3
<1> QED BY <1>1, DecayAssumption DEF Decayed

LEMMA FieldNumbers ==
  /\ \A f \in Fields : \E i \in 1 .. 5 : FieldOrder[i] = f
  /\ \A i \in 1 .. 5 : FieldOrder[i] \in Fields
BY DEF Fields, FieldOrder

LEMMA AbsTyped == \A x \in Int : Abs(x) \in Nat
BY DEF Abs

LEMMA MinOfTwo == ASSUME NEW x \in Int, NEW y \in Int, x <= y PROVE Min({x, y}) = x
<1>1. x \in {x, y} /\ \A z \in {x, y} : z >= x
  OBVIOUS
<1>2. \A z \in {x, y} : (\A u \in {x, y} : u >= z) => z = x
  OBVIOUS
<1> QED BY <1>1, <1>2 DEF Min

LEMMA DepthInRange ==
  ASSUME NEW values \in Metrics, NEW hint \in 0 .. Unit
  PROVE  /\ Depth4(values, hint) \in 0 .. 4 * Unit
         /\ Max({Depth4(values, hint), 4 * hint}) = Depth4(values, hint)
         /\ FallbackDepth4(values, hint) = Depth4(values, hint)
<1>1. \A f \in Fields : values[f] \in Int
  BY DEF Metrics, Unit
<1>2. GraphDepth4(values) \in Nat
  BY <1>1, AbsTyped DEF Fields, GraphDepth4
<1>3. hint \in Nat /\ hint <= 100 /\ Unit = 100 /\ hint \in Int /\ Unit \in Int
  BY DEF Unit
<1>4. PICK g \in Nat : g = GraphDepth4(values)
  BY <1>2
<1>5. Min({hint, Unit}) = hint
  BY <1>3, MinOfTwo
<1>6. Depth4(values, hint) = Clamp(g + 4 * hint, 0, 400)
  BY <1>3, <1>4, <1>5 DEF Depth4
<1>7. Depth4(values, hint) \in 0 .. 400 /\ Depth4(values, hint) >= 4 * hint
  BY <1>3, <1>6 DEF Clamp
<1>8. PICK d \in 0 .. 400 : d = Depth4(values, hint)
  BY <1>7
<1>9. Max({d, 4 * hint}) = d
  <2>1. d \in Int /\ 4 * hint \in Int /\ d >= 4 * hint
    BY <1>3, <1>7, <1>8
  <2> QED BY <2>1, MaxOfTwo
<1>10. FallbackDepth4(values, hint) = d
  <2>1. FallbackDepth4(values, hint) = Min({g + 4 * hint, 400})
    BY <1>3, <1>4 DEF FallbackDepth4
  <2>2. CASE g + 4 * hint <= 400
    BY <1>3, <1>6, <1>8, <2>1, <2>2, MinOfTwo DEF Clamp
  <2>3. CASE g + 4 * hint > 400
    <3>1. Min({400, g + 4 * hint}) = 400
      BY <1>3, <2>3, MinOfTwo
    <3>2. {400, g + 4 * hint} = {g + 4 * hint, 400}
      OBVIOUS
    <3>3. d = 400
      BY <1>3, <1>6, <1>8, <2>3 DEF Clamp
    <3> QED BY <2>1, <3>1, <3>2, <3>3
  <2> QED BY <1>3, <2>2, <2>3
<1> QED BY <1>3, <1>8, <1>9, <1>10

-----------------------------------------------------------------------------
(* Requests and edges *)

LEMMA KeysTyped ==
  ASSUME Shapes, NEW p \in Procs, p = Evaluator \/ pc[p] # "idle", p = Evaluator => pc[p] # "next"
  PROVE  Name(p) \in Names /\ Key(p) \in Keys /\ Hint(p) \in 0 .. Unit
<1>1. CASE p = Evaluator
  <2>1. todo \in Seq(Update) /\ todo # <<>>
    BY <1>1 DEF Shapes
  <2>2. Head(todo) \in Update
    BY <2>1, HeadTailProperties
  <2>3. Head(todo).name \in Names /\ Head(todo).hint \in 0 .. Unit
    BY <2>2 DEF Update
  <2> QED BY <1>1, <2>3, NamesAssumption DEF Key, Name, Hint
<1>2. CASE p # Evaluator
  <2>1. p \in Queries /\ asked[p] \in Options
    BY <1>2 DEF Shapes, Procs
  <2>2. asked[p].name \in Names /\ asked[p].hint \in 0 .. Unit
    BY <2>1 DEF Options
  <2> QED BY <1>2, <2>2, NamesAssumption DEF Key, Name, Hint
<1> QED BY <1>1, <1>2

LEMMA UpdatedTyped ==
  ASSUME Shapes, NEW edge \in EdgeRecord, NEW delta \in [Fields -> Int]
  PROVE  /\ Updated(edge, delta) \in EdgeRecord /\ Updated(edge, delta).last = clock
<1>1. ASSUME NEW f \in Fields
      PROVE  Clamp(edge.values[f] + Clamp(delta[f], -MaxDelta, MaxDelta), -Unit, Unit) \in -Unit .. Unit
  <2>1. edge.values[f] \in Int /\ delta[f] \in Int
    BY DEF EdgeRecord, Metrics, Unit
  <2>2. Clamp(delta[f], -MaxDelta, MaxDelta) \in Int
    BY <2>1 DEF Clamp, MaxDelta
  <2>3. edge.values[f] + Clamp(delta[f], -MaxDelta, MaxDelta) \in Int /\ -Unit \in Int /\ Unit \in Int
        /\ -Unit <= Unit
    BY <2>1, <2>2 DEF Unit
  <2> QED BY <2>3, Clamped
<1>2. clock \in Times
  BY DEF Shapes
<1> QED BY <1>1, <1>2 DEF Updated, Edge, EdgeRecord, Metrics

LEMMA ToolAsks ==
  ASSUME NEW intent \in {"affect", "dialogue"}, NEW input \in ToolInputs
  PROVE  ToolOptions(intent, input) \in Options
<1>1. /\ input.name \in Names /\ input.hint \in Seq(Int) /\ input.limit \in Seq(Int)
      /\ input.force \in Seq(BOOLEAN) /\ input.allow \in Seq(BOOLEAN)
  BY RequestsAssumption DEF ToolInput
<1>2. \A S, x : \A s \in Seq(S) : x \in S => Or(s, x) \in S
  <2> SUFFICES ASSUME NEW S, NEW x \in S, NEW s \in Seq(S), s # <<>> PROVE s[1] \in S
    BY DEF Or
  <2>1. 1 \in 1 .. Len(s)
    BY LenProperties, EmptySeq
  <2> QED BY <2>1, ElementOfSeq
<1>3. Or(input.hint, 0) \in Int
  BY <1>1, <1>2
<1>4. Or(input.force, FALSE) \in BOOLEAN /\ Or(input.allow, TRUE) \in BOOLEAN
  BY <1>1, <1>2
<1>5. Clamp(Or(input.hint, 0), 0, Unit) \in 0 .. Unit
  <2>1. 0 \in Int /\ Unit \in Int /\ 0 <= Unit
    BY DEF Unit
  <2> QED BY <1>3, <2>1, Clamped
<1>6. (IF input.limit = <<>> THEN NoLimit ELSE Max({input.limit[1], 0})) \in Nat \cup {NoLimit}
  <2> SUFFICES ASSUME input.limit # <<>> PROVE Max({input.limit[1], 0}) \in Nat
    OBVIOUS
  <2>1. 1 \in 1 .. Len(input.limit)
    BY <1>1, LenProperties, EmptySeq
  <2>2. input.limit[1] \in Int
    BY <1>1, <2>1, ElementOfSeq
  <2> QED BY <2>2, MaxOfTwo
<1> QED BY <1>1, <1>4, <1>5, <1>6 DEF ToolOptions, Options

LEMMA AgentAsks ==
  ASSUME NEW intent \in {"affect", "dialogue"}, NEW name \in Names, NEW hint \in Hints
  PROVE  OptionsFor(name, intent, hint) \in Options
<1>1. AffectLimit \in Nat /\ DialogueLimit \in Nat /\ hint \in 0 .. Unit
  BY RequestsAssumption, TimeAssumption DEF Times
<1> QED BY <1>1 DEF OptionsFor, Options

\* What a step of a projection reads.
LEMMA ReadEffect ==
  ASSUME Shapes, NEW p \in Procs, ReadNext(p), Key(p) \in Keys
  PROVE  \E from \in 0 .. 11 : \E to \in from + 1 .. 12 :
           /\ from = Len(got[p]) /\ Len(got'[p]) = to /\ got'[p] \in Seq(Int)
           /\ \A i \in 1 .. from : got'[p][i] = got[p][i]
           /\ \A i \in from + 1 .. to : got'[p][i] = Statement(Key(p), i)
           /\ got' = [got EXCEPT ![p] = got'[p]]
<1> DEFINE from == Len(got[p])
           to == Min({i \in Breaks : i > from})
           new == [i \in 1 .. to - from |-> Statement(Key(p), from + i)]
<1>1. got[p] \in Seq(Int) /\ from \in 0 .. 11
  <2>1. got[p] \in Seq(Int)
    BY DEF Shapes
  <2>2. Len(got[p]) \in Nat
    BY <2>1, LenProperties
  <2>3. Len(got[p]) < 12
    BY DEF ReadNext
  <2> HIDE DEF from
  <2>4. from \in Nat /\ from < 12
    BY <2>2, <2>3 DEF from
  <2> QED BY <2>1, <2>4
<1>2. to \in from + 1 .. 12
  BY <1>1, NextBreak
<1>3. \A i \in 1 .. 12 : Statement(Key(p), i) \in Int
  <2> DEFINE key == Key(p)
  <2>0. key \in Keys /\ Shapes
    OBVIOUS
  <2> HIDE DEF key
  <2>1. \A f \in Fields : att[key].values[f] \in Int /\ ill[key].values[f] \in Int
    <3>1. \A f \in Fields : att[key].values[f] \in -Unit .. Unit /\ ill[key].values[f] \in -Unit .. Unit
      BY <2>0, EdgesTyped
    <3>2. -Unit .. Unit \subseteq Int
      BY DEF Unit
    <3> QED BY <3>1, <3>2
  <2>2. att[key].last \in Int /\ ill[key].last \in Int
    BY <2>0, EdgesTyped
  <2>3. \A i \in 6 .. 10 : i - 5 \in 1 .. 5
    OBVIOUS
  <2> QED BY <2>1, <2>2, <2>3, FieldNumbers DEF Statement, key
<1>4. got' = [got EXCEPT ![p] = got[p] \o new]
  BY DEF ReadNext
<1>5. new \in Seq(Int) /\ Len(new) = to - from /\ \A i \in 1 .. to - from : new[i] = Statement(Key(p), from + i)
  <2> HIDE DEF from, to
  <2>1. to - from \in Nat /\ \A i \in 1 .. to - from : from + i \in 1 .. 12
    BY <1>1, <1>2
  <2>2. new \in [1 .. to - from -> Int]
    BY <1>3, <2>1
  <2>3. new \in Seq(Int) /\ DOMAIN new = 1 .. to - from
    BY <2>1, <2>2, SeqDef
  <2> QED BY <2>1, <2>3, LenProperties
<1> HIDE DEF new, from, to
<1>6. /\ got[p] \o new \in Seq(Int) /\ Len(got[p] \o new) = to
      /\ \A i \in 1 .. from : (got[p] \o new)[i] = got[p][i]
      /\ \A i \in from + 1 .. to : (got[p] \o new)[i] = new[i - from]
  BY <1>1, <1>2, <1>5, ConcatProperties DEF from
<1>7. \A i \in from + 1 .. to : new[i - from] = Statement(Key(p), i)
  <2> SUFFICES ASSUME NEW i \in from + 1 .. to PROVE new[i - from] = Statement(Key(p), i)
    OBVIOUS
  <2>1. i - from \in 1 .. to - from /\ from + (i - from) = i
    BY <1>1, <1>2
  <2> QED BY <1>5, <2>1
<1>8. got'[p] = got[p] \o new
  BY <1>4 DEF Shapes
<1> QED BY <1>1, <1>2, <1>4, <1>6, <1>7, <1>8 DEF from

-----------------------------------------------------------------------------
(* Steps of a query, and types *)

\* A query that has a tree, or gives one up, answers or reads.
LEMMA ReceiveEffect ==
  ASSUME Shapes, NEW q \in Queries, NEW t, Receive(q, t) \/ Classify(q, t) \/ WithoutProjection(q)
  PROVE  /\ \E x \in {"answered", "graph", "read"} : pc' = [pc EXCEPT ![q] = x]
         /\ answer' = [r \in Queries |-> IF r = q THEN answer'[q] ELSE answer[r]]
<1>1. Classify(q, t) \/ Classify(q, tree[q]) \/ (UNCHANGED answer /\ \E x \in {"graph", "read"} : pc' = [pc EXCEPT ![q] = x])
  BY DEF Receive, WithoutProjection
<1>2. answer = [r \in Queries |-> answer[r]]
  BY DEF Shapes
<1>3. CASE UNCHANGED answer
  BY <1>1, <1>2, <1>3 DEF Classify, Answer
<1>4. ASSUME NEW source, NEW body, Answer(q, source, body)
      PROVE  /\ pc' = [pc EXCEPT ![q] = "answered"]
             /\ answer' = [r \in Queries |-> IF r = q THEN answer'[q] ELSE answer[r]]
  BY <1>2, <1>4 DEF Answer
<1> QED BY <1>1, <1>3, <1>4 DEF Classify

LEMMA ReceiveFirst ==
  ASSUME NEW q \in Queries, NEW t, Receive(q, t) \/ WithoutProjection(q)
  PROVE  first' \subseteq first
BY DEF Receive, WithoutProjection

LEMMA ProjectingShapes ==
  ASSUME Shapes, NEW p \in Procs, Projecting(p)
  PROVE  Shapes'
<1> USE DEF Shapes
<1>1. pc[p] \in {"read", "upsert", "graph"} /\ (p = Evaluator => pc[p] # "next")
  BY DEF Projecting, ReadNext, Project, Upsert
<1>2. Key(p) \in Keys
  BY <1>1, KeysTyped
<1>3. CASE ReadNext(p)
  <2> PICK from \in 0 .. 11 : \E to \in from + 1 .. 12 :
         Len(got'[p]) = to /\ got'[p] \in Seq(Int) /\ got' = [got EXCEPT ![p] = got'[p]]
    BY <1>2, <1>3, ReadEffect
  <2>1. /\ got'[p] \in Seq(Int) /\ got' = [got EXCEPT ![p] = got'[p]] /\ Len(got'[p]) <= 12
    OBVIOUS
  <2>2. got' \in [Procs -> Seq(Int)] /\ \A r \in Procs : Len(got'[r]) <= 12
    BY <2>1
  <2> QED BY <1>3, <2>2 DEF ReadNext, graphVars
<1>4. CASE Project(p)
  <2>1. got' \in [Procs -> Seq(Int)] /\ \A r \in Procs : Len(got'[r]) <= 12
    BY <1>4 DEF Project
  <2>2. /\ pc' = [pc EXCEPT ![p] = "upsert"] /\ made' = [r \in Procs |-> made'[r]]
    BY <1>4 DEF Project
  <2>3. /\ pc' \in [Procs -> QueryStages \cup EvaluatorStages] /\ pc'[Evaluator] \in EvaluatorStages
        /\ (pc'[Evaluator] # "next" => todo # <<>>)
        /\ \A q \in Queries : pc'[q] \in QueryStages /\ (pc'[q] # "idle" => asked[q] \in Options)
    BY <1>1, <2>2 DEF Procs, QueryStages, EvaluatorStages
  <2> QED BY <1>4, <2>1, <2>2, <2>3 DEF Project, graphVars
<1>5. CASE Upsert(p)
  <2>1. /\ pc' = [pc EXCEPT ![p] = "written"] /\ made' = [r \in Procs |-> made'[r]]
        /\ root' = [k \in Keys |-> root'[k]]
    BY <1>5 DEF Upsert
  <2>2. /\ pc' \in [Procs -> QueryStages \cup EvaluatorStages] /\ pc'[Evaluator] \in EvaluatorStages
        /\ (pc'[Evaluator] # "next" => todo # <<>>)
        /\ \A q \in Queries : pc'[q] \in QueryStages /\ (pc'[q] # "idle" => asked[q] \in Options)
    BY <1>1, <2>1 DEF Procs, QueryStages, EvaluatorStages
  <2> QED BY <1>5, <2>1, <2>2 DEF Upsert, graphVars
<1> QED BY <1>3, <1>4, <1>5 DEF Projecting

\* Where processes may be after one of them has moved.
LEMMA MovedShapes ==
  ASSUME Shapes, NEW p \in Procs, NEW x, pc' = [pc EXCEPT ![p] = x],
         IF p = Evaluator THEN x \in EvaluatorStages ELSE x \in QueryStages
  PROVE  /\ pc' \in [Procs -> QueryStages \cup EvaluatorStages]
         /\ pc'[Evaluator] \in EvaluatorStages /\ \A q \in Queries : pc'[q] \in QueryStages
         /\ pc'[p] = x /\ \A r \in Procs \ {p} : pc'[r] = pc[r]
BY QueriesAssumption DEF Shapes, Procs

LEMMA QueryShapes ==
  ASSUME Shapes, NEW q \in Queries,
         Found(q) \/ NotFound(q) \/ Projected(q) \/ ProjectFails(q) \/ GraphFallback(q)
           \/ DefaultFallback(q) \/ Deliver(q) \/ Cancel(q) \/ OrphanUpsert(q)
           \/ \E o \in Options : pc[q] = "idle" /\ Start(q, o)
  PROVE  Shapes'
<1> DEFINE Calls == /\ asked' = [r \in Queries |-> asked'[r]]
                    /\ \A r \in Queries : pc'[r] # "idle" => asked'[r] \in Options
<1>1. q \in Procs /\ q # Evaluator
  BY QueriesAssumption DEF Procs
<1>2. <<>> \in Seq(Int) /\ Len(<<>>) = 0
  OBVIOUS
\* What such steps leave alone, or change in q's place only.
<1>3. /\ UNCHANGED <<clock, att, ill, todo>>
      /\ got' = got \/ got' = [got EXCEPT ![q] = <<>>]
      /\ made' = made \/ made' = [made EXCEPT ![q] = NoTree]
      /\ root' = root \/ root' = [root EXCEPT ![Key(q)] = Content(q)]
  BY DEF Found, NotFound, Projected, ProjectFails, GraphFallback, DefaultFallback, Deliver, Cancel,
         OrphanUpsert, Start, graphVars, procVars
<1>4. /\ got' \in [Procs -> Seq(Int)] /\ \A p \in Procs : Len(got'[p]) <= 12
      /\ made' = [p \in Procs |-> made'[p]] /\ root' = [k \in Keys |-> root'[k]]
  <2>1. got' \in [Procs -> Seq(Int)] /\ \A p \in Procs : Len(got'[p]) <= 12
    <3>1. CASE got' = got
      BY <3>1 DEF Shapes
    <3>2. CASE got' = [got EXCEPT ![q] = <<>>]
      <4>1. got'[q] = <<>> /\ \A p \in Procs \ {q} : got'[p] = got[p]
        BY <1>1, <3>2 DEF Shapes
      <4> QED BY <1>1, <1>2, <3>2, <4>1 DEF Shapes
    <3> QED BY <1>3, <3>1, <3>2
  <2>2. made' = [p \in Procs |-> made'[p]]
    BY <1>3 DEF Shapes
  <2>3. root' = [k \in Keys |-> root'[k]]
    BY <1>3 DEF Shapes
  <2> QED BY <2>1, <2>2, <2>3
<1>5. ASSUME NEW x \in QueryStages, pc' = [pc EXCEPT ![q] = x], Calls,
             first' \subseteq Queries, tree' = [r \in Queries |-> tree'[r]],
             answer' = [r \in Queries |-> answer'[r]]
      PROVE  Shapes'
  <2>1. /\ pc' \in [Procs -> QueryStages \cup EvaluatorStages]
        /\ pc'[Evaluator] \in EvaluatorStages /\ \A r \in Queries : pc'[r] \in QueryStages
        /\ pc'[Evaluator] = pc[Evaluator]
    BY <1>1, <1>5, MovedShapes DEF Procs
  <2>2. \A k \in Keys : att'[k].last <= clock' /\ ill'[k].last <= clock'
    BY <1>3 DEF Shapes
  <2> QED BY <1>3, <1>4, <1>5, <2>1, <2>2 DEF Shapes
<1>6. ASSUME pc[q] # "idle", UNCHANGED asked, NEW x, pc' = [pc EXCEPT ![q] = x] PROVE Calls
  BY <1>1, <1>6 DEF Shapes, Procs
<1>7. ASSUME Receive(q, tree'[q]) \/ WithoutProjection(q), pc[q] # "idle", UNCHANGED asked,
             tree' = [r \in Queries |-> tree'[r]]
      PROVE  Shapes'
  <2>1. PICK x \in {"answered", "graph", "read"} : pc' = [pc EXCEPT ![q] = x]
    BY <1>7, ReceiveEffect
  <2>2. answer' = [r \in Queries |-> answer'[r]]
    BY <1>7, ReceiveEffect
  <2>3. first' \subseteq Queries /\ x \in QueryStages
    BY <1>7, ReceiveFirst DEF Shapes, QueryStages
  <2> QED BY <1>5, <1>6, <1>7, <2>1, <2>2, <2>3
<1>8. CASE Found(q) \/ Projected(q)
  <2>1. PICK t : Receive(q, t)
    BY <1>8 DEF Found, Projected
  <2>2. tree' = [tree EXCEPT ![q] = t]
    BY <2>1 DEF Receive
  <2>3. tree'[q] = t /\ tree' = [r \in Queries |-> tree'[r]]
    BY <2>2 DEF Shapes
  <2> QED BY <1>7, <1>8, <2>1, <2>3 DEF Found, Projected
<1>9. CASE ProjectFails(q)
  BY <1>7, <1>9 DEF ProjectFails, Shapes
<1>10. CASE NotFound(q)
  BY <1>5, <1>6, <1>10 DEF NotFound, procVars, Shapes, QueryStages
<1>11. CASE GraphFallback(q) \/ DefaultFallback(q)
  <2>1. PICK source, body : Answer(q, source, body)
    BY <1>11 DEF GraphFallback, DefaultFallback
  <2>2. pc' = [pc EXCEPT ![q] = "answered"] /\ answer' = [r \in Queries |-> answer'[r]]
    BY <2>1 DEF Answer, Shapes
  <2>3. pc[q] # "idle" /\ UNCHANGED <<asked, tree, first>>
    BY <1>11 DEF GraphFallback, DefaultFallback
  <2> QED BY <1>5, <1>6, <2>2, <2>3 DEF Shapes, QueryStages
<1>12. CASE Deliver(q) \/ Cancel(q) \/ OrphanUpsert(q)
  <2>1. /\ tree' = [r \in Queries |-> tree'[r]] /\ answer' = [r \in Queries |-> answer'[r]]
        /\ first' \subseteq Queries
    BY <1>12 DEF Deliver, Cancel, OrphanUpsert, Shapes
  <2>2. CASE Idle(q)
    <3>1. pc' = [pc EXCEPT ![q] = "idle"] /\ Calls
      BY <1>1, <2>2 DEF Idle, Shapes, Procs
    <3> QED BY <1>5, <2>1, <3>1 DEF QueryStages
  <2>3. CASE ~Idle(q)
    <3>1. pc' = [pc EXCEPT ![q] = "orphan"] /\ UNCHANGED asked /\ pc[q] # "idle"
      BY <1>12, <2>3 DEF Deliver, Cancel, OrphanUpsert
    <3> QED BY <1>5, <1>6, <2>1, <3>1 DEF QueryStages
  <2> QED BY <2>2, <2>3
<1>13. ASSUME NEW o \in Options, pc[q] = "idle", Start(q, o) PROVE Shapes'
  <2>1. PICK x \in {"read", "find"} : pc' = [pc EXCEPT ![q] = x]
    BY <1>13 DEF Start
  <2>2. Calls /\ first' \subseteq Queries /\ UNCHANGED <<tree, answer>>
    BY <1>1, <1>13, <2>1 DEF Start, Shapes, Procs
  <2> QED BY <1>5, <2>1, <2>2 DEF Shapes, QueryStages
<1> QED BY <1>8, <1>9, <1>10, <1>11, <1>12, <1>13

LEMMA EvaluatorShapes ==
  ASSUME Shapes, Evaluate \/ UpdateFails \/ EvaluatorProjected \/ NoIllusion
                   \/ UpdateSocialGraph \/ UpdateIllusionGraph
  PROVE  Shapes'
<1> DEFINE k == Key(Evaluator)
<1>1. Evaluator \in Procs
  BY DEF Procs
\* One edge at most changes, and its time is now.
<1>2. ASSUME NEW edges \in [Keys -> EdgeRecord], \A i \in Keys : edges[i].last <= clock, k \in Keys,
             NEW delta \in [Fields -> Int]
      PROVE  LET new == [edges EXCEPT ![k] = Updated(@, delta)]
             IN  new \in [Keys -> EdgeRecord] /\ \A i \in Keys : new[i].last <= clock
  <2>1. Updated(edges[k], delta) \in EdgeRecord /\ Updated(edges[k], delta).last = clock
    BY <1>2, UpdatedTyped
  <2>2. clock <= clock
    BY TimeAssumption DEF Shapes, Times
  <2> QED BY <1>2, <2>1, <2>2
<1>3. pc[Evaluator] # "next" => todo # <<>> /\ Head(todo) \in Update /\ Tail(todo) \in Seq(Update) /\ k \in Keys
  <2> SUFFICES ASSUME pc[Evaluator] # "next"
               PROVE  todo # <<>> /\ Head(todo) \in Update /\ Tail(todo) \in Seq(Update) /\ k \in Keys
    OBVIOUS
  <2>1. todo \in Seq(Update) /\ todo # <<>>
    BY DEF Shapes
  <2>2. k \in Keys
    BY <1>1, KeysTyped
  <2> QED BY <2>1, <2>2, HeadTailProperties
\* In all of them the rest is as it was.
<1>4. ASSUME UNCHANGED <<clock, root, asked, first, got, tree, answer>>, made' = [r \in Procs |-> made'[r]],
             att' \in [Keys -> EdgeRecord], ill' \in [Keys -> EdgeRecord],
             \A i \in Keys : att'[i].last <= clock /\ ill'[i].last <= clock,
             NEW x \in EvaluatorStages, pc' = [pc EXCEPT ![Evaluator] = x],
             todo' \in Seq(Update), x # "next" => todo' # <<>>
      PROVE  Shapes'
  <2>1. /\ pc' \in [Procs -> QueryStages \cup EvaluatorStages]
        /\ pc'[Evaluator] = x /\ \A q \in Queries : pc'[q] = pc[q]
    BY <1>1, <1>4, QueriesAssumption DEF Shapes, Procs
  <2>2. \A i \in Keys : att'[i].last <= clock' /\ ill'[i].last <= clock'
    BY <1>4
  <2>3. got' \in [Procs -> Seq(Int)] /\ \A p \in Procs : Len(got'[p]) <= 12
    BY <1>4 DEF Shapes
  <2> QED BY <1>4, <2>1, <2>2, <2>3 DEF Shapes
<1>5. CASE Evaluate \/ UpdateFails
  <2>1. /\ \E x \in {"att", "read"} : pc' = [pc EXCEPT ![Evaluator] = x]
        /\ UNCHANGED <<clock, att, ill, root, todo, asked, first, got, made, tree, answer>> /\ todo # <<>>
    BY <1>3, <1>5 DEF Evaluate, UpdateFails, graphVars, procVars
  <2> QED BY <1>4, <2>1 DEF Shapes, EvaluatorStages
<1>6. CASE EvaluatorProjected
  <2>1. /\ pc' = [pc EXCEPT ![Evaluator] = "ill"] /\ made' = [r \in Procs |-> made'[r]] /\ todo # <<>>
        /\ UNCHANGED <<clock, att, ill, root, todo, asked, first, got, tree, answer>>
    BY <1>3, <1>6 DEF EvaluatorProjected, graphVars, Shapes
  <2> QED BY <1>4, <2>1 DEF Shapes, EvaluatorStages
<1>7. CASE NoIllusion
  <2>1. /\ pc' = [pc EXCEPT ![Evaluator] = "next"] /\ todo' \in Seq(Update)
        /\ UNCHANGED <<clock, att, ill, root, asked, first, got, made, tree, answer>>
    BY <1>3, <1>7 DEF NoIllusion, graphVars, procVars
  <2> QED BY <1>4, <2>1 DEF Shapes, EvaluatorStages
<1>8. CASE UpdateSocialGraph
  <2>1. /\ pc' = [pc EXCEPT ![Evaluator] = "read"] /\ todo # <<>> /\ k \in Keys /\ Head(todo).delta \in [Fields -> Int]
        /\ att' = [att EXCEPT ![k] = Updated(@, Head(todo).delta)]
        /\ UNCHANGED <<clock, ill, root, todo, asked, first, got, made, tree, answer>>
    BY <1>3, <1>8 DEF UpdateSocialGraph, procVars, Update
  <2>2. att' \in [Keys -> EdgeRecord] /\ \A i \in Keys : att'[i].last <= clock
    BY <1>2, <2>1 DEF Shapes
  <2> QED BY <1>4, <2>1, <2>2 DEF Shapes, EvaluatorStages
<1>9. CASE UpdateIllusionGraph
  <2> DEFINE delta == Head(Head(todo).illusion)
  <2>1. /\ pc' = [pc EXCEPT ![Evaluator] = "next"] /\ todo' \in Seq(Update) /\ k \in Keys
        /\ ill' = [ill EXCEPT ![k] = Updated(@, delta)]
        /\ UNCHANGED <<clock, att, root, asked, first, got, made, tree, answer>>
    BY <1>3, <1>9 DEF UpdateIllusionGraph, procVars
  <2>2. delta \in [Fields -> Int]
    <3>1. Head(todo).illusion \in Seq([Fields -> Int]) /\ Head(todo).illusion # <<>>
      BY <1>3, <1>9 DEF UpdateIllusionGraph, Update
    <3> QED BY <3>1, HeadTailProperties
  <2> HIDE DEF delta
  <2>3. ill' \in [Keys -> EdgeRecord] /\ \A i \in Keys : ill'[i].last <= clock
    BY <1>2, <2>1, <2>2 DEF Shapes
  <2> QED BY <1>4, <2>1, <2>3 DEF Shapes, EvaluatorStages
<1> QED BY <1>5, <1>6, <1>7, <1>8, <1>9

LEMMA TickShapes ==
  ASSUME Shapes, Tick
  PROVE  Shapes' /\ clock \in Nat /\ clock' = clock + 1
<1>1. clock \in Nat /\ clock' = clock + 1 /\ clock' \in Times
  BY TimeAssumption DEF Shapes, Tick, Times
<1>2. UNCHANGED <<att, ill, root, todo, pc, asked, first, got, made, tree, answer>>
  BY DEF Tick, procVars
<1>3. ASSUME NEW k \in Keys PROVE att'[k].last <= clock' /\ ill'[k].last <= clock'
  <2>1. att[k].last \in -1 .. clock /\ ill[k].last \in -1 .. clock
    BY EdgesTyped
  <2> QED BY <1>1, <1>2, <2>1
<1>4. got' \in [Procs -> Seq(Int)] /\ \A p \in Procs : Len(got'[p]) <= 12
  BY <1>2 DEF Shapes
<1> QED BY <1>1, <1>2, <1>3, <1>4 DEF Shapes

-----------------------------------------------------------------------------
(* What has been there stays on record *)

LEMMA EdgesGrow ==
  ASSUME NEW H, NEW J, H \subseteq J, NEW kind, NEW k, NEW t
  PROVE  EdgesAt(H, kind, k, t) \subseteq EdgesAt(J, kind, k, t)
BY DEF EdgesAt

LEMMA TreeGrows ==
  ASSUME NEW H, NEW J, H \subseteq J, NEW now \in Int, NEW later \in Int, now <= later,
         NEW t, NEW k, TreeOf(H, now, t, k)
  PROVE  TreeOf(J, later, t, k)
<1>1. \A kind, f, x : Shown(H, kind, k, t.stamp, f, x) => Shown(J, kind, k, t.stamp, f, x)
  BY EdgesGrow DEF Shown
<1>2. IsTree(t, later)
  <2>1. t.stamp \in 0 .. later
    BY DEF TreeOf, IsTree
  <2> QED BY <2>1 DEF TreeOf, IsTree
<1> QED BY <1>1, <1>2 DEF TreeOf

LEMMA FreshGrows ==
  ASSUME NEW H, NEW J, H \subseteq J, NEW a, NEW o, NEW k, Fresh(H, a, o, k)
  PROVE  Fresh(J, a, o, k)
<1>1. ASSUME NEW kind, NEW t, NEW limit, NEW f
      PROVE  RecentIn(H, kind, k, t, limit, f) \subseteq RecentIn(J, kind, k, t, limit, f)
  BY DEF RecentIn
<1>2. SUFFICES ASSUME a # <<>>, o.limit # NoLimit, a.source = "tree_fresh" PROVE Fresh(J, a, o, k)
  BY DEF Fresh
<1>3. CASE o.intent = "affect"
  BY <1>1, <1>2, <1>3 DEF Fresh
<1>4. CASE o.intent # "affect"
  BY <1>1, <1>2, <1>4 DEF Fresh
<1> QED BY <1>3, <1>4

\* A value that a tree shows has been the edge's, or its decay, at the tree's time.
LEMMA ShownIsRecent ==
  ASSUME NEW H, NEW kind, NEW k, NEW t \in Int, NEW limit \in Nat, NEW now \in Int,
         t \in (now - limit) .. now, NEW f, NEW x, Shown(H, kind, k, t, f, x)
  PROVE  x \in RecentIn(H, kind, k, now, limit, f)
<1>1. PICK h \in H : /\ h.kind = kind /\ h.key = k /\ h.at = t
                     /\ \E last \in {-1, h.edge.last} : Decayed(h.edge.values[f], last, t) = x
  BY DEF Shown, EdgesAt
<1>2. h \in {g \in H : g.kind = kind /\ g.key = k /\ g.at \in (now - limit) .. now}
  BY <1>1
<1>3. x \in {Decayed(h.edge.values[f], last, h.at) : last \in {-1, h.edge.last}}
  BY <1>1
<1> QED BY <1>2, <1>3 DEF RecentIn

\* The answer that a fresh tree gives.
LEMMA TreeAnswersRecent ==
  ASSUME Shapes, NEW q \in Queries, asked[q] \in Options, NEW H, NEW t, NEW k,
         TreeOf(H, clock, t, k), ~Stale(q, t)
  PROVE  Fresh(H, [source |-> "tree_fresh", body |-> FromTree(q, t), at |-> clock], asked[q], k)
<1> DEFINE a == [source |-> "tree_fresh", body |-> FromTree(q, t), at |-> clock]
<1>1. SUFFICES ASSUME asked[q].limit # NoLimit PROVE Fresh(H, a, asked[q], k)
  BY DEF Fresh
<1>2. asked[q].limit \in Nat
  BY <1>1 DEF Options
<1>3. clock \in Int /\ t.stamp \in Int /\ t.stamp \in (clock - asked[q].limit) .. clock
  <2>1. t.stamp \in 0 .. clock /\ clock \in Int
    BY TimeAssumption DEF TreeOf, IsTree, Shapes, Times
  <2>2. ~(clock - t.stamp > asked[q].limit)
    BY <1>1 DEF Stale
  <2> QED BY <1>2, <2>1, <2>2
<1>4. \A f \in Fields :
        /\ t.core[f] \in RecentIn(H, "att", k, clock, asked[q].limit, f)
        /\ t.illusion[f] \in RecentIn(H, "ill", k, clock, asked[q].limit, f)
  BY <1>2, <1>3, ShownIsRecent DEF TreeOf
<1>5. t = Tree(t.name, t.core, t.illusion, t.hint, t.stamp)
  BY DEF TreeOf, IsTree
<1>6. t.trust = TrustState(t.core["trust"]) /\ t.tension = TensionState(t.core["tension"])
  BY <1>5 DEF Tree
<1>7. CASE asked[q].intent = "affect"
  <2>1. a.body.core = t.core /\ a.body.illusion = t.illusion /\ a.at = clock
    BY <1>7 DEF FromTree, AffectFromTree
  <2> HIDE DEF a
  <2> QED BY <1>4, <1>7, <2>1 DEF Fresh
<1>8. CASE asked[q].intent # "affect"
  <2>1. a.body.trust = t.trust /\ a.body.tension = t.tension /\ a.at = clock
    BY <1>8 DEF FromTree, SummaryFromTree
  <2>2. "trust" \in Fields /\ "tension" \in Fields
    BY DEF Fields
  <2> HIDE DEF a
  <2> QED BY <1>4, <1>6, <1>8, <2>1, <2>2 DEF Fresh
<1> QED BY <1>7, <1>8

\* A process that a step leaves aside.
LEMMA AsideKept ==
  ASSUME IInv, UNCHANGED clock, held \subseteq held',
         \A k \in Keys : att'[k].last \in {att[k].last, clock} /\ ill'[k].last \in {ill[k].last, clock},
         NEW p \in Procs, pc'[p] = pc[p], got'[p] = got[p], made'[p] = made[p], Key(p)' = Key(p),
         p \in Queries => asked'[p] = asked[p] /\ tree'[p] = tree[p] /\ answer'[p] = answer[p]
  PROVE  Local(p)'
<1>1. clock \in Int /\ Shapes /\ Local(p)
  BY TimeAssumption DEF IInv, Shapes, Times
<1>2. \A kind, k : EdgesAt(held, kind, k, clock) \subseteq EdgesAt(held', kind, k, clock)
  BY EdgesGrow
<1>3. \A t, k : TreeOf(held, clock, t, k) => TreeOf(held', clock, t, k)
  BY <1>1, TreeGrows
<1>4. ASSUME pc[p] \in {"read", "graph"} PROVE (ReadsNow(p) /\ ReadsTyped(p))'
  <2>1. ReadsNow(p) /\ ReadsTyped(p)
    BY <1>1, <1>4 DEF Local, Proc
  <2>2. Key(p) \in Keys
    <3>1. p = Evaluator => pc[p] # "next"
      BY <1>4
    <3> QED BY <1>1, <1>4, <3>1, KeysTyped
  <2>3. ASSUME NEW read, NEW n, NEW old, NEW new, new \in {old, clock}, NEW e,
               Seen(read, n, old) \in {e, clock}
        PROVE  Seen(read, n, new) \in {e, clock}
    BY <2>3 DEF Seen
  <2>4. \A read, before, A, B, x, y : A \subseteq B /\ (\A e : x \in {e, clock} => y \in {e, clock})
            /\ ReadsOf(read, x, before, A, clock) => ReadsOf(read, y, before, B, clock)
    BY DEF ReadsOf
  <2>5. ReadsOf(got[p], Seen(got[p], 11, att'[Key(p)].last), 0, EdgesAt(held', "att", Key(p), clock), clock)
    BY <1>2, <2>1, <2>2, <2>3, <2>4 DEF ReadsNow
  <2>6. ReadsOf(got[p], Seen(got[p], 12, ill'[Key(p)].last), 5, EdgesAt(held', "ill", Key(p), clock), clock)
    BY <1>2, <2>1, <2>2, <2>3, <2>4 DEF ReadsNow
  <2>7. ReadsNow(p)'
    BY <2>5, <2>6 DEF ReadsNow
  <2>8. ReadsTyped(p)'
    BY <2>1 DEF ReadsTyped
  <2> QED BY <2>7, <2>8
<1>5. Proc(p)'
  BY <1>1, <1>3, <1>4 DEF Proc, Local
<1>6. ASSUME p \in Queries PROVE Query(p)'
  <2>1. Query(p)
    BY <1>1, <1>6 DEF Local
  <2>2. \A a, o, k : Fresh(held, a, o, k) => Fresh(held', a, o, k)
    BY FreshGrows
  <2> QED BY <1>3, <1>6, <2>1, <2>2 DEF Query
<1> QED BY <1>5, <1>6 DEF Local

\* One process moves; edges change at most to this moment's.
LEMMA OneMoves ==
  ASSUME IInv, UNCHANGED clock, held \subseteq held', Shapes', HeldNow', Roots',
         \A k \in Keys : att'[k].last \in {att[k].last, clock} /\ ill'[k].last \in {ill[k].last, clock},
         NEW p \in Procs, Local(p)',
         \A r \in Procs \ {p} : pc'[r] = pc[r] /\ got'[r] = got[r] /\ made'[r] = made[r],
         \A q \in Queries \ {p} : asked'[q] = asked[q] /\ tree'[q] = tree[q] /\ answer'[q] = answer[q],
         p # Evaluator => UNCHANGED todo
  PROVE  IInv'
<1>1. ASSUME NEW r \in Procs \ {p} PROVE Local(r)'
  <2>1. Key(r)' = Key(r)
    BY DEF Key, Name, Procs
  <2> QED BY <2>1, AsideKept
<1> QED BY <1>1 DEF IInv

\* Where the edges have not changed, what is there has been.
LEMMA EdgesKept ==
  ASSUME IInv, UNCHANGED <<clock, graphVars>>
  PROVE  /\ held \subseteq held' /\ HeldNow'
         /\ \A k \in Keys : att'[k].last \in {att[k].last, clock} /\ ill'[k].last \in {ill[k].last, clock}
BY DEF IInv, HeldNow, graphVars

\* The roots: all as they were, or one of them written.
LEMMA RootsKept ==
  ASSUME IInv, UNCHANGED clock, held \subseteq held', UNCHANGED root
  PROVE  Roots'
<1>1. clock \in Int
  BY TimeAssumption DEF IInv, Shapes, Times
<1>2. \A t, k : TreeOf(held, clock, t, k) => TreeOf(held', clock, t, k)
  BY <1>1, TreeGrows
<1> QED BY <1>2 DEF IInv, Roots

LEMMA RootsWritten ==
  ASSUME IInv, UNCHANGED <<clock, held>>, NEW p \in Procs, pc[p] \in {"upsert", "orphan"},
         root' = [root EXCEPT ![Key(p)] = made[p]]
  PROVE  Roots'
<1>1. TreeOf(held, clock, made[p], Key(p))
  BY DEF IInv, Local, Proc
<1>2. ASSUME NEW k \in Keys PROVE root'[k] = root[k] \/ (k = Key(p) /\ root'[k] = made[p])
  BY DEF IInv, Shapes
<1> QED BY <1>1, <1>2 DEF IInv, Roots

-----------------------------------------------------------------------------
(* Projections *)

LEMMA ReadNextKept ==
  ASSUME IInv, NEW p \in Procs, ReadNext(p)
  PROVE  Local(p)'
<1> DEFINE k == Key(p)
<1>1. /\ pc[p] \in {"read", "graph"} /\ k \in Keys /\ Shapes /\ Proc(p) /\ HeldNow
      /\ (p = Evaluator => pc[p] # "next")
  <2>1. pc[p] \in {"read", "graph"} /\ (p = Evaluator => pc[p] # "next")
    BY DEF ReadNext
  <2> QED BY <2>1, KeysTyped DEF IInv, Local
<1>2. UNCHANGED <<clock, att, ill, held, root, todo, pc, asked, made, tree, answer>> /\ Key(p)' = k
  BY DEF ReadNext, graphVars, Key, Name
<1>3. PICK from \in 0 .. 11 : \E to \in from + 1 .. 12 :
         /\ from = Len(got[p]) /\ Len(got'[p]) = to
         /\ \A i \in 1 .. from : got'[p][i] = got[p][i]
         /\ \A i \in from + 1 .. to : got'[p][i] = Statement(k, i)
  BY <1>1, ReadEffect
<1>4. PICK to \in from + 1 .. 12 :
         /\ from = Len(got[p]) /\ Len(got'[p]) = to
         /\ \A i \in 1 .. from : got'[p][i] = got[p][i]
         /\ \A i \in from + 1 .. to : got'[p][i] = Statement(k, i)
  BY <1>3
<1>5. PICK old : old = got[p]
  OBVIOUS
<1>6. PICK new : new = got'[p]
  OBVIOUS
<1>7. /\ from = Len(old) /\ Len(new) = to /\ from < to
      /\ \A i \in 1 .. from : new[i] = old[i]
      /\ \A i \in from + 1 .. to : new[i] = Statement(k, i)
  BY <1>4, <1>5, <1>6
\* What it reads of an edge, or has not read yet, is what the edge tells now.
<1>8. Seen(new, 11, att[k].last) = Seen(old, 11, att[k].last)
      /\ Seen(new, 12, ill[k].last) = Seen(old, 12, ill[k].last)
  <2>1. Statement(k, 11) = att[k].last /\ Statement(k, 12) = ill[k].last
    BY DEF Statement
  <2> QED BY <1>7, <2>1 DEF Seen
<1>9. /\ ReadsOf(old, Seen(old, 11, att[k].last), 0, EdgesAt(held, "att", k, clock), clock)
      /\ ReadsOf(old, Seen(old, 12, ill[k].last), 5, EdgesAt(held, "ill", k, clock), clock)
      /\ att[k] \in EdgesAt(held, "att", k, clock) /\ ill[k] \in EdgesAt(held, "ill", k, clock)
  BY <1>1, <1>5 DEF Proc, ReadsNow, HeldNow
<1>10. ReadsOf(new, Seen(new, 11, att[k].last), 0, EdgesAt(held, "att", k, clock), clock)
  <2> SUFFICES ASSUME NEW i \in 1 .. 5, i + 0 <= to
               PROVE  \E e \in EdgesAt(held, "att", k, clock) :
                        /\ e.values[FieldOrder[i]] = new[i + 0]
                        /\ Seen(old, 11, att[k].last) \in {e.last, clock}
    BY <1>7, <1>8 DEF ReadsOf
  <2>1. CASE i <= from
    BY <1>7, <1>9, <2>1 DEF ReadsOf
  <2>2. CASE i > from
    <3>1. new[i] = att[k].values[FieldOrder[i]]
      BY <1>7, <2>2 DEF Statement
    <3>2. Seen(old, 11, att[k].last) = att[k].last
      BY <1>7, <2>2 DEF Seen
    <3> QED BY <1>9, <3>1, <3>2
  <2> QED BY <2>1, <2>2
<1>11. ReadsOf(new, Seen(new, 12, ill[k].last), 5, EdgesAt(held, "ill", k, clock), clock)
  <2> SUFFICES ASSUME NEW i \in 1 .. 5, i + 5 <= to
               PROVE  \E e \in EdgesAt(held, "ill", k, clock) :
                        /\ e.values[FieldOrder[i]] = new[i + 5]
                        /\ Seen(old, 12, ill[k].last) \in {e.last, clock}
    BY <1>7, <1>8 DEF ReadsOf
  <2>1. CASE i + 5 <= from
    BY <1>7, <1>9, <2>1 DEF ReadsOf
  <2>2. CASE i + 5 > from
    <3>1. new[i + 5] = ill[k].values[FieldOrder[i]]
      <4>1. i + 5 \in from + 1 .. to /\ ~(i + 5 <= 5) /\ i + 5 <= 10 /\ (i + 5) - 5 = i
        BY <2>2
      <4> QED BY <1>7, <4>1 DEF Statement
    <3>2. Seen(old, 12, ill[k].last) = ill[k].last
      BY <1>7, <2>2 DEF Seen
    <3> QED BY <1>9, <3>1, <3>2
  <2> QED BY <2>1, <2>2
<1>12. ReadsNow(p)'
  BY <1>2, <1>6, <1>10, <1>11 DEF ReadsNow
<1>13. ReadsTyped(p)'
  <2>1. \A i \in 1 .. 10 : Statement(k, i) \in -Unit .. Unit
    <3>1. \A i \in 6 .. 10 : i - 5 \in 1 .. 5
      OBVIOUS
    <3> QED BY <1>1, <3>1, EdgesTyped, FieldNumbers DEF Statement
  <2>2. \A i \in 11 .. 12 : Statement(k, i) \in -1 .. clock
    BY <1>1, EdgesTyped DEF Statement
  <2>3. ReadsTyped(p)
    BY <1>1 DEF Proc
  <2>4. \A i \in 1 .. 10 : i <= to => new[i] \in -Unit .. Unit
    <3> SUFFICES ASSUME NEW i \in 1 .. 10, i <= to PROVE new[i] \in -Unit .. Unit
      OBVIOUS
    <3>1. CASE i <= from
      <4>1. i \in 1 .. from /\ i <= Len(old)
        BY <1>7, <3>1
      <4>2. old[i] \in -Unit .. Unit
        BY <1>5, <2>3, <4>1 DEF ReadsTyped
      <4> QED BY <1>7, <4>1, <4>2
    <3>2. CASE i > from
      <4>1. i \in from + 1 .. to
        BY <3>2
      <4>2. new[i] = Statement(k, i) /\ Statement(k, i) \in -Unit .. Unit
        BY <1>7, <2>1, <4>1
      <4> QED BY <4>2
    <3> QED BY <3>1, <3>2
  <2>5. \A i \in 11 .. 12 : i <= to => new[i] \in -1 .. clock
    <3> SUFFICES ASSUME NEW i \in 11 .. 12, i <= to PROVE new[i] \in -1 .. clock
      OBVIOUS
    <3>1. CASE i <= from
      <4>1. i \in 1 .. from /\ i <= Len(old)
        BY <1>7, <3>1
      <4>2. old[i] \in -1 .. clock
        BY <1>5, <2>3, <4>1 DEF ReadsTyped
      <4> QED BY <1>7, <4>1, <4>2
    <3>2. CASE i > from
      <4>1. i \in from + 1 .. to
        BY <3>2
      <4>2. new[i] = Statement(k, i) /\ Statement(k, i) \in -1 .. clock
        BY <1>7, <2>2, <4>1
      <4> QED BY <4>2
    <3> QED BY <3>1, <3>2
  <2> QED BY <1>2, <1>6, <1>7, <2>4, <2>5 DEF ReadsTyped
<1>14. Proc(p)'
  BY <1>1, <1>2, <1>12, <1>13 DEF Proc
<1>15. p \in Queries => Query(p)'
  BY <1>2 DEF IInv, Local, Query
<1> QED BY <1>14, <1>15 DEF Local

\* A projection that has read everything makes a tree of edges of now: a value
\* that was read before an update decays for no time at all if its time was read after.
LEMMA ProjectKept ==
  ASSUME IInv, NEW p \in Procs, Project(p)
  PROVE  Local(p)'
<1> DEFINE k == Key(p)
           t == Tree(Name(p), Attitudes(got[p]), Illusion(got[p]), Hint(p), clock)
<1>1. /\ pc[p] = "read" /\ Len(got[p]) = 12 /\ Shapes /\ Proc(p)
      /\ k \in Keys /\ Name(p) \in Names /\ Hint(p) \in 0 .. Unit
  <2>1. pc[p] = "read" /\ Len(got[p]) = 12
    BY DEF Project
  <2>2. p = Evaluator => pc[p] # "next"
    BY <2>1
  <2> QED BY <2>1, <2>2, KeysTyped DEF IInv, Local
<1>2. clock \in 0 .. MaxTime
  BY <1>1, TimeAssumption DEF Shapes, Times
<1>3. ReadsNow(p) /\ ReadsTyped(p)
  BY <1>1 DEF Proc
<1>4. ASSUME NEW read, Len(read) = 12, NEW before \in {0, 5}, NEW edges, NEW last \in -1 .. clock,
             ReadsOf(read, last, before, edges, clock),
             \A i \in 1 .. 10 : read[i] \in -Unit .. Unit, NEW f \in Fields
      PROVE  /\ Metric(read, before, last)[f] \in -Unit .. Unit
             /\ \E e \in edges : \E l \in {-1, e.last} :
                  Decayed(e.values[f], l, clock) = Metric(read, before, last)[f]
  <2>1. PICK i \in 1 .. 5 : /\ FieldOrder[i] = f
                            /\ Metric(read, before, last)[f] = Decayed(read[before + i], last, clock)
    <3> DEFINE n == CHOOSE i \in 1 .. 5 : FieldOrder[i] = f
    <3>1. n \in 1 .. 5 /\ FieldOrder[n] = f
      BY FieldNumbers
    <3> QED BY <3>1 DEF Metric
  <2>2. read[before + i] \in -Unit .. Unit /\ i + before <= Len(read) /\ before + i = i + before
    BY <1>4
  <2>3. Metric(read, before, last)[f] \in -Unit .. Unit
    BY <1>2, <2>1, <2>2, DecayedInRange
  <2>4. PICK e \in edges : e.values[f] = read[before + i] /\ last \in {e.last, clock}
    BY <1>4, <2>1, <2>2 DEF ReadsOf
  <2>5. Decayed(read[before + i], clock, clock) = Decayed(read[before + i], -1, clock)
    <3>1. (clock - clock) \div Day = 0
      <4>1. Day \in Nat /\ Day >= 1
        BY TimeAssumption
      <4> QED BY <1>2, <4>1
    <3>2. ~(clock < 0) /\ -1 < 0
      BY <1>2
    <3> QED BY <3>1, <3>2 DEF Decayed
  <2> QED BY <2>1, <2>3, <2>4, <2>5
<1>5. got[p][11] \in -1 .. clock /\ got[p][12] \in -1 .. clock /\ \A i \in 1 .. 10 : got[p][i] \in -Unit .. Unit
  BY <1>1, <1>3 DEF ReadsTyped
<1>6. /\ ReadsOf(got[p], got[p][11], 0, EdgesAt(held, "att", k, clock), clock)
      /\ ReadsOf(got[p], got[p][12], 5, EdgesAt(held, "ill", k, clock), clock)
  BY <1>1, <1>3 DEF ReadsNow, Seen
<1>7. \A f \in Fields : /\ Attitudes(got[p])[f] \in -Unit .. Unit /\ Illusion(got[p])[f] \in -Unit .. Unit
                        /\ Shown(held, "att", k, clock, f, Attitudes(got[p])[f])
                        /\ Shown(held, "ill", k, clock, f, Illusion(got[p])[f])
  BY <1>1, <1>4, <1>5, <1>6 DEF Attitudes, Illusion, Shown
<1>8. Attitudes(got[p]) \in Metrics /\ Illusion(got[p]) \in Metrics
  BY <1>7 DEF Attitudes, Illusion, Metric, Metrics
<1>9. TreeOf(held, clock, t, k)
  <2>1. /\ t.name = Name(p) /\ t.core = Attitudes(got[p]) /\ t.illusion = Illusion(got[p])
        /\ t.hint = Hint(p) /\ t.stamp = clock
    BY DEF Tree
  <2>2. t = Tree(t.name, t.core, t.illusion, t.hint, t.stamp)
    BY <2>1
  <2>3. KeyOf[t.name] = k
    BY <2>1 DEF Key
  <2> HIDE DEF t, k
  <2>4. clock \in 0 .. clock
    BY <1>2
  <2> QED BY <1>1, <1>7, <1>8, <2>1, <2>2, <2>3, <2>4 DEF TreeOf, IsTree
<1>10. /\ pc'[p] = "upsert" /\ got'[p] = <<>> /\ made'[p] = t
       /\ UNCHANGED <<clock, held, todo, asked, tree, answer>>
  BY <1>1 DEF Project, graphVars, Shapes
<1>11. Key(p)' = k
  BY <1>10 DEF Key, Name
<1> HIDE DEF t, k
<1>12. Proc(p)'
  BY <1>9, <1>10, <1>11 DEF Proc
<1>13. p \in Queries => Query(p)'
  BY <1>1, <1>10, <1>11 DEF IInv, Local, Query, k
<1> QED BY <1>12, <1>13 DEF Local

LEMMA UpsertKept ==
  ASSUME IInv, NEW p \in Procs, Upsert(p)
  PROVE  Local(p)' /\ Roots'
<1>1. /\ pc[p] = "upsert" /\ pc'[p] = "written" /\ made'[p] = made[p]
      /\ root' = [root EXCEPT ![Key(p)] = made[p]]
      /\ UNCHANGED <<clock, held, todo, got, asked, tree, answer>>
  BY DEF IInv, Upsert, graphVars, Shapes, Content
<1>2. Key(p)' = Key(p)
  BY <1>1 DEF Key, Name
<1>3. Proc(p)'
  BY <1>1, <1>2 DEF IInv, Local, Proc
<1>4. p \in Queries => Query(p)'
  BY <1>1, <1>2 DEF IInv, Local, Query
<1>5. Roots'
  BY <1>1, RootsWritten
<1> QED BY <1>3, <1>4, <1>5 DEF Local

LEMMA ProjectingKept ==
  ASSUME IInv, NEW p \in Procs, Projecting(p)
  PROVE  IInv'
<1>1. Shapes'
  BY ProjectingShapes DEF IInv
<1>2. UNCHANGED <<clock, graphVars>> /\ UNCHANGED <<todo, asked, tree, answer>>
  BY DEF Projecting, ReadNext, Project, Upsert
<1>3. \A r \in Procs \ {p} : pc'[r] = pc[r] /\ got'[r] = got[r] /\ made'[r] = made[r]
  BY DEF Projecting, ReadNext, Project, Upsert, IInv, Shapes
<1>4. Local(p)' /\ Roots'
  <2>1. CASE ReadNext(p)
    BY <1>2, <2>1, ReadNextKept, RootsKept, EdgesKept DEF ReadNext
  <2>2. CASE Project(p)
    BY <1>2, <2>2, ProjectKept, RootsKept, EdgesKept DEF Project
  <2>3. CASE Upsert(p)
    BY <2>3, UpsertKept
  <2> QED BY <2>1, <2>2, <2>3 DEF Projecting
<1> QED BY <1>1, <1>2, <1>3, <1>4, EdgesKept, OneMoves

-----------------------------------------------------------------------------
(* Queries *)

\* A query that has a tree to answer from.
LEMMA ClassifyKept ==
  ASSUME IInv, NEW q \in Queries, UNCHANGED <<clock, held, asked, got>>, Key(q)' = Key(q),
         got[q] = <<>>, asked[q] \in Options, pc[q] # "answered",
         NEW t, TreeOf(held, clock, t, Key(q)), tree'[q] = t,
         Receive(q, t) \/ Classify(q, t)
  PROVE  Local(q)'
<1>1. q \in Procs /\ Shapes /\ Query(q)
  BY DEF IInv, Local, Procs
<1>2. \/ pc'[q] \in {"read", "graph"} /\ answer'[q] = answer[q]
      \/ /\ pc'[q] = "answered"
         /\ \E source : /\ source = "tree_fresh" => ~Stale(q, t)
                        /\ answer'[q] = [source |-> source, body |-> FromTree(q, t), at |-> clock]
  <2>1. CASE UNCHANGED answer /\ \E x \in {"read", "graph"} : pc' = [pc EXCEPT ![q] = x]
    BY <1>1, <2>1 DEF Shapes
  <2>2. ASSUME NEW source, NEW body, Answer(q, source, body)
        PROVE  pc'[q] = "answered" /\ answer'[q] = [source |-> source, body |-> body, at |-> clock]
    BY <1>1, <2>2 DEF Answer, Shapes
  <2>3. "tree_stale" # "tree_fresh"
    OBVIOUS
  <2>4. CASE Classify(q, t)
    BY <2>1, <2>2, <2>3, <2>4 DEF Classify
  <2> QED BY <2>1, <2>4 DEF Receive
<1>3. Proc(q)'
  <2>1. ReadsOf(got[q], Seen(got[q], 11, att'[Key(q)].last), 0, EdgesAt(held, "att", Key(q), clock), clock)
        /\ ReadsOf(got[q], Seen(got[q], 12, ill'[Key(q)].last), 5, EdgesAt(held, "ill", Key(q), clock), clock)
    BY DEF ReadsOf
  <2>2. ReadsNow(q)'
    BY <2>1 DEF ReadsNow
  <2>3. ReadsTyped(q)'
    BY DEF ReadsTyped
  <2> QED BY <1>2, <2>2, <2>3 DEF Proc
<1>4. Fresh(held, answer'[q], asked[q], Key(q))
  <2>1. CASE answer'[q] = answer[q]
    BY <1>1, <2>1 DEF Query
  <2>2. CASE answer'[q] # answer[q]
    <3>1. PICK source : /\ source = "tree_fresh" => ~Stale(q, t)
                        /\ answer'[q] = [source |-> source, body |-> FromTree(q, t), at |-> clock]
      BY <1>2, <2>2
    <3>2. CASE source = "tree_fresh"
      BY <1>1, <3>1, <3>2, TreeAnswersRecent
    <3>3. CASE source # "tree_fresh"
      BY <3>1, <3>3 DEF Fresh
    <3> QED BY <3>2, <3>3
  <2> QED BY <2>1, <2>2
<1>5. Query(q)'
  <2>1. pc'[q] \notin {"idle", "find", "orphan"} /\ (pc'[q] # "answered" => answer'[q] = <<>>)
    BY <1>1, <1>2 DEF Query
  <2> QED BY <1>4, <2>1 DEF Query
<1> QED BY <1>3, <1>5 DEF Local

\* A query that goes on with no tree, no values and nothing to answer.
LEMMA BareKept ==
  ASSUME NEW q \in Queries, got'[q] = <<>>, pc'[q] \notin {"upsert", "written", "orphan", "answered"},
         tree'[q] = NoTree, answer'[q] = <<>>
  PROVE  Local(q)'
<1>1. ReadsOf(got'[q], Seen(got'[q], 11, att'[Key(q)'].last), 0, EdgesAt(held', "att", Key(q)', clock'), clock')
      /\ ReadsOf(got'[q], Seen(got'[q], 12, ill'[Key(q)'].last), 5, EdgesAt(held', "ill", Key(q)', clock'), clock')
  BY DEF ReadsOf
<1>2. ReadsNow(q)'
  BY <1>1 DEF ReadsNow
<1>3. ReadsTyped(q)'
  BY DEF ReadsTyped
<1>4. Proc(q)'
  BY <1>2, <1>3 DEF Proc
<1>5. Query(q)'
  BY DEF Query, Fresh
<1> QED BY <1>4, <1>5 DEF Local

LEMMA QueryKept ==
  ASSUME IInv, NEW q \in Queries,
         Found(q) \/ NotFound(q) \/ Projected(q) \/ ProjectFails(q) \/ GraphFallback(q)
           \/ DefaultFallback(q) \/ Deliver(q) \/ Cancel(q) \/ OrphanUpsert(q)
           \/ \E o \in Options : pc[q] = "idle" /\ Start(q, o)
  PROVE  IInv'
<1>1. q \in Procs /\ q # Evaluator /\ Shapes /\ Proc(q) /\ Query(q)
  BY QueriesAssumption DEF Procs, IInv, Local
<1>2. Shapes'
  BY <1>1, QueryShapes
<1>3. UNCHANGED <<clock, att, ill, held, todo>> /\ UNCHANGED graphVars
  BY DEF Found, NotFound, Projected, ProjectFails, GraphFallback, DefaultFallback, Deliver, Cancel,
         OrphanUpsert, Start, graphVars, procVars
<1>4. /\ \A r \in Procs \ {q} : pc'[r] = pc[r] /\ got'[r] = got[r] /\ made'[r] = made[r]
      /\ \A r \in Queries \ {q} : asked'[r] = asked[r] /\ tree'[r] = tree[r] /\ answer'[r] = answer[r]
  <2>1. \/ pc' = pc
        \/ \E x : pc' = [pc EXCEPT ![q] = x]
    BY DEF Found, NotFound, Projected, ProjectFails, WithoutProjection, Receive, Classify, Answer,
           GraphFallback, DefaultFallback, Deliver, Cancel, OrphanUpsert, Start, Idle
  <2>2. got' = got \/ got' = [got EXCEPT ![q] = <<>>]
    BY DEF Found, NotFound, Projected, ProjectFails, GraphFallback, DefaultFallback, Deliver, Cancel,
           OrphanUpsert, Start, procVars
  <2>3. made' = made \/ made' = [made EXCEPT ![q] = NoTree]
    BY DEF Found, NotFound, Projected, ProjectFails, GraphFallback, DefaultFallback, Deliver, Cancel,
           OrphanUpsert, Start, procVars
  <2>4. asked' = asked \/ \E x : asked' = [asked EXCEPT ![q] = x]
    BY DEF Found, NotFound, Projected, ProjectFails, GraphFallback, DefaultFallback, Deliver, Cancel,
           OrphanUpsert, Start, Idle, procVars
  <2>5. tree' = tree \/ \E x : tree' = [tree EXCEPT ![q] = x]
    BY DEF Found, NotFound, Projected, ProjectFails, GraphFallback, DefaultFallback, Deliver, Cancel,
           OrphanUpsert, Start, Receive, procVars
  <2>6. answer' = answer \/ \E x : answer' = [answer EXCEPT ![q] = x]
    BY DEF Found, NotFound, Projected, ProjectFails, WithoutProjection, Receive, Classify, Answer,
           GraphFallback, DefaultFallback, Deliver, Cancel, OrphanUpsert, Start, procVars
  <2>7. \A r \in Procs \ {q} : pc'[r] = pc[r] /\ got'[r] = got[r] /\ made'[r] = made[r]
    BY <1>1, <2>1, <2>2, <2>3 DEF Shapes
  <2>8. \A r \in Queries \ {q} : asked'[r] = asked[r] /\ tree'[r] = tree[r] /\ answer'[r] = answer[r]
    BY <1>1, <2>4, <2>5, <2>6 DEF Shapes
  <2> QED BY <2>7, <2>8
<1>5. Roots'
  <2>1. CASE OrphanUpsert(q)
    <3>1. root' = root \/ (pc[q] = "orphan" /\ root' = [root EXCEPT ![Key(q)] = made[q]])
      BY <2>1 DEF OrphanUpsert, Content
    <3> QED BY <1>1, <1>3, <3>1, RootsKept, RootsWritten, EdgesKept
  <2>2. CASE ~OrphanUpsert(q)
    <3>1. UNCHANGED root
      BY <2>2 DEF Found, NotFound, Projected, ProjectFails, GraphFallback, DefaultFallback, Deliver, Cancel, Start
    <3> QED BY <1>3, <3>1, RootsKept, EdgesKept
  <2> QED BY <2>1, <2>2
<1>6. UNCHANGED asked => Key(q)' = Key(q)
  BY <1>1 DEF Key, Name
<1>7. pc[q] # "idle" => asked[q] \in Options /\ Key(q) \in Keys
  BY <1>1, KeysTyped DEF Shapes
<1>8. Local(q)'
  <2>1. CASE Found(q)
    <3>1. /\ pc[q] = "find" /\ root[Key(q)] # NoTree /\ Receive(q, root[Key(q)])
          /\ UNCHANGED <<clock, held, asked, got>>
      BY <2>1 DEF Found, graphVars
    <3>2. PICK t : t = root[Key(q)]
      OBVIOUS
    <3>3. TreeOf(held, clock, t, Key(q)) /\ got[q] = <<>> /\ asked[q] \in Options
      BY <1>1, <1>7, <3>1, <3>2 DEF IInv, Roots, Proc
    <3>4. tree'[q] = t
      BY <1>1, <3>1, <3>2 DEF Receive, Shapes
    <3> QED BY <1>6, <3>1, <3>2, <3>3, <3>4, ClassifyKept
  <2>2. CASE NotFound(q)
    <3>1. pc[q] = "find" /\ pc'[q] = "read" /\ UNCHANGED <<got, tree, answer>>
      BY <1>1, <2>2 DEF NotFound, procVars, Shapes
    <3>2. got[q] = <<>> /\ tree[q] = NoTree /\ answer[q] = <<>>
      BY <1>1, <3>1 DEF Proc, Query
    <3> QED BY <3>1, <3>2, BareKept
  <2>3. CASE Projected(q)
    <3>1. pc[q] = "written" /\ Receive(q, made[q]) /\ UNCHANGED <<clock, held, asked, got>>
      BY <2>3 DEF Projected, graphVars
    <3>2. PICK t : t = made[q]
      OBVIOUS
    <3>3. TreeOf(held, clock, t, Key(q)) /\ got[q] = <<>> /\ asked[q] \in Options
      BY <1>1, <1>7, <3>1, <3>2 DEF Proc
    <3>4. tree'[q] = t
      BY <1>1, <3>1, <3>2 DEF Receive, Shapes
    <3> QED BY <1>6, <3>1, <3>2, <3>3, <3>4, ClassifyKept
  <2>4. CASE ProjectFails(q)
    <3>1. /\ pc[q] \in {"read", "upsert"} /\ got[q] = <<>> /\ WithoutProjection(q)
          /\ UNCHANGED <<clock, held, asked, got, tree>>
      BY <2>4 DEF ProjectFails, graphVars
    <3>2. CASE tree[q] = NoTree
      <4>1. pc'[q] = "graph" /\ answer'[q] = <<>>
        BY <1>1, <3>1, <3>2 DEF WithoutProjection, Shapes, Query
      <4> QED BY <3>1, <3>2, <4>1, BareKept
    <3>3. CASE tree[q] # NoTree
      <4>1. Classify(q, tree[q])
        BY <3>1, <3>3 DEF WithoutProjection
      <4>2. PICK t : t = tree[q]
        OBVIOUS
      <4>3. TreeOf(held, clock, t, Key(q)) /\ asked[q] \in Options
        BY <1>1, <1>7, <3>1, <3>3, <4>2 DEF Query
      <4> QED BY <1>6, <3>1, <4>1, <4>2, <4>3, ClassifyKept
    <3> QED BY <3>2, <3>3
  <2>5. CASE GraphFallback(q) \/ DefaultFallback(q)
    <3>0. PICK source \in {"graph_fallback", "default_fallback"} : \E body : Answer(q, source, body)
      BY <2>5 DEF GraphFallback, DefaultFallback
    <3>1. PICK body : Answer(q, source, body)
      BY <3>0
    <3>2. pc'[q] = "answered" /\ answer'[q] = [source |-> source, body |-> body, at |-> clock]
      BY <1>1, <3>1 DEF Answer, Shapes
    <3>3. got'[q] = <<>> /\ UNCHANGED <<asked, tree, held, clock>>
      BY <1>1, <2>5 DEF GraphFallback, DefaultFallback, Shapes, graphVars
    <3>4. Proc(q)'
      BY <3>2, <3>3 DEF Proc
    <3>5. Fresh(held, answer'[q], asked[q], Key(q))
      BY <3>2 DEF Fresh
    <3>6. Query(q)'
      BY <1>1, <1>6, <3>2, <3>3, <3>5 DEF Query
    <3> QED BY <3>4, <3>6 DEF Local
  <2>6. CASE Deliver(q)
    <3>1. pc'[q] = "idle" /\ got'[q] = <<>> /\ tree'[q] = NoTree /\ answer'[q] = <<>>
      BY <1>1, <2>6 DEF Deliver, Idle, Shapes, Proc
    <3> QED BY <3>1, BareKept
  <2>7. CASE Cancel(q) /\ pc[q] = "upsert"
    <3>1. /\ pc'[q] = "orphan" /\ got'[q] = <<>> /\ tree'[q] = NoTree /\ answer'[q] = <<>>
          /\ UNCHANGED <<asked, made, held, clock>>
      BY <1>1, <2>7 DEF Cancel, Shapes, Query, graphVars
    <3>2. TreeOf(held, clock, made[q], Key(q))
      BY <1>1, <2>7 DEF Proc
    <3>3. Proc(q)'
      BY <1>6, <3>1, <3>2 DEF Proc
    <3>4. Query(q)'
      BY <3>1 DEF Query, Fresh
    <3> QED BY <3>3, <3>4 DEF Local
  <2>8. CASE Cancel(q) /\ pc[q] # "upsert"
    <3>1. pc'[q] = "idle" /\ got'[q] = <<>> /\ tree'[q] = NoTree /\ answer'[q] = <<>>
      BY <1>1, <2>8 DEF Cancel, Idle, Shapes, Query
    <3> QED BY <3>1, BareKept
  <2>9. CASE OrphanUpsert(q)
    <3>1. pc'[q] = "idle" /\ got'[q] = <<>> /\ tree'[q] = NoTree /\ answer'[q] = <<>>
      BY <1>1, <2>9 DEF OrphanUpsert, Idle, Shapes, Proc, Query
    <3> QED BY <3>1, BareKept
  <2>10. ASSUME NEW o \in Options, pc[q] = "idle", Start(q, o) PROVE Local(q)'
    <3>1. pc[q] = "idle" /\ pc'[q] \in {"read", "find"} /\ UNCHANGED <<got, tree, answer>>
      BY <1>1, <2>10 DEF Start, Shapes
    <3>2. got[q] = <<>> /\ tree[q] = NoTree /\ answer[q] = <<>>
      BY <1>1, <3>1 DEF Proc, Query
    <3> QED BY <3>1, <3>2, BareKept
  <2> QED BY <2>1, <2>2, <2>3, <2>4, <2>5, <2>6, <2>7, <2>8, <2>9, <2>10
<1> QED BY <1>1, <1>2, <1>3, <1>4, <1>5, <1>8, EdgesKept, OneMoves

-----------------------------------------------------------------------------
(* The evaluator, and time *)

LEMMA EvaluatorKept ==
  ASSUME IInv, Evaluate \/ UpdateFails \/ EvaluatorProjected \/ NoIllusion
                 \/ UpdateSocialGraph \/ UpdateIllusionGraph
  PROVE  IInv'
<1> DEFINE k == Key(Evaluator)
<1>1. Evaluator \in Procs /\ Evaluator \notin Queries /\ Shapes /\ Proc(Evaluator) /\ HeldNow
  BY QueriesAssumption DEF Procs, IInv, Local
<1>2. Shapes'
  BY <1>1, EvaluatorShapes
<1>3. UNCHANGED <<clock, root, asked, first, got, tree, answer>>
  BY DEF Evaluate, UpdateFails, EvaluatorProjected, NoIllusion, UpdateSocialGraph, UpdateIllusionGraph,
         procVars
<1>4. \A r \in Procs \ {Evaluator} : pc'[r] = pc[r] /\ got'[r] = got[r] /\ made'[r] = made[r]
  <2>1. \E x : pc' = [pc EXCEPT ![Evaluator] = x]
    BY DEF Evaluate, UpdateFails, EvaluatorProjected, NoIllusion, UpdateSocialGraph, UpdateIllusionGraph
  <2>2. made' = made \/ made' = [made EXCEPT ![Evaluator] = NoTree]
    BY DEF Evaluate, UpdateFails, EvaluatorProjected, NoIllusion, UpdateSocialGraph, UpdateIllusionGraph,
           procVars
  <2> QED BY <1>1, <1>3, <2>1, <2>2 DEF Shapes
\* It has read nothing when it comes to its next step, and has no tree to write.
<1>5. Local(Evaluator)'
  <2>1. got[Evaluator] = <<>>
    BY <1>1 DEF Evaluate, UpdateFails, EvaluatorProjected, NoIllusion, UpdateSocialGraph,
                UpdateIllusionGraph, Proc
  <2>2. pc'[Evaluator] \in {"next", "att", "read", "ill"}
    BY <1>1 DEF Evaluate, UpdateFails, EvaluatorProjected, NoIllusion, UpdateSocialGraph,
                UpdateIllusionGraph, Shapes
  <2>3. ReadsNow(Evaluator)' /\ ReadsTyped(Evaluator)'
    <3>1. \A last, edges, now : \A before \in {0, 5} : ReadsOf(<<>>, last, before, edges, now)
      BY DEF ReadsOf
    <3>2. got'[Evaluator] = <<>>
      BY <1>3, <2>1
    <3> QED BY <3>1, <3>2 DEF ReadsNow, ReadsTyped
  <2> QED BY <1>1, <1>3, <2>1, <2>2, <2>3 DEF Local, Proc
\* An edge written now is on record, with this time.
<1>6. /\ held \subseteq held' /\ HeldNow'
      /\ \A i \in Keys : att'[i].last \in {att[i].last, clock} /\ ill'[i].last \in {ill[i].last, clock}
  <2>1. CASE Evaluate \/ UpdateFails \/ EvaluatorProjected \/ NoIllusion
    <3>1. UNCHANGED <<clock, graphVars>>
      BY <2>1 DEF Evaluate, UpdateFails, EvaluatorProjected, NoIllusion
    <3> QED BY <3>1, EdgesKept
  <2>2. CASE UpdateSocialGraph
    <3>1. /\ att' = [att EXCEPT ![k] = Updated(@, Head(todo).delta)]
          /\ held' = held \cup {Hold("att", k, att'[k], clock)} /\ UNCHANGED <<clock, ill>>
      BY <2>2 DEF UpdateSocialGraph
    <3>2. \A i \in Keys : att'[i] = att[i] \/ (i = k /\ att'[i].last = clock)
      BY <1>1, <3>1 DEF Updated, Edge, Shapes
    <3>3. att'[k] \in EdgesAt(held', "att", k, clock)
      <4> DEFINE h == Hold("att", k, att'[k], clock)
      <4>1. h \in held' /\ h.kind = "att" /\ h.key = k /\ h.at = clock /\ h.edge = att'[k]
        BY <3>1 DEF Hold
      <4> QED BY <4>1 DEF EdgesAt
    <3>4. \A i \in Keys : /\ att'[i] \in EdgesAt(held', "att", i, clock)
                          /\ ill[i] \in EdgesAt(held', "ill", i, clock)
      BY <1>1, <3>1, <3>2, <3>3, EdgesGrow DEF HeldNow
    <3> QED BY <3>1, <3>2, <3>4 DEF HeldNow
  <2>3. CASE UpdateIllusionGraph
    <3>1. /\ ill' = [ill EXCEPT ![k] = Updated(@, Head(Head(todo).illusion))]
          /\ held' = held \cup {Hold("ill", k, ill'[k], clock)} /\ UNCHANGED <<clock, att>>
      BY <2>3 DEF UpdateIllusionGraph
    <3>2. \A i \in Keys : ill'[i] = ill[i] \/ (i = k /\ ill'[i].last = clock)
      BY <1>1, <3>1 DEF Updated, Edge, Shapes
    <3>3. ill'[k] \in EdgesAt(held', "ill", k, clock)
      <4> DEFINE h == Hold("ill", k, ill'[k], clock)
      <4>1. h \in held' /\ h.kind = "ill" /\ h.key = k /\ h.at = clock /\ h.edge = ill'[k]
        BY <3>1 DEF Hold
      <4> QED BY <4>1 DEF EdgesAt
    <3>4. \A i \in Keys : /\ att[i] \in EdgesAt(held', "att", i, clock)
                          /\ ill'[i] \in EdgesAt(held', "ill", i, clock)
      BY <1>1, <3>1, <3>2, <3>3, EdgesGrow DEF HeldNow
    <3> QED BY <3>1, <3>2, <3>4 DEF HeldNow
  <2> QED BY <2>1, <2>2, <2>3
<1>7. Roots'
  BY <1>3, <1>6, RootsKept
<1> QED BY <1>1, <1>2, <1>3, <1>4, <1>5, <1>6, <1>7, OneMoves

LEMMA TickKept ==
  ASSUME IInv, Tick
  PROVE  IInv'
<1>1. Shapes' /\ clock \in Nat /\ clock' = clock + 1 /\ clock' \in Int /\ clock <= clock'
  BY TickShapes DEF IInv
<1>2. /\ UNCHANGED <<att, ill, root, todo, pc, asked, got, made, tree, answer>> /\ held \subseteq held'
      /\ \A p \in Procs : pc[p] \in {"read", "graph"} => got[p] = <<>>
  BY DEF Tick, procVars, Reading
<1>3. HeldNow'
  <2> SUFFICES ASSUME NEW k \in Keys
               PROVE  /\ att[k] \in EdgesAt(held', "att", k, clock')
                      /\ ill[k] \in EdgesAt(held', "ill", k, clock')
    BY <1>2 DEF HeldNow
  <2>1. Hold("att", k, att[k], clock') \in held' /\ Hold("ill", k, ill[k], clock') \in held'
    BY DEF Tick
  <2> QED BY <2>1 DEF EdgesAt, Hold
<1>4. \A t, k : TreeOf(held, clock, t, k) => TreeOf(held', clock', t, k)
  BY <1>1, <1>2, TreeGrows
<1>5. Roots'
  BY <1>2, <1>4 DEF IInv, Roots
<1>6. ASSUME NEW p \in Procs PROVE Local(p)'
  <2>1. Local(p) /\ got'[p] = <<>> /\ Key(p)' = Key(p)
    BY <1>2 DEF IInv, Local, Proc, Key, Name
  <2>2. ReadsNow(p)' /\ ReadsTyped(p)'
    <3>1. \A last, edges, now : \A before \in {0, 5} : ReadsOf(<<>>, last, before, edges, now)
      BY DEF ReadsOf
    <3> QED BY <2>1, <3>1 DEF ReadsNow, ReadsTyped
  <2>3. Proc(p)'
    BY <1>2, <1>4, <2>1, <2>2 DEF Local, Proc
  <2>4. \A a, o, k : Fresh(held, a, o, k) => Fresh(held', a, o, k)
    BY <1>2, FreshGrows
  <2>5. ASSUME p \in Queries PROVE Query(p)'
    BY <1>2, <1>4, <2>1, <2>4, <2>5 DEF Local, Query
  <2> QED BY <2>3, <2>5 DEF Local
<1> QED BY <1>1, <1>3, <1>5, <1>6 DEF IInv

-----------------------------------------------------------------------------
(* The invariant and what it implies *)

LEMMA Starts == Init => IInv
<1> SUFFICES ASSUME Init PROVE IInv
  OBVIOUS
<1>1. Zero \in Metrics /\ \A k \in Keys : Stored[k] \in Metrics
  BY StoredAssumption DEF Zero, Metrics, Unit
<1>2. 0 \in Times /\ -1 <= 0 /\ 0 <= 0
  BY TimeAssumption DEF Times
<1>3. att \in [Keys -> EdgeRecord] /\ ill \in [Keys -> EdgeRecord]
      /\ \A k \in Keys : att[k].last <= 0 /\ ill[k].last <= 0
  BY <1>1, <1>2 DEF Init, NoEdge, Edge, EdgeRecord
<1>4. Shapes
  <2>1. todo \in Seq(Update) /\ clock = 0 /\ first \subseteq Queries
    BY UpdatesAssumption DEF Init
  <2>2. got \in [Procs -> Seq(Int)] /\ \A p \in Procs : Len(got[p]) <= 12
    BY DEF Init
  <2>3. pc = [p \in Procs |-> IF p = Evaluator THEN "next" ELSE "idle"]
    BY DEF Init
  <2>4. /\ pc \in [Procs -> QueryStages \cup EvaluatorStages] /\ pc[Evaluator] = "next"
        /\ \A q \in Queries : pc[q] = "idle"
    BY <2>3, QueriesAssumption DEF Procs, QueryStages, EvaluatorStages
  <2>5. /\ root = [k \in Keys |-> root[k]] /\ asked = [q \in Queries |-> asked[q]]
        /\ made = [p \in Procs |-> made[p]] /\ tree = [q \in Queries |-> tree[q]]
        /\ answer = [q \in Queries |-> answer[q]]
    BY DEF Init
  <2> QED BY <1>2, <1>3, <2>1, <2>2, <2>4, <2>5 DEF Shapes, QueryStages, EvaluatorStages
<1>5. HeldNow
  <2> SUFFICES ASSUME NEW k \in Keys
               PROVE  att[k] \in EdgesAt(held, "att", k, clock) /\ ill[k] \in EdgesAt(held, "ill", k, clock)
    BY DEF HeldNow
  <2>1. Hold("att", k, att[k], 0) \in held /\ Hold("ill", k, ill[k], 0) \in held /\ clock = 0
    BY DEF Init
  <2> QED BY <2>1 DEF EdgesAt, Hold
<1>6. Roots
  BY DEF Init, Roots
<1>7. ASSUME NEW p \in Procs PROVE Local(p)
  <2>1. pc[p] \notin {"read", "graph", "upsert", "written", "orphan"} /\ got[p] = <<>>
    BY DEF Init
  <2>2. p \in Queries => tree[p] = NoTree /\ answer[p] = <<>>
    BY DEF Init
  <2> QED BY <2>1, <2>2 DEF Local, Proc, Query, Fresh
<1> QED BY <1>4, <1>5, <1>6, <1>7 DEF IInv

LEMMA Kept == IInv /\ [Next]_vars => IInv'
<1> SUFFICES ASSUME IInv, [Next]_vars PROVE IInv'
  OBVIOUS
<1>1. CASE UNCHANGED vars
  <2>1. \A p : Key(p)' = Key(p)
    BY <1>1 DEF vars, procVars, Key, Name
  <2> QED BY <1>1, <2>1 DEF vars, procVars, IInv, Shapes, HeldNow, Roots, Local, Proc, Query, ReadsNow,
                            ReadsTyped
<1>2. CASE Tick
  BY <1>2, TickKept
<1>3. CASE EvaluatorStep
  <2>1. Evaluator \in Procs
    BY DEF Procs
  <2> QED BY <1>3, <2>1, EvaluatorKept, ProjectingKept DEF EvaluatorStep
<1>4. ASSUME NEW q \in Queries, QueryStep(q) \/ Deliver(q) \/ Cancel(q) \/ OrphanUpsert(q)
      PROVE  IInv'
  <2>1. q \in Procs
    BY DEF Procs
  <2> QED BY <1>4, <2>1, QueryKept, ProjectingKept DEF QueryStep
<1>5. ASSUME NEW q \in Queries, NEW o \in Options, pc[q] = "idle", Start(q, o) PROVE IInv'
  BY <1>5, QueryKept
<1>6. ASSUME NEW q \in Queries, NEW name \in Names, NEW hint \in Hints,
             LoadAffect(q, name, hint) \/ LoadSummary(q, name, hint)
      PROVE  IInv'
  BY <1>5, <1>6, AgentAsks DEF LoadAffect, LoadSummary
<1>7. ASSUME NEW q \in Queries, NEW input \in ToolInputs, NEW intent \in {"affect", "dialogue"},
             CallDialogueTool(q, intent, input)
      PROVE  IInv'
  BY <1>5, <1>7, ToolAsks DEF CallDialogueTool
<1> QED BY <1>1, <1>2, <1>3, <1>4, <1>6, <1>7 DEF Next

\* What the theorems below rest on, in every state the graph and its callers reach.
LEMMA Invariant == Spec => []IInv
BY Starts, Kept, PTL DEF Spec

LEMMA TreeTyped ==
  ASSUME Shapes, NEW k \in Keys, TreeOf(held, clock, root[k], k)
  PROVE  /\ root[k].core \in Metrics /\ root[k].illusion \in Metrics
         /\ root[k].stamp \in 0 .. clock /\ root[k].depth4 \in 0 .. 4 * Unit
         /\ SummaryFromTree(root[k]) = SummaryFromGraph(root[k].core, root[k].hint)
         /\ AffectFromTree(root[k], root[k].hint).depth4
              = AffectFromGraph(root[k].core, root[k].illusion, root[k].hint).depth4
<1>1. PICK t : t = root[k]
  OBVIOUS
<1>2. /\ t = Tree(t.name, t.core, t.illusion, t.hint, t.stamp) /\ t.stamp \in 0 .. clock
      /\ t.core \in Metrics /\ t.illusion \in Metrics /\ t.hint \in 0 .. Unit
  BY <1>1 DEF TreeOf, IsTree
<1>3. /\ t.depth4 = Depth4(t.core, t.hint) /\ t.familiarity = Familiarity(Depth4(t.core, t.hint))
      /\ t.trust = TrustState(t.core["trust"]) /\ t.tension = TensionState(t.core["tension"])
  BY <1>2 DEF Tree
<1>4. /\ Depth4(t.core, t.hint) \in 0 .. 4 * Unit
      /\ Max({t.depth4, 4 * t.hint}) = Depth4(t.core, t.hint)
      /\ FallbackDepth4(t.core, t.hint) = Depth4(t.core, t.hint)
  BY <1>2, <1>3, DepthInRange
<1>5. SummaryFromTree(t) = SummaryFromGraph(t.core, t.hint)
  BY <1>3, <1>4 DEF SummaryFromTree, SummaryFromGraph, Familiarity, TrustState, TensionState
<1>6. AffectFromTree(t, t.hint).depth4 = AffectFromGraph(t.core, t.illusion, t.hint).depth4
  BY <1>4 DEF AffectFromTree, AffectFromGraph
<1> QED BY <1>1, <1>2, <1>3, <1>4, <1>5, <1>6

\* Edges and trees keep every metric within -1 and 1 whatever deltas the model
\* returns and however the store decays them, and no tree is stamped ahead of
\* the clock (graph.rs, update_social_graph and project_social_tree).
THEOREM TypeCorrect == Spec => []TypeOK
<1>1. IInv => TypeOK
  <2> SUFFICES ASSUME IInv PROVE TypeOK
    OBVIOUS
  <2>1. ASSUME NEW k \in Keys, root[k] # NoTree
        PROVE  /\ root[k].core \in Metrics /\ root[k].illusion \in Metrics
               /\ root[k].stamp \in 0 .. clock /\ root[k].depth4 \in 0 .. 4 * Unit
    BY <2>1, TreeTyped DEF IInv, Roots
  <2> QED BY <2>1 DEF IInv, Shapes, EdgeRecord, TypeOK
<1> QED BY <1>1, Invariant, PTL

\* An answer called tree_fresh under a staleness limit shows, field by field,
\* what the graph held within that limit, for any number of callers, wherever
\* the statements of their projections are torn apart (social_context.rs,
\* classify_tree_snapshot).
THEOREM FreshAnswersRecent == Spec => []FreshIsRecent
<1>1. IInv => FreshIsRecent
  <2> SUFFICES ASSUME IInv, NEW q \in Queries
               PROVE  Fresh(held, answer[q], asked[q], Key(q))
    BY DEF FreshIsRecent, Fresh, Recent, RecentIn
  <2> QED BY DEF IInv, Local, Query, Procs
<1> QED BY <1>1, Invariant, PTL

\* Every stored tree gives the summary and the depth that the fall-back on the
\* edges would compute from the same metrics, with its own copy of the
\* thresholds (social_context.rs, build_dialogue_summary_from_graph).
THEOREM TreesAgreeWithEdges == Spec => []PathsAgree
<1>1. IInv => PathsAgree
  BY TreeTyped DEF IInv, Roots, PathsAgree
<1> QED BY <1>1, Invariant, PTL
=============================================================================
