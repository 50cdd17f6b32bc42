------------------------------ MODULE SocialGraph ------------------------------
(***************************************************************************)
(* What the agent feels for a user (libs/memory/src/graph.rs): an edge of  *)
(* attitudes and one of illusions in the graph store, the social tree that *)
(* is projected from the two and stored beside them, and the queries of    *)
(* libs/cognitive/src/social_context.rs that answer from the tree while it *)
(* is fresh and fall back on the edges.                                    *)
(*                                                                         *)
(* The affect evaluator is the one writer of the edges (one evaluation at  *)
(* a time); it and every query may project.  The store runs each statement *)
(* of a query in a transaction of its own, so a projection reads twelve    *)
(* values at twelve moments.  Metrics are in hundredths.                   *)
(***************************************************************************)
EXTENDS Integers, Sequences, FiniteSets, SequencesExt, FiniteSetsExt

CONSTANTS
  Names,      \* user ids as callers write them
  Keys,       \* and as record ids spell them, quotes removed
  KeyOf,      \* the key of each name
  Queries,    \* callers that query social context, again and again
  Hints,      \* how much history a caller of the agent's own goes by
  ToolInputs, \* what tools are called with: see ToolInput
  AffectLimit, DialogueLimit, \* staleness the two accept (5 and 30 minutes)
  Updates,    \* what the evaluator writes, in order: see Update
  Stored,     \* the attitudes that an earlier process left under each key
  Breaks,     \* after which statements of a query others may step (all of 1 .. 12)
  Day,        \* how many ticks a day of the decay has
  Decay(_, _), \* a metric after some days: 0.99 to their number of it
  MaxTime     \* bound on the clock

Fields == {"affinity", "attachment", "trust", "safety", "tension"}
Unit == 100
MaxDelta == 30
Metrics == [Fields -> -Unit .. Unit]
Zero == [f \in Fields |-> 0]
NoLimit == -1
Times == 0 .. MaxTime

\* What a query is asked; a tool's may be cancelled.
Options == [name : Names, intent : {"affect", "dialogue"}, hint : 0 .. Unit,
            limit : Nat \cup {NoLimit}, force : BOOLEAN, allow : BOOLEAN,
            tool : BOOLEAN]
\* A tool's arguments: each but the name may be left out, as <<>>.
ToolInput == [name : Names, hint : Seq(Int), limit : Seq(Int),
              force : Seq(BOOLEAN), allow : Seq(BOOLEAN)]
Or(given, default) == IF given = <<>> THEN default ELSE given[1]
\* One entry of social_updates: illusion is <<>> when the entry has none.
Update == [name : Names, hint : 0 .. Unit,
           delta : [Fields -> Int], illusion : Seq([Fields -> Int])]

ASSUME NamesAssumption == KeyOf \in [Names -> Keys]
ASSUME RequestsAssumption ==
  /\ Hints \subseteq 0 .. Unit /\ ToolInputs \subseteq ToolInput
  /\ AffectLimit \in Times /\ DialogueLimit \in Times
ASSUME UpdatesAssumption == Updates \in Seq(Update)
ASSUME BreaksAssumption == Breaks \subseteq 1 .. 12 /\ 12 \in Breaks
ASSUME StoredAssumption == Stored \in [Keys -> Metrics]
ASSUME TimeAssumption == Day \in Nat \ {0} /\ MaxTime \in Nat
ASSUME DecayAssumption ==
  \A v \in -Unit .. Unit, days \in 0 .. MaxTime : Decay(v, days) \in -Unit .. Unit

Evaluator == "evaluator"
ASSUME QueriesAssumption == Evaluator \notin Queries
Procs == Queries \cup {Evaluator}

VARIABLES
  clock,
  att,       \* attitudes_towards, by key
  ill,       \* illusion_of, by key
  root,      \* social_tree_root, by key
  todo,      \* the updates the evaluator has still to write
  pc,        \* where each query, and the evaluator, is
  asked,     \* what each query asks
  first,     \* queries that have not yet been refused a stale tree
  got,       \* the values a multi-statement query has read so far
  made,      \* the tree a projection is writing
  tree,      \* the tree a query has in hand
  answer,    \* what it answered
  held       \* every value an edge has had, with the time: for the properties

graphVars == <<att, ill, held>>
procVars == <<asked, first, got, made, tree, answer>>
vars == <<clock, att, ill, root, todo, pc, procVars, held>>

-----------------------------------------------------------------------------
(* Edges *)

Abs(x) == IF x < 0 THEN -x ELSE x
Clamp(x, lo, hi) == IF x < lo THEN lo ELSE IF x > hi THEN hi ELSE x

Edge(values, last) == [values |-> values, last |-> last]
NoEdge == Edge(Zero, -1)

\* Mutation: the sum is stored as it is.
UnclampedUpdate(edge, delta) ==
  Edge([f \in Fields |-> edge.values[f] + Clamp(delta[f], -MaxDelta, MaxDelta)], clock)
\* CREATE of an edge of zeros if there is none, then UPDATE: an edge of zeros
\* reads as a missing one, so the two are one step.
Updated(edge, delta) ==
  Edge([f \in Fields |->
          Clamp(edge.values[f] + Clamp(delta[f], -MaxDelta, MaxDelta), -Unit, Unit)],
       clock)

\* By the days since the edge was written; a missing edge has no time.
Decayed(v, last, now) == Decay(v, IF last < 0 THEN 0 ELSE (now - last) \div Day)

Hold(kind, k, edge, t) == [kind |-> kind, key |-> k, edge |-> edge, at |-> t]

-----------------------------------------------------------------------------
(* Trees *)

\* Four times the depth, so that its mean stays whole.  The projection has one copy
\* of it, and the fall-back on the edges another.
GraphDepth4(values) ==
  Abs(values["affinity"]) + Abs(values["attachment"]) + Abs(values["trust"]) + Abs(values["safety"])
Depth4(values, hint) == Clamp(GraphDepth4(values) + 4 * Min({hint, Unit}), 0, 4 * Unit)
FallbackDepth4(values, hint) == Min({GraphDepth4(values) + 4 * hint, 4 * Unit})
Familiarity(depth4) == IF depth4 >= 4 * 66 THEN "close"
                       ELSE IF depth4 >= 4 * 25 THEN "known" ELSE "new"
TrustState(v) == IF v >= 35 THEN "stable"
                 ELSE IF v <= -20 THEN "fragile" ELSE "neutral"
TensionState(v) == IF v >= 55 THEN "high" ELSE IF v >= 25 THEN "medium" ELSE "low"

\* The tree projected from what the statements read; hint is kept for PathsAgree.
Tree(name, values, illusion, hint, stamp) ==
  [name |-> name, core |-> values, illusion |-> illusion,
   depth4 |-> Depth4(values, hint),
   familiarity |-> Familiarity(Depth4(values, hint)),
   trust |-> TrustState(values["trust"]), tension |-> TensionState(values["tension"]),
   stamp |-> stamp, hint |-> hint]
NoTree == <<>>

\* Mutation: tension is high only from 0.60 on, in this copy of the thresholds.
DriftedSummaryFromGraph(values, hint) ==
  [familiarity |-> Familiarity(FallbackDepth4(values, hint)),
   trust |-> TrustState(values["trust"]),
   tension |-> IF values["tension"] >= 60 THEN "high" ELSE
               IF values["tension"] >= 30 THEN "medium" ELSE "low"]
\* build_dialogue_summary_from_graph has its own copy of the thresholds.
SummaryFromGraph(values, hint) ==
  [familiarity |-> IF FallbackDepth4(values, hint) >= 264 THEN "close"
                   ELSE IF FallbackDepth4(values, hint) >= 100 THEN "known" ELSE "new",
   trust |-> IF values["trust"] >= 35 THEN "stable"
             ELSE IF values["trust"] <= -20 THEN "fragile" ELSE "neutral",
   tension |-> IF values["tension"] >= 55 THEN "high"
               ELSE IF values["tension"] >= 25 THEN "medium" ELSE "low"]
SummaryFromTree(t) ==
  [familiarity |-> t.familiarity, trust |-> t.trust, tension |-> t.tension]
AffectFromTree(t, hint) ==
  [core |-> t.core, illusion |-> t.illusion,
   depth4 |-> Max({t.depth4, 4 * hint}),
   known |-> t.core # Zero \/ t.illusion # Zero]
AffectFromGraph(values, illusion, hint) ==
  [core |-> values, illusion |-> illusion, depth4 |-> FallbackDepth4(values, hint),
   known |-> TRUE]
DefaultAffect(hint) ==
  [core |-> Zero, illusion |-> Zero, depth4 |-> 4 * hint, known |-> FALSE]

NotAsked == <<>>

-----------------------------------------------------------------------------
Init ==
  /\ clock = 0
  /\ att = [k \in Keys |-> IF Stored[k] = Zero THEN NoEdge ELSE Edge(Stored[k], 0)]
  /\ ill = [k \in Keys |-> NoEdge] /\ root = [k \in Keys |-> NoTree]
  /\ todo = Updates
  /\ pc = [p \in Procs |-> IF p = Evaluator THEN "next" ELSE "idle"]
  /\ asked = [q \in Queries |-> NotAsked] /\ first = Queries /\ got = [p \in Procs |-> <<>>]
  /\ made = [p \in Procs |-> NoTree] /\ tree = [q \in Queries |-> NoTree]
  /\ answer = [q \in Queries |-> <<>>]
  /\ held = {Hold("att", k, att[k], 0) : k \in Keys} \cup {Hold("ill", k, ill[k], 0) : k \in Keys}

\* A query of several statements is answered within a tick.
Reading == \E p \in Procs : pc[p] \in {"read", "graph"} /\ got[p] # <<>>

Tick ==
  /\ clock < MaxTime /\ ~Reading
  /\ clock' = clock + 1
  /\ held' = held \cup {Hold("att", k, att[k], clock') : k \in Keys}
                  \cup {Hold("ill", k, ill[k], clock') : k \in Keys}
  /\ UNCHANGED <<att, ill, root, todo, pc, procVars>>

-----------------------------------------------------------------------------
(* Reading the edges, statement by statement *)

FieldOrder == <<"affinity", "attachment", "trust", "safety", "tension">>
Name(p) == IF p = Evaluator THEN Head(todo).name ELSE asked[p].name
Hint(p) == IF p = Evaluator THEN Head(todo).hint ELSE asked[p].hint
Key(p) == KeyOf[Name(p)]

Statement(k, i) ==
  IF i <= 5 THEN att[k].values[FieldOrder[i]]
  ELSE IF i <= 10 THEN ill[k].values[FieldOrder[i - 5]]
  ELSE IF i = 11 THEN att[k].last ELSE ill[k].last

Metric(read, from, last) ==
  [f \in Fields |->
     Decayed(read[from + (CHOOSE i \in 1 .. 5 : FieldOrder[i] = f)], last, clock)]
Attitudes(read) == Metric(read, 0, read[11])
Illusion(read) == Metric(read, 5, read[12])

Answer(q, source, body) ==
  /\ answer' = [answer EXCEPT ![q] = [source |-> source, body |-> body, at |-> clock]]
  /\ pc' = [pc EXCEPT ![q] = "answered"]

ReadNext(p) ==
  /\ pc[p] \in {"read", "graph"} /\ Len(got[p]) < 12
  /\ LET from == Len(got[p])
         to == Min({i \in Breaks : i > from})
     IN  got' = [got EXCEPT ![p] =
                   @ \o [i \in 1 .. to - from |-> Statement(Key(p), from + i)]]
  /\ UNCHANGED <<clock, graphVars, root, todo, pc, asked, first, made, tree, answer>>

\* project_social_tree: the stamp is the time at which the values are in.
Project(p) ==
  /\ pc[p] = "read" /\ Len(got[p]) = 12
  /\ made' = [made EXCEPT ![p] =
       Tree(Name(p), Attitudes(got[p]), Illusion(got[p]), Hint(p), clock)]
  /\ got' = [got EXCEPT ![p] = <<>>]
  /\ pc' = [pc EXCEPT ![p] = "upsert"]
  /\ UNCHANGED <<clock, graphVars, root, todo, asked, first, tree, answer>>

\* Mutation: the tree is stamped with the time it is stored.
StampedLate(p) == [made[p] EXCEPT !.stamp = clock]
\* What is written over the root of the user's key.
Content(p) == made[p]
Upsert(p) ==
  /\ pc[p] = "upsert"
  /\ root' = [root EXCEPT ![Key(p)] = Content(p)]
  /\ made' = [made EXCEPT ![p] = Content(p)]
  /\ pc' = [pc EXCEPT ![p] = "written"]
  /\ UNCHANGED <<clock, graphVars, todo, asked, first, got, tree, answer>>

-----------------------------------------------------------------------------
(* Queries *)

Stale(q, t) ==
  /\ asked[q].limit # NoLimit
  /\ clock - t.stamp > asked[q].limit

FromTree(q, t) == IF asked[q].intent = "affect"
                  THEN AffectFromTree(t, asked[q].hint) ELSE SummaryFromTree(t)

\* classify_tree_snapshot: no answer sends the query to the edges.
Classify(q, t) ==
  IF ~Stale(q, t) THEN Answer(q, "tree_fresh", FromTree(q, t))
  ELSE IF asked[q].allow THEN Answer(q, "tree_stale", FromTree(q, t))
  ELSE pc' = [pc EXCEPT ![q] = "graph"] /\ UNCHANGED answer

\* The first tree, if stale, is projected again; force_project has just done so.
Receive(q, t) ==
  /\ tree' = [tree EXCEPT ![q] = t]
  /\ IF q \in first /\ ~asked[q].force /\ Stale(q, t)
     THEN pc' = [pc EXCEPT ![q] = "read"] /\ first' = first \ {q} /\ UNCHANGED answer
     ELSE Classify(q, t) /\ UNCHANGED first

Start(q, options) ==
  /\ asked' = [asked EXCEPT ![q] = options] /\ first' = first \cup {q}
  /\ pc' = [pc EXCEPT ![q] = IF options.force THEN "read" ELSE "find"]
  /\ UNCHANGED <<clock, graphVars, root, todo, got, made, tree, answer>>

OptionsFor(name, intent, hint) ==
  [name |-> name, intent |-> intent, hint |-> hint,
   limit |-> IF intent = "affect" THEN AffectLimit ELSE DialogueLimit,
   force |-> FALSE, allow |-> TRUE, tool |-> FALSE]
LoadAffect(q, name, hint) == pc[q] = "idle" /\ Start(q, OptionsFor(name, "affect", hint))
LoadSummary(q, name, hint) == pc[q] = "idle" /\ Start(q, OptionsFor(name, "dialogue", hint))

\* A tool that leaves the staleness out has no limit, not the default one.
ToolOptions(intent, input) ==
  [name |-> input.name, intent |-> intent, hint |-> Clamp(Or(input.hint, 0), 0, Unit),
   limit |-> IF input.limit = <<>> THEN NoLimit ELSE Max({input.limit[1], 0}),
   force |-> Or(input.force, FALSE), allow |-> Or(input.allow, TRUE), tool |-> TRUE]
\* The tools of the dialogue model and of the MCP server; a blank name is refused
\* before anything happens.
CallDialogueTool(q, intent, input) ==
  pc[q] = "idle" /\ Start(q, ToolOptions(intent, input))

Idle(q) ==
  pc' = [pc EXCEPT ![q] = "idle"] /\ asked' = [asked EXCEPT ![q] = NotAsked]

\* The caller has its answer and may ask again.
Deliver(q) ==
  /\ pc[q] = "answered" /\ Idle(q)
  /\ answer' = [answer EXCEPT ![q] = <<>>] /\ tree' = [tree EXCEPT ![q] = NoTree]
  /\ UNCHANGED <<clock, graphVars, root, todo, first, got, made>>

\* get_social_tree_snapshot looks for the name as it was asked.
Found(q) ==
  LET t == root[Key(q)]
  IN  /\ pc[q] = "find" /\ t # NoTree /\ t.name = Name(q)
      /\ Receive(q, t)
      /\ UNCHANGED <<clock, graphVars, root, todo, asked, got, made>>

\* No such root, or any error: the tree is projected.
NotFound(q) ==
  /\ pc[q] = "find"
  /\ pc' = [pc EXCEPT ![q] = "read"]
  /\ UNCHANGED <<clock, graphVars, root, todo, procVars>>

Projected(q) ==
  /\ pc[q] = "written" /\ q \in Queries
  /\ Receive(q, made[q])
  /\ made' = [made EXCEPT ![q] = NoTree]
  /\ UNCHANGED <<clock, graphVars, root, todo, asked, got>>

\* Mutation: a projection that fails is tried again.
ProjectAgain(q) == pc' = [pc EXCEPT ![q] = "read"] /\ UNCHANGED <<answer, first>>
\* After an error the query keeps the stale tree, or has none.
WithoutProjection(q) ==
  /\ UNCHANGED first
  /\ IF tree[q] = NoTree
     THEN pc' = [pc EXCEPT ![q] = "graph"] /\ UNCHANGED answer
     ELSE Classify(q, tree[q])
\* The read may fail, or the write of what was read.
ProjectFails(q) ==
  /\ q \in Queries /\ pc[q] \in {"read", "upsert"} /\ got[q] = <<>>
  /\ WithoutProjection(q)
  /\ made' = [made EXCEPT ![q] = NoTree]
  /\ UNCHANGED <<clock, graphVars, root, todo, asked, got, tree>>

GraphFallback(q) ==
  LET values == Attitudes(got[q])  hint == asked[q].hint
  IN  /\ pc[q] = "graph" /\ Len(got[q]) = 12
      /\ Answer(q, "graph_fallback",
                IF asked[q].intent = "affect"
                THEN AffectFromGraph(values, Illusion(got[q]), hint)
                ELSE SummaryFromGraph(values, hint))
      /\ got' = [got EXCEPT ![q] = <<>>]
      /\ UNCHANGED <<clock, graphVars, root, todo, asked, first, made, tree>>

\* The edges cannot be read: a default context for affect, none for dialogue.
DefaultFallback(q) ==
  /\ pc[q] = "graph" /\ got[q] = <<>>
  /\ Answer(q, "default_fallback",
            IF asked[q].intent = "affect" THEN DefaultAffect(asked[q].hint)
            ELSE <<>>)
  /\ UNCHANGED <<clock, graphVars, root, todo, asked, first, got, made, tree>>

\* A tool's time is up: what it awaits is dropped, but a write that the store
\* has been handed may still happen.
Cancel(q) ==
  /\ pc[q] \in {"find", "read", "upsert", "written", "graph"} /\ asked[q].tool
  /\ IF pc[q] = "upsert"
     THEN pc' = [pc EXCEPT ![q] = "orphan"] /\ UNCHANGED <<asked, made>>
     ELSE Idle(q) /\ made' = [made EXCEPT ![q] = NoTree]
  /\ got' = [got EXCEPT ![q] = <<>>] /\ tree' = [tree EXCEPT ![q] = NoTree]
  /\ UNCHANGED <<clock, graphVars, root, todo, first, answer>>

OrphanUpsert(q) ==
  /\ pc[q] = "orphan"
  /\ root' \in {root, [root EXCEPT ![Key(q)] = Content(q)]}
  /\ Idle(q) /\ made' = [made EXCEPT ![q] = NoTree]
  /\ UNCHANGED <<clock, graphVars, todo, first, got, tree, answer>>

-----------------------------------------------------------------------------
(* The evaluator: attitudes, projection, illusion, for each entry in turn *)

Evaluate ==
  /\ pc[Evaluator] = "next" /\ todo # <<>>
  /\ pc' = [pc EXCEPT ![Evaluator] = "att"]
  /\ UNCHANGED <<clock, graphVars, root, todo, procVars>>

UpdateSocialGraph ==
  LET k == Key(Evaluator)
  IN  /\ pc[Evaluator] = "att"
      /\ att' = [att EXCEPT ![k] = Updated(@, Head(todo).delta)]
      /\ held' = held \cup {Hold("att", k, att'[k], clock)}
      /\ pc' = [pc EXCEPT ![Evaluator] = "read"]
      /\ UNCHANGED <<clock, ill, root, todo, procVars>>

\* Errors are logged; what comes next is done all the same.
UpdateFails ==
  /\ pc[Evaluator] = "att"
  /\ pc' = [pc EXCEPT ![Evaluator] = "read"]
  /\ UNCHANGED <<clock, graphVars, root, todo, procVars>>

EvaluatorProjected ==
  /\ \/ pc[Evaluator] = "written"
     \/ pc[Evaluator] \in {"read", "upsert"} /\ got[Evaluator] = <<>>  \* failed
  /\ pc' = [pc EXCEPT ![Evaluator] = "ill"]
  /\ made' = [made EXCEPT ![Evaluator] = NoTree]
  /\ UNCHANGED <<clock, graphVars, root, todo, asked, first, got, tree, answer>>

\* Only after the projection, and only for the chat partner.
UpdateIllusionGraph ==
  LET k == Key(Evaluator)
  IN  /\ pc[Evaluator] = "ill" /\ Head(todo).illusion # <<>>
      /\ ill' = [ill EXCEPT ![k] = Updated(@, Head(Head(todo).illusion))]
      /\ held' = held \cup {Hold("ill", k, ill'[k], clock)}
      /\ todo' = Tail(todo) /\ pc' = [pc EXCEPT ![Evaluator] = "next"]
      /\ UNCHANGED <<clock, att, root, procVars>>

\* No illusion in the entry, or its update fails.
NoIllusion ==
  /\ pc[Evaluator] = "ill"
  /\ todo' = Tail(todo) /\ pc' = [pc EXCEPT ![Evaluator] = "next"]
  /\ UNCHANGED <<clock, graphVars, root, procVars>>

-----------------------------------------------------------------------------
Projecting(p) == ReadNext(p) \/ Project(p) \/ Upsert(p)
QueryStep(q) ==
  \/ Found(q) \/ NotFound(q) \/ Projecting(q) \/ Projected(q) \/ ProjectFails(q)
  \/ GraphFallback(q) \/ DefaultFallback(q)
EvaluatorStep ==
  \/ Evaluate \/ UpdateSocialGraph \/ UpdateFails \/ Projecting(Evaluator)
  \/ EvaluatorProjected \/ UpdateIllusionGraph \/ NoIllusion

Next ==
  \/ Tick \/ EvaluatorStep
  \/ \E q \in Queries : QueryStep(q) \/ Deliver(q) \/ Cancel(q) \/ OrphanUpsert(q)
  \/ \E q \in Queries, name \in Names, hint \in Hints :
       LoadAffect(q, name, hint) \/ LoadSummary(q, name, hint)
  \/ \E q \in Queries, input \in ToolInputs, intent \in {"affect", "dialogue"} :
       CallDialogueTool(q, intent, input)

Spec == Init /\ [][Next]_vars
\* The runtime polls each task whose call has returned, and the store answers
\* each call or reports an error.
FairSpec == Spec /\ \A q \in Queries : WF_vars(QueryStep(q))

-----------------------------------------------------------------------------
(* Properties *)

\* Edges and trees keep every metric within -1 and 1 whatever deltas the model
\* returns, and no tree is stamped ahead of the clock.
TypeOK ==
  /\ clock \in Times
  /\ \A k \in Keys :
       /\ att[k].values \in Metrics /\ ill[k].values \in Metrics
       /\ att[k].last \in Times \cup {-1} /\ ill[k].last \in Times \cup {-1}
       /\ root[k] # NoTree =>
            /\ root[k].core \in Metrics /\ root[k].illusion \in Metrics
            /\ root[k].stamp \in 0 .. clock /\ root[k].depth4 \in 0 .. 4 * Unit
  /\ first \subseteq Queries /\ \A p \in Procs : Len(got[p]) <= 12

\* What the edge's field was, or its decay, between limit ticks before t and t.
Recent(kind, k, t, limit, f) ==
  UNION {{Decayed(h.edge.values[f], last, h.at) : last \in {-1, h.edge.last}} :
           h \in {g \in held : g.kind = kind /\ g.key = k /\ g.at \in (t - limit) .. t}}

\* An answer called tree_fresh under a staleness limit tells only what the
\* graph itself held within that limit, field by field, whatever projections
\* and updates overlapped: a slow projection that overwrites a newer tree, or
\* a read torn by an update, may mix values but never pass off old ones.
FreshIsRecent ==
  \A q \in Queries :
    LET a == answer[q]  o == asked[q]  k == Key(q)
    IN  a # <<>> => (o.limit # NoLimit /\ a.source = "tree_fresh" =>
          IF o.intent = "affect"
          THEN \A f \in Fields :
                 /\ a.body.core[f] \in Recent("att", k, a.at, o.limit, f)
                 /\ a.body.illusion[f] \in Recent("ill", k, a.at, o.limit, f)
          ELSE /\ \E v \in Recent("att", k, a.at, o.limit, "trust") :
                    TrustState(v) = a.body.trust
               /\ \E v \in Recent("att", k, a.at, o.limit, "tension") :
                    TensionState(v) = a.body.tension)

\* A tree and the edges it was projected from tell the dialogue the same
\* summary and the affect prompt the same metrics: the two fall-back paths
\* compute them with code of their own.
PathsAgree ==
  \A k \in Keys : root[k] # NoTree =>
    /\ SummaryFromTree(root[k]) = SummaryFromGraph(root[k].core, root[k].hint)
    /\ AffectFromTree(root[k], root[k].hint).depth4
         = AffectFromGraph(root[k].core, root[k].illusion, root[k].hint).depth4

\* Every query that is not cancelled is answered, however the store fails and
\* however often its tree turns out stale.
QueriesAreAnswered ==
  \A q \in Queries : pc[q] = "find" ~> pc[q] \in {"answered", "idle", "orphan"}
=============================================================================
