----------------------------- MODULE StateWorkers -----------------------------
(***************************************************************************)
(* The workers that turn what is broadcast into changes of the state: the  *)
(* command, user, goal, environment and intent workers of                  *)
(* libs/state/src/lib.rs and the affect evaluator of                       *)
(* libs/cognitive/src/affect_evaluator.rs, with the cache of recent ids    *)
(* that keeps a message from counting twice.                               *)
(*                                                                         *)
(* StateStore has what happens inside the store: here a batch of deltas is *)
(* one step, and a manual patch, which never returns there, blocks every   *)
(* later batch.  Intent events have handlers but no publisher in this      *)
(* repository: Events says what is published.                              *)
(***************************************************************************)
EXTENDS Integers, Sequences, FiniteSets, SequencesExt, FiniteSetsExt

CONSTANTS
  Ids,               \* message ids
  NoId,              \* the blank one, or none in a response
  Events,            \* what may be broadcast: see RawEvent, Response, IntentEvent
  Teams,             \* sets of workers to run beside the affect evaluator
  KnownKeys,         \* keys that normalize_dimension_key knows
  EventCacheMax,     \* ids remembered for each source (2048)
  BroadcastCapacity, \* as in AgentRuntime
  Permits,           \* evaluations at a time (1)
  MaxEvents          \* bound on the events published

Workers == {"command", "user", "goal", "environment", "intent"}
Sources == {"state_command", "state_user_raw", "state_user_intent",
            "state_user_response", "state_goal_raw", "state_goal_intent",
            "state_env_raw", "state_env_response", "intent", "affect"}

\* A command is /state, !state or #state and its tokens, <<>> in other messages.
Token == [key : STRING, op : {"set", "delta", "malformed"}]
RawEvent == [type : {"raw"}, id : Ids \cup {NoId}, mention : BOOLEAN, dm : BOOLEAN,
             cli : BOOLEAN, tokens : Seq(Token)]
Response == [type : {"response"}, id : Ids \cup {NoId}, cloud : BOOLEAN, reply_to : BOOLEAN]
IntentEvent == [type : {"intent"}, id : Ids \cup {NoId}, confident : BOOLEAN,
                intent : {"insult", "command", "question", "chitchat", "complex", "noise"},
                sentiment : {"positive", "negative", "neutral"}]

ASSUME EventsAssumption ==
  NoId \notin Ids /\ \A e \in Events : e \in RawEvent \cup Response \cup IntentEvent
ASSUME TeamsAssumption == \A team \in Teams : team \subseteq Workers
ASSUME CacheAssumption == EventCacheMax \in Nat \ {0}
ASSUME BoundsAssumption ==
  /\ BroadcastCapacity \in Nat \ {0} /\ Permits \in Nat \ {0} /\ MaxEvents \in Nat

VARIABLES
  team,      \* the workers that run
  published, \* how many events have been
  inbox,     \* what each worker has still to receive
  stage,     \* where each worker is
  hand,      \* the event it handles
  cache,     \* event_cache: the ids remembered for each source, oldest first
  stuck,     \* a manual patch holds the values for good
  tasks,     \* evaluations: see Task
  stopping,  \* the shutdown signal has been sent
  marks,     \* every id ever marked as new, by source: for the properties
  done       \* and every id whose handling ended: for the properties

busVars == <<team, published, inbox>>
workerVars == <<stage, hand>>
historyVars == <<marks, done>>
vars == <<busVars, workerVars, cache, stuck, tasks, stopping, historyVars>>

Listeners == team \cup {"affect"}
\* One spawned evaluation, by the number it was spawned under.
Task(id, at) == [id |-> id, at |-> at]
TaskStages == {"queued", "asking", "marking", "applying", "over"}

Init ==
  /\ team \in Teams /\ published = 0
  /\ inbox = [w \in Listeners |-> <<>>]
  /\ stage = [w \in Listeners |-> "idle"] /\ hand = [w \in Listeners |-> <<>>]
  /\ cache = [s \in Sources |-> <<>>] /\ stuck = FALSE /\ tasks = <<>>
  /\ stopping = FALSE
  /\ marks = [s \in Sources |-> <<>>] /\ done = [s \in Sources |-> <<>>]

-----------------------------------------------------------------------------
(* The ids remembered: RecentIdSet *)

\* Mutation: the newest id makes room.
KeepOldest(ids, id) == IF Len(ids) < EventCacheMax THEN Append(ids, id) ELSE ids
\* insert: the oldest ids make room.
Remember(ids, id) ==
  LET all == Append(ids, id)
  IN  IF Len(all) > EventCacheMax THEN Tail(all) ELSE all

IsNew(source, id) == id = NoId \/ id \notin ToSet(cache[source])
HasRecent(source, id) == id # NoId /\ id \in ToSet(cache[source])

\* mark_event_if_new for an id that is new; blank ids are not remembered.
MarkNew(source, id) ==
  IF id = NoId THEN UNCHANGED <<cache, marks>>
  ELSE /\ cache' = [cache EXCEPT ![source] = Remember(@, id)]
       /\ marks' = [marks EXCEPT ![source] = Append(@, id)]
Finish(source, id) ==
  IF id = NoId THEN UNCHANGED done
  ELSE done' = [done EXCEPT ![source] = Append(@, id)]

-----------------------------------------------------------------------------
(* Which events each worker handles, under which source it marks them *)

Addressed(e) == e.mention \/ e.dm
\* parse_state_command: what does not parse, or names no known key, is left out.
Parsed(e) == SelectSeq(e.tokens, LAMBDA t : t.op # "malformed" /\ t.key \in KnownKeys)
Sets(e) == SelectSeq(Parsed(e), LAMBDA t : t.op = "set")
Deltas(e) == SelectSeq(Parsed(e), LAMBDA t : t.op = "delta")

CommandSource(e) ==
  IF e.type = "raw" /\ (Addressed(e) \/ e.cli) /\ Parsed(e) # <<>>
  THEN {"state_command"} ELSE {}
UserSource(e) ==
  CASE e.type = "raw" -> IF Addressed(e) THEN {"state_user_raw"} ELSE {}
    [] e.type = "intent" -> IF e.confident THEN {"state_user_intent"} ELSE {}
    [] OTHER -> IF e.cloud /\ e.reply_to /\ e.id # NoId
                THEN {"state_user_response"} ELSE {}
GoalSource(e) ==
  CASE e.type = "raw" -> IF Addressed(e) THEN {"state_goal_raw"} ELSE {}
    [] e.type = "intent" -> IF e.confident THEN {"state_goal_intent"} ELSE {}
    [] OTHER -> {}
EnvironmentSource(e) ==
  CASE e.type = "raw" -> IF Addressed(e) THEN {"state_env_raw"} ELSE {}
    [] e.type = "response" -> IF e.cloud /\ e.id # NoId
                              THEN {"state_env_response"} ELSE {}
    [] OTHER -> {}
IntentSource(e) == IF e.type = "intent" /\ e.confident THEN {"intent"} ELSE {}

\* The source that worker w marks e under, or nothing if it skips e.
SourceOf(w, e) ==
  CASE w = "command" -> CommandSource(e)
    [] w = "user" -> UserSource(e)
    [] w = "goal" -> GoalSource(e)
    [] w = "environment" -> EnvironmentSource(e)
    [] w = "intent" -> IntentSource(e)
Source(w) == CHOOSE s \in SourceOf(w, hand[w][1]) : TRUE

\* Some events are marked and then move nothing.
HasUpdates(w, e) ==
  CASE w = "intent" -> e.intent # "noise" /\ e.sentiment # "neutral"
    [] w = "user" /\ e.type = "intent" -> e.sentiment # "neutral"
    [] w = "goal" /\ e.type = "intent" -> e.intent # "noise"
    [] w = "command" -> Deltas(e) # <<>>
    [] OTHER -> TRUE

-----------------------------------------------------------------------------
(* Events *)

\* A receiver that lags behind loses what it has not received.
Publish(e) ==
  /\ published < MaxEvents /\ published' = published + 1
  /\ inbox' = [w \in Listeners |->
                 LET all == Append(inbox[w], e)
                 IN  IF stage[w] = "stopped" THEN <<>>
                     ELSE IF Len(all) > BroadcastCapacity THEN Tail(all) ELSE all]
  /\ UNCHANGED <<team, workerVars, cache, stuck, tasks, stopping, historyVars>>

Shutdown ==
  /\ ~stopping /\ stopping' = TRUE
  /\ UNCHANGED <<busVars, workerVars, cache, stuck, tasks, historyVars>>

\* Workers see the signal between two events.
StopWorker(w) ==
  /\ stopping /\ stage[w] = "idle"
  /\ stage' = [stage EXCEPT ![w] = "stopped"] /\ inbox' = [inbox EXCEPT ![w] = <<>>]
  \* the evaluator aborts its tasks wherever they are
  /\ tasks' = IF w = "affect" THEN [n \in DOMAIN tasks |-> Task(tasks[n].id, "over")]
              ELSE tasks
  /\ UNCHANGED <<team, published, hand, cache, stuck, stopping, historyVars>>

-----------------------------------------------------------------------------
(* The state's workers *)

Take(w) ==
  LET e == Head(inbox[w])
  IN  /\ w \in team /\ stage[w] = "idle" /\ inbox[w] # <<>>
      /\ inbox' = [inbox EXCEPT ![w] = Tail(@)]
      /\ IF SourceOf(w, e) = {} THEN UNCHANGED workerVars
         ELSE /\ hand' = [hand EXCEPT ![w] = <<e>>]
              /\ stage' = [stage EXCEPT ![w] =
                             IF w = "intent" THEN "checking" ELSE "marking"]
      /\ UNCHANGED <<team, published, cache, stuck, tasks, stopping, historyVars>>

PutDown(w) ==
  stage' = [stage EXCEPT ![w] = "idle"] /\ hand' = [hand EXCEPT ![w] = <<>>]

\* The intent worker leaves to the evaluator what it has already evaluated.
CheckAffect(w) ==
  /\ stage[w] = "checking"
  /\ IF HasRecent("affect", hand[w][1].id) THEN PutDown(w)
     ELSE stage' = [stage EXCEPT ![w] = "marking"] /\ UNCHANGED hand
  /\ UNCHANGED <<busVars, cache, stuck, tasks, stopping, historyVars>>

Mark(w) ==
  LET e == hand[w][1]
  IN  /\ stage[w] = "marking" /\ IsNew(Source(w), e.id)
      /\ MarkNew(Source(w), e.id)
      /\ IF w = "command" /\ Sets(e) # <<>>
         THEN stage' = [stage EXCEPT ![w] = "patching"] /\ UNCHANGED <<hand, done>>
         ELSE IF HasUpdates(w, e)
         THEN stage' = [stage EXCEPT ![w] = "applying"] /\ UNCHANGED <<hand, done>>
         ELSE PutDown(w) /\ Finish(Source(w), e.id)
      /\ UNCHANGED <<busVars, stuck, tasks, stopping>>

SkipSeen(w) ==
  /\ stage[w] = "marking" /\ ~IsNew(Source(w), hand[w][1].id)
  /\ PutDown(w)
  /\ UNCHANGED <<busVars, cache, stuck, tasks, stopping, historyVars>>

\* patch_manual of a style or a preference: it holds the values it waits for.
Patch(w) ==
  /\ stage[w] = "patching" /\ ~stuck
  /\ stuck' = TRUE
  /\ UNCHANGED <<busVars, workerVars, cache, tasks, stopping, historyVars>>

\* apply_event_deltas
Apply(w) ==
  /\ stage[w] = "applying" /\ ~stuck
  /\ PutDown(w) /\ Finish(Source(w), hand[w][1].id)
  /\ UNCHANGED <<busVars, cache, stuck, tasks, stopping, marks>>

WorkerStep(w) == Take(w) \/ CheckAffect(w) \/ Mark(w) \/ SkipSeen(w) \/ Patch(w) \/ Apply(w)

-----------------------------------------------------------------------------
(* The affect evaluator *)

\* A mention spawns a task; all else is ignored.
TakeAffect ==
  LET e == Head(inbox["affect"])
  IN  /\ stage["affect"] = "idle" /\ inbox["affect"] # <<>>
      /\ inbox' = [inbox EXCEPT !["affect"] = Tail(@)]
      /\ tasks' = IF e.type = "raw" /\ e.mention
                  THEN Append(tasks, Task(e.id, "queued")) ELSE tasks
      /\ UNCHANGED <<team, published, workerVars, cache, stuck, stopping, historyVars>>

Move(n, at) == tasks' = [tasks EXCEPT ![n] = Task(tasks[n].id, at)]
Evaluating == {n \in DOMAIN tasks : tasks[n].at \notin {"queued", "over"}}

\* Mutation: the message is marked as evaluated before it is.
ClaimAndAsk(n) ==
  /\ Move(n, "asking")
  /\ IF IsNew("affect", tasks[n].id) THEN MarkNew("affect", tasks[n].id)
     ELSE UNCHANGED <<cache, marks>>
\* The context is built and the model asked; nothing is changed before it answers.
Ask(n) == Move(n, "asking") /\ UNCHANGED <<cache, marks>>
Acquire(n) ==
  /\ n \in DOMAIN tasks /\ tasks[n].at = "queued" /\ Cardinality(Evaluating) < Permits
  /\ Ask(n)
  /\ UNCHANGED <<busVars, workerVars, stuck, stopping, done>>

\* Mutation: the permit is kept when a request fails.
KeepPermit(n) == Move(n, "kept")
\* Every return drops the permit.
Return(n) == Move(n, "over")
\* The request fails or times out, the status is an error, or the body or the
\* content does not parse.
AskFails(n) ==
  /\ n \in DOMAIN tasks /\ tasks[n].at = "asking"
  /\ Return(n)
  /\ UNCHANGED <<busVars, workerVars, cache, stuck, stopping, historyVars>>

\* SocialGraph has what the answer does to the graph, before anyone asks whether
\* the message is new.
UpdateGraph(n) ==
  /\ n \in DOMAIN tasks /\ tasks[n].at = "asking"
  /\ Move(n, "marking")
  /\ UNCHANGED <<busVars, workerVars, cache, stuck, stopping, historyVars>>

MarkAffect(n) ==
  /\ n \in DOMAIN tasks /\ tasks[n].at = "marking" /\ IsNew("affect", tasks[n].id)
  /\ MarkNew("affect", tasks[n].id) /\ Move(n, "applying")
  /\ UNCHANGED <<busVars, workerVars, stuck, stopping, done>>

\* Too late for the graph: only the state is spared.
Duplicate(n) ==
  /\ n \in DOMAIN tasks /\ tasks[n].at = "marking" /\ ~IsNew("affect", tasks[n].id)
  /\ Move(n, "over")
  /\ UNCHANGED <<busVars, workerVars, cache, stuck, stopping, historyVars>>

\* Session, emotions and preferences, in one batch if there are any.
ApplyAffect(n) ==
  /\ n \in DOMAIN tasks /\ tasks[n].at = "applying" /\ ~stuck
  /\ Move(n, "over") /\ Finish("affect", tasks[n].id)
  /\ UNCHANGED <<busVars, workerVars, cache, stuck, stopping, marks>>

TaskStep(n) ==
  \/ Acquire(n) \/ AskFails(n) \/ UpdateGraph(n)
  \/ MarkAffect(n) \/ Duplicate(n) \/ ApplyAffect(n)

-----------------------------------------------------------------------------
Next ==
  \/ \E e \in Events : Publish(e)
  \/ Shutdown \/ TakeAffect
  \/ \E w \in Listeners : WorkerStep(w) \/ StopWorker(w)
  \/ \E n \in 1 .. MaxEvents : TaskStep(n)

Spec == Init /\ [][Next]_vars
\* The runtime polls every task that can go on; requests end by their timeout.
FairSpec ==
  /\ Spec /\ WF_vars(TakeAffect)
  /\ \A w \in Workers : WF_vars(w \in team /\ WorkerStep(w))
  /\ \A n \in 1 .. MaxEvents : WF_vars(TaskStep(n))

-----------------------------------------------------------------------------
(* Properties *)

\* No source remembers more than its limit, nor an id twice, and no more
\* evaluations run than there are permits.
TypeOK ==
  /\ team \in Teams /\ published \in 0 .. MaxEvents
  /\ \A s \in Sources : Len(cache[s]) <= EventCacheMax /\ IsInjective(cache[s])
  /\ \A w \in Listeners :
       stage[w] \in {"idle", "checking", "marking", "patching", "applying", "stopped"}
  /\ \A n \in DOMAIN tasks : tasks[n].at \in TaskStages
  /\ Cardinality(Evaluating) <= Permits

\* A source takes a message for new again only after EventCacheMax newer ones,
\* whatever is delivered twice and however the evaluations of one message overlap.
OncePerWindow ==
  \A s \in Sources : \A i, j \in DOMAIN marks[s] :
    i < j /\ marks[s][i] = marks[s][j] => j - i > EventCacheMax

InProgress(s) ==
  IF s = "affect"
  THEN {n \in DOMAIN tasks : tasks[n].at = "applying" /\ tasks[n].id # NoId}
  ELSE {w \in team : /\ stage[w] \in {"patching", "applying"}
                     /\ hand[w][1].id # NoId /\ Source(w) = s}

\* What is marked as seen has counted, or someone is about to make it count: a
\* failed evaluation leaves its message to be evaluated when it comes again.
\* Only the abort at shutdown takes a marked message's effect away.
MarkedCounts ==
  \A s \in Sources :
    (s = "affect" => stage["affect"] # "stopped")
      => Len(marks[s]) = Len(done[s]) + Cardinality(InProgress(s))

\* Every evaluation ends, also those that wait for the permit of one that failed,
\* unless a command has blocked the store.
EvaluationsEnd ==
  \A n \in 1 .. MaxEvents :
    (n \in DOMAIN tasks /\ tasks[n].at = "queued")
      ~> (stuck \/ (n \in DOMAIN tasks /\ tasks[n].at = "over"))
=============================================================================
