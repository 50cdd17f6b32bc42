----------------------------- MODULE DialogueTurn -----------------------------
(***************************************************************************)
(* How a mention becomes the request that the model answers:               *)
(* call_dialogue_engine of libs/cognitive/src/dialogue_engine.rs up to its *)
(* streaming request, with the tool loop and its fallbacks, and the        *)
(* context that it shares with the affect evaluator through the cache of   *)
(* libs/cognitive/src/context.rs.                                          *)
(*                                                                         *)
(* A prompt is a sequence of messages; a system message is the sequence of *)
(* its blocks.  AgentRuntime has when a turn is spawned, its stream and    *)
(* when it is aborted; SocialGraph has what the summary tool reads.        *)
(***************************************************************************)
EXTENDS Integers, Sequences, FiniteSets, SequencesExt

CONSTANTS
  Ids,             \* message ids, as the cache sees them: without platform and chat
  Askers,          \* who asks for the context of which message: see Who
  ContextTTL,      \* SHARED_CONTEXT_TTL (30 s)
  ContextCacheMax, \* MAX_SHARED_CONTEXT_CACHE (2048)
  Setups,          \* the turns there may be: see Setup
  Replies,         \* the tool calls that the model may ask for: sequences of Call
  MaxCalls,        \* max_calls_per_turn
  MaxCandidates,   \* max_candidate_users
  MaxTime          \* bound on the clock

Who == {"dialogue", "affect"}
\* Users are numbered in alphabetical order; 0 is a name that is blank when trimmed.
Users == Nat
\* The configuration (is the tool loop enabled, is there a graph, is the state's
\* legend enabled), the state, the message (images, cues, length, channel, author)
\* and the history.
Setup == [tools : BOOLEAN, graph : BOOLEAN, legend : BOOLEAN, state : BOOLEAN, images : BOOLEAN,
          strong : BOOLEAN, continuity : BOOLEAN, recent : BOOLEAN, short : BOOLEAN,
          dm : BOOLEAN, user : Users,
          history : Seq([role : {"user", "assistant"}, name : Users])]
\* A tool call: its id, or none; <<n>> stands for "tool-call-n", or for a name of
\* the model's own.
Call == [id : Seq(Nat), tool : {"summary", "other"}, parses : BOOLEAN, user : Users]

ASSUME AskersAssumption == Askers \subseteq Ids \X Who
ASSUME ContextAssumption == ContextTTL \in Nat \ {0} /\ ContextCacheMax \in Nat
ASSUME TurnsAssumption ==
  /\ \A s \in Setups : s \in Setup
  /\ \A r \in Replies : r \in Seq(Call)
\* tool_calling_limits
ASSUME LimitsAssumption == MaxCalls \in Nat \ {0} /\ MaxCandidates \in Nat \ {0}
ASSUME TimeAssumption == MaxTime \in Nat

Turns == {a \in Askers : a[2] = "dialogue"}

VARIABLES
  clock,
  cache,   \* SHARED_CONTEXT_CACHE: the slot of each id that has one
  slots,   \* every slot made so far: [locked, content], content <<>> or <<context>>
  clears,  \* the cache has been cleared: for the properties
  asker,   \* where each asker is: [stage, slot, context]
  setup,   \* the setup of each turn
  turn     \* where each turn is: see NoTurn

contextVars == <<cache, slots, clears, asker>>
vars == <<clock, contextVars, setup, turn>>

NoTurn == [stage |-> "context", blocks |-> <<>>, social |-> 0, loop |-> <<>>,
           calls |-> <<>>, executed |-> 0, requests |-> 0, degraded |-> FALSE, prompt |-> <<>>]
Ended(stage) == [NoTurn EXCEPT !.stage = stage]

Init ==
  /\ clock = 0 /\ cache = <<>> /\ slots = <<>> /\ clears = FALSE
  /\ asker = [a \in Askers |-> [stage |-> "new", slot |-> 0, context |-> <<>>]]
  /\ setup \in [Turns -> Setups]
  /\ turn = [t \in Turns |-> NoTurn]

-----------------------------------------------------------------------------
(* The shared context *)

\* The map is locked, cleared when it is over its limit, and the id's slot is
\* taken or made.
TakeSlot(a) ==
  LET full == Cardinality(DOMAIN cache) > ContextCacheMax
      kept == IF full THEN <<>> ELSE cache
      new == Len(slots) + 1
      slot == IF a[1] \in DOMAIN kept THEN kept[a[1]] ELSE new
  IN  /\ asker[a].stage = "new"
      /\ cache' = [i \in DOMAIN kept \cup {a[1]} |-> IF i = a[1] THEN slot ELSE kept[i]]
      /\ slots' = IF slot = new THEN Append(slots, [locked |-> FALSE, content |-> <<>>])
                  ELSE slots
      /\ clears' = (clears \/ full)
      /\ asker' = [asker EXCEPT ![a].stage = "waiting", ![a].slot = slot]
      /\ UNCHANGED <<clock, setup, turn>>

SlotOf(a) == slots[asker[a].slot]
Enters(a) == asker[a].stage = "waiting" /\ ~SlotOf(a).locked
Fresh(a) == SlotOf(a).content # <<>> /\ clock - SlotOf(a).content[1].at < ContextTTL

Hit(a) ==
  /\ Enters(a) /\ Fresh(a)
  /\ asker' = [asker EXCEPT ![a].stage = "given", ![a].context = SlotOf(a).content]
  /\ UNCHANGED <<clock, cache, slots, clears, setup, turn>>

\* Mutation: the slot is free again while the context is computed.
MissUnlocked(a) ==
  /\ Enters(a) /\ ~Fresh(a)
  /\ asker' = [asker EXCEPT ![a].stage = "computing"]
  /\ UNCHANGED <<clock, cache, slots, clears, setup, turn>>
\* Nothing there, or nothing recent: the slot stays locked while ...
Miss(a) ==
  /\ Enters(a) /\ ~Fresh(a)
  /\ slots' = [slots EXCEPT ![asker[a].slot].locked = TRUE]
  /\ asker' = [asker EXCEPT ![a].stage = "computing"]
  /\ UNCHANGED <<clock, cache, clears, setup, turn>>

\* ... the message is embedded, the memories searched, the user's chunks counted
\* and the text written.  A failure only leaves the memories out.
Computed(a) ==
  \E memory \in BOOLEAN :
    LET context == <<[by |-> a, at |-> clock, memory |-> memory]>> IN
    /\ asker[a].stage = "computing"
    /\ slots' = [slots EXCEPT ![asker[a].slot] = [locked |-> FALSE, content |-> context]]
    /\ asker' = [asker EXCEPT ![a].stage = "given", ![a].context = context]
    /\ UNCHANGED <<clock, cache, clears, setup, turn>>

-----------------------------------------------------------------------------
(* What a turn decides, and the prompts it builds *)

Points(condition, n) == IF condition THEN n ELSE 0
\* social_fetch_decision
Score(s) ==
  Points(s.strong, 3) + Points(s.continuity, 2) + Points(s.recent, 2)
    + Points(s.short /\ s.recent, 1) + Points(s.dm /\ (s.continuity \/ s.recent), 1)
ShouldFetch(s) == s.history # <<>> /\ Score(s) >= 3
\* should_use_legacy_summary_path and should_attempt_tool_loop
Legacy(s) == ShouldFetch(s) /\ ~s.tools
Loops(s) == ShouldFetch(s) /\ s.tools

\* build_allowed_candidate_users: the author and the latest users, until there
\* are enough; the first of them by name.
Candidates(s) ==
  LET Join(e, found) ==
        IF found.enough \/ e.role # "user" \/ e.name = 0 THEN found
        ELSE LET users == found.users \cup {e.name}
             IN  [users |-> users, enough |-> Cardinality(users) >= MaxCandidates]
      found == FoldRight(Join, s.history, [users |-> {s.user} \ {0}, enough |-> FALSE]).users
  IN  {u \in found : Cardinality({v \in found : v < u}) < MaxCandidates}

System(blocks) == [role |-> "system", blocks |-> blocks]
User(images) == [role |-> "user", images |-> images]
History(s) == IF s.history = <<>> THEN <<>> ELSE <<[role |-> "history"]>>
\* An id that the model left out is made up from a number.
Numbered(call, n) == IF call.id = <<>> THEN [call EXCEPT !.id = <<n>>] ELSE call
\* The calls of a round, numbered by their places in it.
Assistant(calls) ==
  [role |-> "assistant", calls |-> [k \in DOMAIN calls |-> Numbered(calls[k], k)]]
Tool(id, user, ok) == [role |-> "tool", id |-> id, user |-> user, ok |-> ok]
If(condition, block) == IF condition THEN <<block>> ELSE <<>>

\* build_final_messages
Final(s, blocks) == <<System(blocks)>> \o History(s) \o <<User(s.images)>>
\* build_tool_planning_messages: with the policy, without the images.
Planning(s, blocks) ==
  <<System(Append(blocks, "policy"))>> \o History(s) \o <<User(FALSE)>>

At(t, stage) == turn[t].stage = stage
Becomes(t, new) ==
  turn' = [turn EXCEPT ![t] = [f \in DOMAIN NoTurn |-> IF f \in DOMAIN new THEN new[f] ELSE @[f]]]
Rest == UNCHANGED <<clock, contextVars, setup>>

\* The context is there; the direct path needs the summary of the author next.
Begin(t) ==
  LET blocks == <<"persona">> \o If(asker[t].context[1].memory, "memory") IN
  /\ At(t, "context") /\ asker[t].stage = "given"
  /\ Becomes(t, [stage |-> IF Legacy(setup[t]) /\ setup[t].graph THEN "summary" ELSE "state",
                 blocks |-> blocks])
  /\ Rest

\* load_dialogue_social_summary: there may be none.
LoadSummary(t) ==
  \E found \in BOOLEAN :
    /\ At(t, "summary")
    /\ Becomes(t, [stage |-> "state", blocks |-> turn[t].blocks \o If(found, "summary")])
    /\ Rest

\* The state, if there is any, with its legend, if that is enabled.
StateParts(s) == If(s.state /\ s.legend, "legend") \o If(s.state, "state")
\* The state is read; with it and the time the system message is whole, and
\* without a tool loop so is the prompt.
ReadState(t) ==
  LET s == setup[t]
      blocks == turn[t].blocks \o StateParts(s) \o <<"time">>
      next == IF ~Loops(s) THEN "request" ELSE IF s.graph THEN "asking" ELSE "ready"
  IN  /\ At(t, "state")
      /\ Becomes(t, [stage |-> next, blocks |-> blocks, social |-> Len(turn[t].blocks),
                     prompt |-> Final(s, blocks),
                     loop |-> IF Loops(s) THEN Planning(s, blocks) ELSE <<>>])
      /\ Rest

-----------------------------------------------------------------------------
(* The tool loop *)

\* Mutation: what the loop has so far is what the model gets.
DegradeToPartial(t) ==
  Becomes(t, [stage |-> "fallback", degraded |-> TRUE, calls |-> <<>>, loop |-> <<>>,
              prompt |-> turn[t].loop])
\* execute_dialogue_tool_loop has an error: the fallback is the direct summary.
Degrade(t) ==
  Becomes(t, [stage |-> "fallback", degraded |-> TRUE, calls |-> <<>>, loop |-> <<>>])

\* The loop ends: its messages, with the system message that has no policy, are
\* the prompt; the images of the user's message are not among them.
LoopEnds(t, messages) ==
  [stage |-> "request", calls |-> <<>>, loop |-> <<>>,
   prompt |-> <<System(turn[t].blocks)>> \o Tail(messages)]

\* The model answers: with no call, the loop ends.
Replied(t) ==
  \E calls \in Replies :
    LET asked == [requests |-> turn[t].requests + 1, stage |-> "running", calls |-> calls,
                  loop |-> Append(turn[t].loop, Assistant(calls))] IN
    /\ At(t, "asking")
    /\ Becomes(t, IF calls = <<>> THEN LoopEnds(t, turn[t].loop) ELSE asked)
    /\ Rest

\* A timeout, an error status, no JSON, no choice, no message.
ReplyFails(t) == At(t, "asking") /\ Degrade(t) /\ Rest

Supported(t, call) ==
  call.tool = "summary" /\ call.parses /\ call.user # 0 /\ call.user \in Candidates(setup[t])

\* A call that is not allowed, or does not answer in time, fails the whole loop.
CallFails(t) ==
  At(t, "running") /\ Degrade(t) /\ Rest

\* The next call of the round is executed; an error counts like a result.  Here
\* an id that the model left out is numbered by the calls executed, over all rounds.
Execute(t) ==
  \E ok \in BOOLEAN :
    LET call == Head(turn[t].calls)
        executed == turn[t].executed + 1
        loop == Append(turn[t].loop, Tool(Numbered(call, executed).id, call.user, ok))
        left == IF executed >= MaxCalls THEN <<>> ELSE Tail(turn[t].calls)
        next == IF left # <<>> THEN [stage |-> "running", calls |-> left, loop |-> loop]
                ELSE IF executed < MaxCalls
                THEN [stage |-> "asking", calls |-> <<>>, loop |-> loop]
                ELSE LoopEnds(t, loop)
    IN  /\ At(t, "running") /\ Supported(t, call)
        /\ turn' = [turn EXCEPT ![t] =
             [f \in DOMAIN NoTurn |-> CASE f = "executed" -> executed
                                        [] f \in DOMAIN next -> next[f] [] OTHER -> @[f]]]
        /\ Rest

-----------------------------------------------------------------------------
(* The fallback, and the request *)

NoGraph(t) == At(t, "ready") /\ Degrade(t) /\ Rest

\* The summary, when there is a graph and it has one, goes where the direct path
\* puts it, and the prompt is built again.
Fallback(t) ==
  \E found \in BOOLEAN :
    LET blocks == InsertAt(turn[t].blocks, turn[t].social + 1, "summary") IN
    /\ At(t, "fallback") /\ (found => setup[t].graph)
    /\ Becomes(t, IF found THEN [stage |-> "request", blocks |-> blocks,
                                 prompt |-> Final(setup[t], blocks)]
                  ELSE [stage |-> "request"])
    /\ Rest

\* The streaming request is sent and answered with success, or not.
Requested(t) ==
  /\ At(t, "request") /\ Rest
  /\ Becomes(t, [stage |-> "streaming"]) \/ turn' = [turn EXCEPT ![t] = Ended("failed")]

\* Mutation: what is locked stays so.
AbortHolding(t) ==
  /\ asker[t].stage # "aborted" /\ turn[t].stage \notin {"streaming", "failed"}
  /\ asker' = [asker EXCEPT ![t].stage = "aborted"]
  /\ turn' = [turn EXCEPT ![t] = Ended("aborted")]
  /\ UNCHANGED <<clock, cache, slots, clears, setup>>
\* The worker stops and aborts its turns, wherever they are; a lock is released.
Abort(t) ==
  /\ asker[t].stage # "aborted" /\ turn[t].stage \notin {"streaming", "failed"}
  /\ slots' = IF asker[t].stage = "computing"
              THEN [slots EXCEPT ![asker[t].slot].locked = FALSE] ELSE slots
  /\ asker' = [asker EXCEPT ![t].stage = "aborted"]
  /\ turn' = [turn EXCEPT ![t] = Ended("aborted")]
  /\ UNCHANGED <<clock, cache, clears, setup>>

Tick == clock < MaxTime /\ clock' = clock + 1 /\ UNCHANGED <<contextVars, setup, turn>>

-----------------------------------------------------------------------------
AskerStep(a) == TakeSlot(a) \/ Hit(a) \/ Miss(a) \/ Computed(a)
TurnStep(t) ==
  \/ Begin(t) \/ LoadSummary(t) \/ ReadState(t)
  \/ Replied(t) \/ ReplyFails(t) \/ Execute(t) \/ CallFails(t)
  \/ NoGraph(t) \/ Fallback(t) \/ Requested(t)

Next ==
  \/ \E a \in Askers : AskerStep(a)
  \/ \E t \in Turns : TurnStep(t) \/ Abort(t)
  \/ Tick

Spec == Init /\ [][Next]_vars
\* Every task is polled, the slots' locks are fair, the client's timeout ends each
\* request and the loop's own each call.  Local searches and reads come back.
Fairness ==
  /\ \A a \in Askers : WF_vars(AskerStep(a))
  /\ \A t \in Turns : WF_vars(TurnStep(t))
FairSpec == Spec /\ Fairness

-----------------------------------------------------------------------------
(* Properties *)

Given == {a \in Askers : asker[a].context # <<>>}
\* The dialogue engine and the affect evaluator reason from the same context of a
\* message, unless their contexts were computed a lifetime apart or the full
\* cache was cleared in between (context.rs: one computation per slot).
SameContext ==
  \A a, b \in Given :
    LET x == asker[a].context[1]
        y == asker[b].context[1]
    IN  a[1] = b[1] => \/ x = y \/ clears
                       \/ x.at - y.at >= ContextTTL \/ y.at - x.at >= ContextTTL

\* What the direct path puts into a system message, with what is there.
DirectBlocks(s, memory, summary) ==
  <<"persona">> \o If(memory, "memory") \o If(summary, "summary") \o StateParts(s) \o <<"time">>
Direct(s, blocks) == \E memory, summary \in BOOLEAN : blocks = DirectBlocks(s, memory, summary)
Results(p) == {i \in DOMAIN p : p[i].role = "tool"}
\* The i-th message of p is the answer to a call of the assistant message before
\* it, in its place and about a candidate.  It bears the id that the call has there,
\* unless that was made up: then the one has its place in the round and the other
\* its place among all results.
AnswersItsCall(s, p, i) ==
  \E j \in 1 .. i - 1 :
    LET call == p[j].calls[i - j] IN
    /\ p[j].role = "assistant" /\ i - j \in DOMAIN p[j].calls
    /\ \A k \in j + 1 .. i : p[k].role = "tool"
    /\ p[i].user = call.user /\ p[i].user \in Candidates(s)
    /\ \/ p[i].id = call.id
       \/ call.id = <<i - j>> /\ p[i].id = <<Cardinality({k \in Results(p) : k <= i})>>
AllAnswered(p) ==
  \A j \in DOMAIN p : p[j].role = "assistant" =>
    \A k \in DOMAIN p[j].calls : j + k \in Results(p)

\* Whichever way the tool loop went, the prompt that is streamed is whole: its
\* system message is the direct path's, without the tool policy; there are at
\* most MaxCalls results, each to the call that asked for it, and no summary
\* beside them; no call is without its result until there are MaxCalls; and what
\* the user wrote is there, with its images unless a tool loop has finished.
PromptWellFormed ==
  \A t \in Turns : turn[t].stage = "streaming" =>
    LET p == turn[t].prompt
        s == setup[t]
    IN  /\ p[1].role = "system" /\ Direct(s, p[1].blocks)
        /\ Cardinality(Results(p)) <= MaxCalls /\ turn[t].requests <= MaxCalls
        /\ \A i \in Results(p) : AnswersItsCall(s, p, i)
        /\ Results(p) # {} => "summary" \notin ToSet(p[1].blocks)
        /\ AllAnswered(p) \/ Cardinality(Results(p)) = MaxCalls
        /\ {p[i] : i \in {k \in DOMAIN p : p[k].role = "user"}} =
             {User(s.images /\ (Loops(s) => turn[t].degraded))}

\* Every asker gets a context and every turn its request, or is aborted, although
\* the model may go on asking for tools and other askers fail, are aborted or
\* hold a slot.
AskersAreAnswered ==
  /\ \A a \in Askers : <>(asker[a].stage \in {"given", "aborted"})
  /\ \A t \in Turns : <>(turn[t].stage \in {"streaming", "failed", "aborted"})
=============================================================================
