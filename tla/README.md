# Verification of polyverse-agent

TLA+ models, TLC runs and TLAPS proofs for the concurrent core of
polyverse-agent, a chat agent written in Rust on tokio. Paths below are relative
to the repository; line numbers refer to the commit the project was written for.

## The system

| Part | State it keeps | Operations | Talks to |
| --- | --- | --- | --- |
| Runtime: supervisor, event bus, coordinator (`libs/runtime`, `apps/agent/src/main.rs`) | worker handles, a bounded mailbox (256), an event broadcast (128), a shutdown broadcast | `start_all`, `shutdown`, `run`, `handle_event` | every worker |
| Platform relay (`libs/sensory/src/relay`) | connections on a Unix socket, per connection an ingest loop and a response forwarder sharing the write half | ingest, ack, ping, forward | platform processes; mailbox and broadcast |
| Platform processes (`platforms/*`) | `RelayClient`s with two channels (64) | `ingest`, `recv_response` | relay, Discord, Telegram |
| Dialogue engine (`libs/cognitive/src/dialogue_engine.rs`) | a set of running turns | one task per mention: context, tool loop, streamed answer, completion | broadcast in, mailbox out; short-term memory, graph, state store |
| Memory worker (`libs/memory`) | write queue (1024), batch (64), SQLite table, short-term sessions | record mentions and completed turns, flush, drain on shutdown, ingest expired sessions | broadcast; SQLite, vector store |
| State store and its workers (`libs/state`) | values, sequence number, delta log (2000), counters, duplicate cache, each under its own lock | `patch_manual`, `apply_event_deltas`, `apply_drift_tick`, `recompute_derived`, `mark_event_if_new` | cockpit API, state workers, affect evaluator, dialogue engine |
| Affect evaluator (`libs/cognitive/src/affect_evaluator.rs`) | running evaluations, one permit | evaluate each mention: ask a model, update the graph, then the state | broadcast; context cache, graph, state store |
| Cognitive graph and social context (`libs/memory/src/graph.rs`, `libs/cognitive/src/social_context.rs`, `dialogue_tools.rs`) | edges between agent and user, a stored projection of both per user | update edges, project, query with a staleness limit and fall-backs | dialogue engine, affect evaluator, MCP tools |
| MCP server (`services/mcp`) | one session on stdin, or HTTP requests; running tool calls | list and call tools, time them out, fetch a page, drain at shutdown | graph, the web; supervisor |
| Cockpit API (`services/cockpit-api`) | none of its own | reads, one state patch | state store, graph, memory |

Events flow one way round: a platform process ingests a raw event, the relay puts
it into the mailbox, the coordinator broadcasts it, the dialogue engine starts a
turn, the turn puts responses and a completion into the mailbox, the coordinator
broadcasts those, the forwarder returns the responses and the memory worker
records the completion. Everything shares one tokio runtime; nothing but the
SQLite transaction, the graph and the vector store survives the process.

What is hard: locks held (or not held) across awaits, four bounded queues in that
circle, a broadcast that skips slow readers and late subscribers, one shutdown
signal heard by each task separately, streams and transactions that fail midway,
and a process that may end at any await. `PROJECT.json` lists these hazards with
the line each bites at and the properties about it.

What makes each part correct: the store's values stay in range, and its log, its
numbering, its derived values and its counters agree; the memory accounts for
every message and stores it once and in order; the runtime tells every worker one
causally ordered history and ends when asked to; the relay delivers whole frames
to the right platform, in both directions; an event counts once in the state
however often it is delivered; a social answer called fresh is recent, and its two
derivations agree; a turn and an evaluation share one context, and the prompt is
whole whichever way the tool loop went; the MCP server answers every request,
within its limits, while the process lives.

## Modules

| Module | Models | How state and actions correspond |
| --- | --- | --- |
| `StateStore` | `libs/state/src/lib.rs`, the store | One action per lock section that awaits nothing. Guards that live across an await are variables: `valuesWriter`, `logWriter` of the batches, `rowGuard` of `patch_manual`. `pc` says which section of which call a task is in. |
| `StateStoreProofs` | theorems about it | |
| `MemoryPersist` | the memory worker and its writer task | Two state machines with the mpsc channel between them; `buffer` is the writer's batch, a transaction ends in `Flushed`. |
| `MemoryPersistProofs` | theorems about it | |
| `DurableLog` | what recording promises | Three variables: messages taken, the log, messages dropped. |
| `ShortTermMemory` | sessions, their hand-over to ingestion, reload after a restart | `sessions` is the map under the short-term lock; the worker holds that lock in state `turn` only, since every other holder awaits nothing under it. `waiting` and `running` are the ingestion tasks before and after their permit. |
| `ShortTermMemoryProofs` | theorems about it | |
| `AgentRuntime` | main, supervisor, event bus, coordinator, and the life of workers and turns on it | `mailbox` is the mpsc channel, `bus` every event broadcast with a `cursor` per worker, `hears` whether a worker subscribed before the signal. |
| `AgentRuntimeProofs` | theorems about it, and about one of its workers, `McpServer` | |
| `PlatformRelay` | relay server, relay client, platform processes | Per connection the client's two channels and two tasks, the socket in both directions, the ingest loop, the forwarder and the lock on the write half; frames go out in two parts. |
| `PlatformRelayProofs` | theorems about it | |
| `RelayService` | what the relay promises | Four variables: messages taken by the processes, those that have reached the agent per connection, the answers, and what each connection's process has got. |
| `StateWorkers` | the workers of `libs/state/src/lib.rs` that turn events into changes, its cache of recent ids, and the tasks of the affect evaluator | Per worker an `inbox` (its broadcast receiver), a `stage` and the event in `hand`; one action per call of the store. `cache` is `event_cache`, `tasks` the evaluator's join set. `marks` and `done` are history for the properties. |
| `StateWorkersProofs` | theorems about it | |
| `SocialGraph` | the edges and the social tree of a user, the evaluator's updates of them, the queries of `social_context.rs` and the social tools | `att`, `ill` and `root` are the three kinds of record. A query of twelve statements fills `got` in pieces, so updates fall between them; `pc` says where each caller is between two awaits. `held` is history. |
| `SocialGraphProofs` | theorems about it | |
| `DialogueTurn` | a turn from its mention to its streaming request, and the context it shares with the affect evaluator | `cache` and `slots` are the map and the locks in it; a turn is at one `stage`, an await each, with the `blocks` of its system message and the messages of its tool `loop`. |
| `DialogueTurnProofs` | theorems about it | |
| `McpServer` | the MCP worker, HTTP requests, the session on stdin and stdout, the dispatcher's timeout, the loop of `web_fetch` | `session` and `post` are the two ways in, `call` what each runs, `fetch` the page it fetches. |
| `MC` and the name of a module | | Small constants for TLC. |

The modules meet at interfaces: `AgentRuntime` takes a raw event from a connection
task (`Arrive`) and broadcasts responses; `PlatformRelay` hands a message over
(`Hand`) and sees its response on a broadcast (`Answer`); `MemoryPersist` starts
where the worker takes a message from the broadcast (`Accept`), and
`ShortTermMemory` shows the other half of that step, with the write queue reduced
to holding, writing or losing messages. `StateWorkers` calls the store of
`StateStore` with one step per call, and `Patch` there is the call that never
returns here. Its `UpdateGraph` is the evaluator of `SocialGraph`, whose
`LoadSummary` is the one of `DialogueTurn`; a turn there ends where the lines of
`AgentRuntime` begin. `McpServer` executes the social tools of `SocialGraph`.

Operators whose comment says "Mutation" are broken variants of the action after
them. No run uses them; they are what the properties are tested against.

### Abstractions

* `StateStore`: values are integers in steps of 0.001 (the drift cut-off), inputs
  are finite numbers, the formulas of the derived dimensions are one constant
  operator `Derive`. The sequence and history locks of a batch are one variable:
  every task takes them in that order, and only patches take one without the
  other. The FIFO queue of tokio's `RwLock` is not modelled: a waiting writer does
  not hold back readers, so the model allows more orders than the code.
  `updated_at`, actor, reason and source texts are left out.
* `MemoryPersist`: messages are numbered in the order the worker takes them. The
  short-term memory it also updates is not part of the module. A failed
  transaction loses its whole batch, as the code logs and goes on.
* `ShortTermMemory`: only mentions reach it, as the worker skips the rest. Rows of
  one instant come back in the order they were made. A history for a prompt is
  only the use of the lock: what is selected from the session is left out. What an
  ingestion compresses or stores is left out too. Nothing is ingested when no
  compressor is configured; the model has one.
* `AgentRuntime`: handling an event is one step, since the coordinator awaits
  nothing in it for the events the code sends. Intent and biology events are
  handled by the coordinator but no component sends them. Subscribing to events
  and to the signal is one step. The ten seconds of the supervisor's timeout may
  pass at any time.
* `PlatformRelay`: a message is answered at most once; the agent between `Hand`
  and `Answer` is `AgentRuntime`'s subject. A platform process dies with all its
  connections. The end of the agent process is left out.
* `StateWorkers`: how far an event moves which dimension is left out: what matters
  is whether it moves any. Intent events have handlers but nobody in the repository
  publishes them; `Events` has one all the same. The evaluator has a state store,
  as `main` gives it one whenever it could load the schema. The numbers that the
  system worker measures are not modelled.
* `SocialGraph`: metrics are in hundredths. What time does to one is the constant
  operator `Decay`, of which only the range is assumed; `MCSocialGraph` gives it the
  percent a day of the code. A query is answered within a tick of the clock, which
  stands for its staleness limits of minutes. Any query of the store may fail. An
  edge of zeros reads like a missing one. Observed dynamics between users and the
  feelings about entities are written by statements of their own that nothing in
  these queries reads. Texts are left out.
* `DialogueTurn`: the cues of a message are Booleans, whose points `Score` adds up.
  Blocks of the system message and messages are named by what they are. The
  history and the state are given.
  A call's id is a number, or left out, when the code makes one up.
* `McpServer`: that an input is an object, that its schema allows it and that the
  tool can read it are a Boolean each. At the end of the process (`ProcessEnds`)
  whatever was in flight is lost. A tool other than `web_fetch` answers, fails or hangs. The body of a page is a number of
  chunks. What a page is turned into is left out. The directory `tools/read` of the
  MCP server is not compiled and not modelled.

## Runs

All run with deadlock checking unless noted.

| Run | Shows | Bounds |
| --- | --- | --- |
| `StateBatches` | Two event workers and drift: ranges, log = last changes, log explains values, calls return | 4 calls, log of 3, so eviction within a batch happens |
| `StatePatches` | Two patchers, one droppable midway, and an event worker: numbers distinct, and none lost but to eviction or a dropped patch (no deadlock check: a base patch really blocks the store) | 4 calls, log of 2 |
| `StatePatchReturns` | **Violated:** a manual patch of a base dimension never returns | 2 calls |
| `PersistSafety` | Accounting, order, drain on shutdown, refinement of `DurableLog`, settling, stopping | 6 messages, queue and batch of 2, 1 crash |
| `SessionMemory` | Sessions ingested at most once and in one piece, ended and handed over, readers get the lock (no deadlock check: mentions and time run out) | 2 turns in one chat, 5 ticks with timeouts of 1 and 2, queue of 1, broadcast of 2, 1 restart |
| `RuntimeOrder` | Causal history, mail broadcast, mentions taken, shutdown ends (no deadlock check: the process ends) | 2 workers, 2 turns, mailbox and broadcast of 2 |
| `RelayBoth` | One process that reads the connection it ingests on, as the selfbot does, and one that never reads it, as the Telegram worker does: frames whole, what the relay does is what `RelayService` promises, to the right platform and never twice, messages reach the agent from both until the unread one is clogged, answers reach the users of the first (no deadlock check: processes may be gone or silent) | 2 platforms, pings on the first, channels of 1, one part in the socket, broadcast of 1, so lag happens; `FewMessages` allows a message on each connection, or four on the unread one once the other is gone: enough to clog it |
| `RelayReader` | **Violated:** with a separate connection to read, answers never arrive | 2 messages |
| `SocialQueries` | Fresh answers are recent, tree and edges give the same answer, every query is answered | 1 caller under 2 spellings of a user, an evaluation of 1 update with illusion, 2 ticks; a projection may be torn after its second statement |
| `StateEffects` | An id is new once in a window of the cache, what is marked has counted or is about to, evaluations end (no deadlock check: nothing need happen once events are handled) | 3 of 5 events, one state worker at a time beside the evaluator, cache and broadcast of 1 |
| `DialogueTurns` | One context per message; on every path a prompt that is whole but for what a finished tool loop leaves out; everybody ends (no deadlock check: everything ends) | 1 turn and 2 evaluations, 5 setups (with and without tools, graph, state, legend, history), replies of 0 to 3 calls with and without ids, 2 calls a turn, so that a turn may have two rounds or a round exceed the budget, 2 candidates of 3, lifetime of 1 tick, cache of 1 |
| `McpRequests` | Fetches keep to their limits, every request is answered unless the process ends first (no deadlock check: a disabled server does nothing) | 2 HTTP requests or 4 of 9 lines, 6 calls, 2 redirects, 1 chunk |

The bounds make every queue fill, wrap or overflow: all capacities are 1 to 3 and
the number of messages or calls exceeds them. No action depends on a capacity
other than by comparing with it, so larger queues add length, not kinds of
behaviour. `RelayBoth` restricts the next-state relation by `FewMessages`: the writer
of a full connection needs four messages, and four on each would be out of TLC's
reach. The second connection of the Discord worker is in `RelayReader`. Each property is also run against a broken variant of an action of
the model, which it must catch.

### Violated runs

Each states what a document or comment of the repository says; `PROJECT.json`
quotes it:

* `patch_manual` (`libs/state/src/lib.rs:311,340`) keeps its read guard while
  `recompute_derived` awaits the write guard, so overriding any dimension that is
  not derived blocks that request and then every update of the store.
* The Discord and Telegram workers read responses from a connection that never
  ingests (`platforms/discord/src/worker.rs:207`), so its forwarder waits for a
  platform for ever (`relay/server.rs:117`), and the connection they do ingest on
  is never read.

### Divergences without a run

The models show these too, but no run states them:

* `recompute_derived` drops its read guard (`libs/state/src/lib.rs:585`) before it
  writes what it computed: of two overlapping updates the slower one may leave
  derived values of the older state until the next change.
* Rows are keyed by the platform's message id alone (`libs/memory/src/store.rs:101`),
  and Telegram numbers messages per chat: the second chat's message under a number
  is dropped. The context cache is keyed the same way
  (`libs/cognitive/src/context.rs:76`), so within its lifetime a second chat's
  message is answered with the first one's context.
* Every restart marks the loaded sessions as ingested
  (`libs/memory/src/worker.rs:291`), so a conversation that was alive, and what
  joins it afterwards, never reaches the episodic memory.
* A stream that fails after its first line (`dialogue_engine.rs:1607`) has sent a
  response that no completion records.
* The Discord and Telegram workers never read the connection they ingest on
  (`platforms/discord/src/worker.rs:179`, `platforms/telegram/src/worker.rs:127-128`),
  which is the one the relay sends their responses to. Once its channel of 64 and
  the socket are full, the forwarder waits in its write with the write lock held
  (`relay/server.rs:126-127`), the acknowledgement of the next message waits for
  that lock (`server.rs:175`), and nothing more is ingested on the connection until
  the process ends. `Clogged` is this state; `IngestsReachAgent` excepts it, and
  TLC finds the property violated in `RelayBoth` without the exception.
* A tool loop that ends streams the messages it planned with, which have no images
  (`dialogue_engine.rs:482-499` and `1491`), where every other way has them
  (`449-454`): the model answers a message with images without seeing them.
* An id that the model leaves out is made up twice: from the call's place in its
  round (`dialogue_engine.rs:348`) and from the number of calls executed over all
  rounds (`605`). From the second round on they differ, and the result answers a
  call by an id that its assistant message does not have.
* Calls beyond `max_calls_per_turn` stay in the assistant message without a result
  (`dialogue_engine.rs:598`), as a test expects (`2638-2660`), so the model is sent
  a conversation with unanswered calls.
* `MCP_REQUEST_TIMEOUT_MS` has no upper limit (`services/mcp/src/config.rs:63-67`),
  but the worker leaves two seconds after the signal (`server/mod.rs:185`) and the
  process ends when the last worker has left: a call with a longer time is cut off
  without an answer.
* A line on stdin that is not UTF-8 ends the MCP server with an error
  (`services/mcp/src/stdio.rs:333`), where one that is not JSON is answered.
* Only a mention and the interval hand an ended session to ingestion: one that the
  agent's own answer ends (`libs/memory/src/worker.rs:371`) is dropped.
* Each source of `mark_event_if_new` has its own cache (`libs/state/src/lib.rs:460`):
  an event marked by one worker is new to another. `OncePerWindow` is per source.
* A message that is evaluated twice moves the graph twice, since the duplicate
  check comes after the graph's update (`affect_evaluator.rs:501` and `576`).
* The illusion of a chat partner is written after the projection
  (`affect_evaluator.rs:536`), so the stored tree lags behind it by an evaluation.
* `update_emotion_graph` updates a record that nothing creates
  (`libs/memory/src/graph.rs:649`).
* A tool call that leaves out the staleness has no limit, not its intent's default
  (`dialogue_tools.rs:205`).
* In stdio mode the MCP worker never subscribes to the shutdown signal
  (`services/mcp/src/server/mod.rs:196`); the supervisor's timeout gives it up.

## Fairness

* `StateStore`: every task's next section is taken if it stays possible: the
  runtime polls woken futures. Calls need not come.
* `MemoryPersist`: the two tasks go on while they can; a transaction ends,
  successfully or not. Messages, the signal and crashes are not fair.
* `ShortTermMemory`: the worker and the writer go on; the interval's branch is
  strongly fair (`select!` chooses at random), and so are readers of the lock, which
  tokio hands out in order. Mentions, answers, time, restarts and the calls of
  models in an ingestion are not fair.
* `AgentRuntime`: start-up, coordinator, readers, blocked sends and timers go on;
  `select!` chooses at random among ready branches, so the shutdown branch is
  taken in the end. Ctrl+C, the platforms and the model's stream are not fair.
* `PlatformRelay`: all I/O tasks go on; the lock is strongly fair, as tokio's lock
  is a FIFO queue. Messages, answers and deaths are not fair.
* `StateWorkers`: workers and evaluations go on while they can; the client's timeout
  ends each request to the model. Events and the signal are not fair.
* `SocialGraph`: a query that has been asked goes on, as the embedded store answers
  or reports an error. Callers, cancellations and the evaluator are not fair.
* `DialogueTurn`: askers and turns go on: the slots' locks are FIFO, and the
  client's and the loop's own timeouts end every request. Aborts are not fair.
* `McpServer`: the worker, the session and the dispatcher's timer go on while the
  process lives. No tool, web server or client is fair: the timer alone has to end
  what hangs. The end of the process is not fair but may come before the timer's.

## Proofs

Every theorem holds for all values of the constants that meet the named assumptions
of its module. These are about types and ranges, but for a few that the code
justifies: capacities and permits are at least 1 (tokio's channels take no 0),
`Decay` keeps a metric within -1 and 1 (it multiplies by 0.99 per day), and the
evaluator of `SocialGraph` is none of the callers. `PlatformRelay` numbers messages
from 1, so that none is the ping's 0.

Every proof has one shape: an inductive invariant `IInv` (or one named for its
subject), that it holds initially, one lemma per action or kind of action, and that
it implies the property. What follows says why the property alone does not do.

`StateStoreProofs`

* `TypeCorrect`: `Spec => []TypeOK`, including that every value stays in its
  range. Inductive as it stands; the lemmas are about clamping, drift, eviction
  and what a turn of the batch loop writes.
* `NumbersStayDistinct`: `Spec => []NumbersDistinct`. The strengthening
  `NumberingInv` adds that every number in the log or held by a patch between its
  two sections is positive and at most the counter; without it a fresh number
  could already be in use.
* `NumbersAreKept`: `Spec => NoNumberLost`, an action property, from the same
  invariant: the only step that takes a number out of the log pushes out the
  oldest, and only a dropped patch lets go of the one it holds.
* `BatchLogFaithful`: with no patchers and event deltas on base dimensions only,
  `Spec => [](HistoryIsLastChanges /\ LogExplainsValues)`. The invariant
  `BatchLogInv` adds the unevicted log in the middle of a batch and that a task
  inside the batch loop holds both locks, which is what keeps value, number and
  entry together. The first premise is needed: a patch numbers and pushes in
  two sections, and a batch in between leaves the log out of order. So is the
  second, since derived values are rewritten without a log entry.

`MemoryPersistProofs`

* `TypeCorrect`, `DurableInOrder`, `EverythingAccounted`: the table, the batch, the
  queue and the message in the worker's hand are one increasing sequence
  (`PiecesInOrder`), and disjoint from what was dropped or failed
  (`PiecesAccounted`). `InOrder` speaks of the table only, `Accounted` of sets only.
* `ShutdownSafe`: what is dropped was handed over after the signal. `EndsOnSignal`
  says so of what can still be dropped at each stage of the worker and the writer:
  of the message in hand, and of the queue once the writer has drained it.
* `RecordingImplementsLog`: `Spec => ImplementsLog`. Every step of the worker, the
  writer and a crash is a step of `DurableLog` or a stutter under the mapping of the
  `INSTANCE`; the invariant supplies that what is flushed follows what is durable.

`ShortTermMemoryProofs`

* `TypeCorrect` and `IngestedWholeAndOnce`: a message passes from a turn to the
  worker's receiver, a session and an ingestion. `IInv` says that each is made once,
  that what is still to be received is in no session or ingestion yet, and that a
  session holds only its own conversation.
* `EndedSessionsHanded`: `Spec => EndsAreHanded`, an action property; each of the
  three places that end a session hands it over or has the excuse the property names.

`AgentRuntimeProofs`

* `TypeCorrect` and `BusTellsInOrder`: `TurnsInOrder` is about the bus. What comes
  onto it comes from the mailbox, what is there from a turn, and a
  turn from what the dialogue engine has read of the bus; `IInv` states the order at
  each of these places, and that no turn is started twice from one mention.
* `FetchesKeepToLimits`: `Mcp!Spec => []Mcp!FetchIsBounded`, where `Mcp` is the MCP
  server, instantiated beside the runtime as one of its workers: the shutdown signal
  it may see is the runtime's `signalled`. It is assumed that the limits are naturals
  and that no HTTP request is named as the session on stdin is. The property bounds
  the requests; `FetchInv` says how many there have been: one per redirect followed,
  and one for the present address once it has been sent. That a page belongs to a call
  still waited for has to survive the timer: `TimesOut` and every end of a call drop
  its page in the same step (`FinishKeeps`), and so does the end of the process; a
  session on stdin leaves its call in no other way.

`PlatformRelayProofs`

* `TypeCorrect`, `FramesStayWhole`, `ResponsesStayHome`: what is in a socket, with
  what the process has read of its first frame, is a sequence of whole frames but for
  the last, whose first part is there exactly while its writer holds the lock
  (`ConnOK`). Responses are traced from the broadcast through forwarder, socket and
  client channel. No run checks `OwnPlatform`, which says of responses on their way
  what the service says of those that have come.
* `RelayKeepsPromise`: `Spec => ImplementsService`. Hand-over, `ingest`, answer and
  `recv_response` are the steps of `RelayService`, all others stutters. `UpInv` looks
  at what is between a process and the agent (`Pipe`: the loop's hand, the socket and
  the client's channel) as one sequence: it is in order, and what precedes a message
  in it has reached the agent or is ahead of it in the sequence (`Orderly`); while the
  process lives nothing taken is missing (`Complete`), which is why the next message
  fits at the end. `DownInv` does the same for what a process has got and what is
  still in its socket (`Flow`): answers among the first `Done` of the broadcast, in
  its order. `Done` leaves out the response the forwarder has in hand, so that the
  next one written is behind all others, also after a lag. `RelayBoth` has several
  messages on the connection that is not read only: the order of those on one that is
  rests on the proof.

`StateWorkersProofs`

* `TypeCorrect` (no run checks this `TypeOK`), `NewOncePerWindow`, `MarksAreCounted`:
  the property is about all marks ever made and the code looks only at the ids it
  remembers. `Windows` links them: what a source remembers is the last of its marks.
  `InHand` says what a worker between two calls of the store has already done.

`SocialGraphProofs`

* `TypeCorrect`, `FreshAnswersRecent`, `TreesAgreeWithEdges`: a fresh answer comes
  from a stored tree, the tree from a projection, and the projection from up to
  twelve statements with updates between them. `Local` follows a caller: each value
  it has read was in the graph at this tick of the clock, although value and time of
  an edge may come from either side of an update. `Roots` says the same of stored
  trees and the tick they are stamped with.

`DialogueTurnProofs`

* `OneContextPerMessage`: `Spec => []SameContext`. Two askers are compared through
  the slot: each one's context is the slot's content or at least a lifetime older
  (`ContextsOK`), since a slot is computed by one asker at a time and only when its
  content has expired (`LocksOK`), and a message keeps its slot until the cache is
  cleared (`CacheOK`).
* `PromptsAreWhole`: `Spec => []PromptWellFormed`. The property says what the code
  makes of a prompt, with what a finished tool loop costs it: the images are gone, a
  made-up id is the call's place in its round on one side and its number on the other,
  and calls are without a result once there are `MaxCalls` results. The property speaks
  of the prompt that is streamed; `TInv` says what a turn has at each stage before
  (`TurnOK`). While the loop runs, its messages are a prompt's but for the policy and
  the images, with as many results as calls executed, and only its last round may lack
  results (`LoopOK`); the calls still to be executed are the rest of that round, each
  numbered by its place (`Pending`). A loop that ends replaces the system
  message (`LoopEndsWhole`); one that fails leaves the prompt and the blocks as they
  were before it, so that the fallback can insert the summary where the direct path
  has it (`BlocksParts`). Each round of requests executes a call, which bounds them.

Only model-checked:

* liveness under fairness, and anything about `ENABLED`: out of the prover's reach;
* what recursive definitions compute for every input, since the library's induction
  theorems take an operator as a parameter, which the provers do not instantiate;
  no module has `RECURSIVE` operators, and `Power` of `MCSocialGraph` stays with TLC.

## Plan

1. The end of the agent process on the relay's side.
2. `DialogueTurn` composed with `AgentRuntime`'s turns; the selection of messages
   for a prompt as a pure algorithm.

Abstract specifications worth stating: `DurableLog` and `RelayService` (done), a mailbox that keeps
each sender's order, a duplicate filter.

## Not modelled

`PROJECT.json` gives the reason per component. Left out for good: prompt texts
and their rendering, the LLM, embedding and vector-store calls beyond success and
failure, the platforms' own APIs, the front ends and configuration parsing.
