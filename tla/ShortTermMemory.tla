---------------------------- MODULE ShortTermMemory ----------------------------
(***************************************************************************)
(* The agent's conversations in memory (libs/memory/src/short_term.rs) and *)
(* the memory worker around them (worker.rs): sessions that messages       *)
(* extend and silence ends, their hand-over to semantic ingestion, the     *)
(* rows that rebuild them after a restart, and the lock that the dialogue  *)
(* engine's readers share with the worker.                                 *)
(*                                                                         *)
(* Only mentions are recorded; mention m opens a turn, whose answer is the *)
(* bot's message of the same number.  The write queue is MemoryPersist's   *)
(* subject: here it holds, writes or loses messages.                       *)
(***************************************************************************)
EXTENDS Integers, Sequences, FiniteSets, SequencesExt

CONSTANTS
  Mentions,      \* the messages that mention the agent, numbered as they come
  Convs,         \* conversations: (platform, channel_id)
  ConvOf,        \* the conversation of each mention
  BaseTimeout,   \* base_timeout_secs (20 minutes)
  PerMessage,    \* what a message adds to it (1 minute)
  MaxTimeout,    \* and the most it can become (90 minutes)
  MinIngest,     \* shortest session worth ingesting (3)
  Permits,       \* ingestions at a time (1 to 4)
  LoadLimit,     \* rows read back at start (500)
  QueueCapacity, BroadcastCapacity, \* as in MemoryPersist and AgentRuntime
  MaxTime,       \* bound on the clock
  MaxRestarts    \* bound on the ends of the process

ASSUME MentionsAssumption == Mentions \subseteq Nat /\ ConvOf \in [Mentions -> Convs]
ASSUME TimeoutAssumption ==
  /\ BaseTimeout \in Nat /\ PerMessage \in Nat /\ MaxTimeout \in Nat
  /\ BaseTimeout <= MaxTimeout /\ MinIngest \in Nat \ {0}
ASSUME CapacityAssumption ==
  /\ Permits \in Nat \ {0} /\ LoadLimit \in Nat
  /\ QueueCapacity \in Nat \ {0} /\ BroadcastCapacity \in Nat \ {0}
ASSUME BoundsAssumption == MaxTime \in Nat /\ MaxRestarts \in Nat

VARIABLES
  clock,
  restarts,
  turn,      \* the dialogue engine's turn of each mention
  inbox,     \* what the worker has still to take from the broadcast
  worker,    \* where the worker is; "turn" holds the short-term lock
  inHand,    \* the message persist_message holds: <<>> or <<msg>>
  evicted,   \* the session that the mention in hand has ended
  sessions,  \* ShortTermMemory.sessions
  queue,     \* messages on their way to the table
  rows,      \* the messages table
  waiting,   \* sessions whose ingestion waits for a permit
  running,   \* and those being ingested
  handed     \* sessions handed over to ingestion, ever

timeVars == <<clock, restarts>>
workerVars == <<worker, inHand, evicted>>
storeVars == <<queue, rows>>
jobVars == <<waiting, running, handed>>
vars == <<timeVars, turn, inbox, workerVars, sessions, storeVars, jobVars>>

Times == 0 .. MaxTime
Messages == [of : Mentions, bot : BOOLEAN, at : Times]
Message(m, b, t) == [of |-> m, bot |-> b, at |-> t]
Conv(msg) == ConvOf[msg.of]
Session(msgs, active, ingested) ==
  [messages |-> msgs, last_active |-> active, already_ingested |-> ingested]
NoSession == Session(<<>>, 0, FALSE)
NoSessions == [c \in Convs |-> NoSession]

Init ==
  /\ clock = 0 /\ restarts = 0
  /\ turn = [m \in Mentions |-> "none"] /\ inbox = <<>>
  /\ worker = "loading" /\ inHand = <<>> /\ evicted = <<>>
  /\ sessions = NoSessions /\ queue = <<>> /\ rows = {}
  /\ waiting = {} /\ running = {} /\ handed = {}

Alive == worker # "down"
\* bot turns are pushed under a guard that lives until they are queued.
LockFree == worker # "turn"

-----------------------------------------------------------------------------
(* Sessions *)

\* After n messages, a silence longer than this ends a session.
Timeout(n) == IF n * PerMessage < MaxTimeout - BaseTimeout
              THEN BaseTimeout + n * PerMessage ELSE MaxTimeout
IsExpired(s, now) ==
  s.messages # <<>> /\ now - s.last_active > Timeout(Len(s.messages))

\* Mutation: a message always joins the session of its conversation.
PushedJoining(msg) ==
  LET old == sessions[Conv(msg)]
  IN  [sessions EXCEPT ![Conv(msg)] =
         Session(Append(old.messages, msg), msg.at, old.already_ingested)]
\* push: the message joins its session, or starts one if that has expired.
Pushed(msg) ==
  LET s == sessions[Conv(msg)]
      old == IF IsExpired(s, msg.at) THEN NoSession ELSE s
  IN  [sessions EXCEPT ![Conv(msg)] =
         Session(Append(old.messages, msg), msg.at, old.already_ingested)]
\* What push returns: the session it ended, unless that was loaded at start.
Ended(msg) ==
  LET s == sessions[Conv(msg)]
  IN  IF IsExpired(s, msg.at) /\ ~s.already_ingested THEN s.messages ELSE <<>>

\* Mutation: what is just long enough is not.
HandOverLonger(ended) ==
  LET jobs == {msgs \in ended : Len(msgs) > MinIngest}
  IN  waiting' = waiting \cup jobs /\ handed' = handed \cup jobs
\* ingest_session spawns a task for what is long enough.
HandOver(ended) ==
  LET jobs == {msgs \in ended : Len(msgs) >= MinIngest}
  IN  waiting' = waiting \cup jobs /\ handed' = handed \cup jobs

-----------------------------------------------------------------------------
(* Time, platforms and the dialogue engine *)

Tick ==
  /\ clock < MaxTime /\ clock' = clock + 1
  /\ UNCHANGED <<restarts, turn, inbox, workerVars, sessions, storeVars, jobVars>>

\* The memory worker hears what is broadcast once it has loaded its history.
Broadcast(msg) == inbox' = IF worker = "loading" THEN inbox ELSE Append(inbox, msg)

Arrive(m) ==
  /\ Alive /\ turn[m] = "none"
  /\ \A n \in Mentions : n < m => turn[n] # "none"
  /\ turn' = [turn EXCEPT ![m] = "asking"]
  /\ Broadcast(Message(m, FALSE, clock))
  /\ UNCHANGED <<timeVars, workerVars, sessions, storeVars, jobVars>>

\* The engine reads the history for its prompt under the lock.
ReadHistory(m) ==
  /\ Alive /\ turn[m] = "asking" /\ LockFree
  /\ turn' = [turn EXCEPT ![m] = "running"]
  /\ UNCHANGED <<timeVars, inbox, workerVars, sessions, storeVars, jobVars>>

\* The turn has answered; its message will get its time when it is recorded.
Complete(m) ==
  /\ Alive /\ turn[m] = "running"
  /\ turn' = [turn EXCEPT ![m] = "done"]
  /\ Broadcast(Message(m, TRUE, 0))
  /\ UNCHANGED <<timeVars, workerVars, sessions, storeVars, jobVars>>

-----------------------------------------------------------------------------
(* The memory worker *)

\* History of a conversation from the newest rows, oldest message first.
Before(a, b) == \/ a.at < b.at
                \/ a.at = b.at /\ (a.of < b.of \/ (a.of = b.of /\ ~a.bot /\ b.bot))
Newest(table) ==
  {msg \in table : Cardinality({other \in table : Before(msg, other)}) < LoadLimit}
OldestFirst(msgs) ==
  CHOOSE s \in SetToSeqs(msgs) : \A i, j \in DOMAIN s : i < j => Before(s[i], s[j])
\* Mutation: loaded sessions are like any other.
LoadedFresh(c) ==
  LET msgs == OldestFirst({msg \in Newest(rows) : Conv(msg) = c})
  IN  IF msgs = <<>> THEN NoSession ELSE Session(msgs, Last(msgs).at, FALSE)
\* load_history and mark_all_persisted.
Loaded(c) ==
  LET msgs == OldestFirst({msg \in Newest(rows) : Conv(msg) = c})
  IN  IF msgs = <<>> THEN NoSession ELSE Session(msgs, Last(msgs).at, TRUE)

\* The table is read, or cannot be, and the worker subscribes.
Load ==
  /\ worker = "loading" /\ worker' = "recv"
  /\ sessions' \in {[c \in Convs |-> Loaded(c)], NoSessions}
  /\ UNCHANGED <<timeVars, turn, inbox, inHand, evicted, storeVars, jobVars>>

CanTake == worker = "recv" /\ inbox # <<>> /\ Len(inbox) <= BroadcastCapacity

TakeMention ==
  /\ CanTake /\ ~Head(inbox).bot
  /\ LET msg == Head(inbox) IN
     /\ sessions' = Pushed(msg) /\ evicted' = Ended(msg) /\ inHand' = <<msg>>
  /\ inbox' = Tail(inbox) /\ worker' = "mention"
  /\ UNCHANGED <<timeVars, turn, storeVars, jobVars>>

\* A session that the agent's own message ends is not looked at.
TakeAnswer ==
  /\ CanTake /\ Head(inbox).bot
  /\ LET msg == Message(Head(inbox).of, TRUE, clock) IN
     sessions' = Pushed(msg) /\ inHand' = <<msg>>
  /\ inbox' = Tail(inbox) /\ worker' = "turn"
  /\ UNCHANGED <<timeVars, turn, evicted, storeVars, jobVars>>

Lag ==
  /\ worker = "recv" /\ Len(inbox) > BroadcastCapacity
  /\ inbox' = SubSeq(inbox, Len(inbox) - BroadcastCapacity + 1, Len(inbox))
  /\ UNCHANGED <<timeVars, turn, workerVars, sessions, storeVars, jobVars>>

\* Mutation: the queue takes whatever comes.
PersistUnbounded ==
  /\ worker \in {"mention", "turn"}
  /\ queue' = queue \o inHand /\ inHand' = <<>> /\ evicted' = <<>>
  /\ HandOver({evicted}) /\ worker' = "recv"
  /\ UNCHANGED <<timeVars, turn, inbox, sessions, rows, running>>
\* persist_message has its room in the queue; then the ended session goes.
Persist ==
  /\ worker \in {"mention", "turn"} /\ Len(queue) < QueueCapacity
  /\ queue' = queue \o inHand /\ inHand' = <<>> /\ evicted' = <<>>
  /\ HandOver({evicted}) /\ worker' = "recv"
  /\ UNCHANGED <<timeVars, turn, inbox, sessions, rows, running>>

\* Mutation: sessions loaded at start are left alone.
FlushTickUnmarked ==
  /\ worker = "recv"
  /\ LET expired == {c \in Convs : IsExpired(sessions[c], clock) /\ ~sessions[c].already_ingested} IN
     /\ expired # {}
     /\ sessions' = [c \in Convs |-> IF c \in expired THEN NoSession ELSE sessions[c]]
     /\ HandOver({sessions[c].messages : c \in expired})
  /\ UNCHANGED <<timeVars, turn, inbox, workerVars, storeVars, running>>
\* flush_expired on the minute.
FlushTick ==
  /\ worker = "recv"
  /\ LET expired == {c \in Convs : IsExpired(sessions[c], clock)} IN
     /\ expired # {}
     /\ sessions' = [c \in Convs |-> IF c \in expired THEN NoSession ELSE sessions[c]]
     /\ HandOver({sessions[c].messages : c \in {d \in expired : ~sessions[d].already_ingested}})
  /\ UNCHANGED <<timeVars, turn, inbox, workerVars, storeVars, running>>

-----------------------------------------------------------------------------
(* The writer, the ingestion tasks, the process *)

\* Mutation: the writer, too, looks at the sessions.
WriteUnderLock ==
  /\ Alive /\ queue # <<>> /\ LockFree
  /\ rows' \in {rows, rows \cup {Head(queue)}}
  /\ queue' = Tail(queue)
  /\ UNCHANGED <<timeVars, turn, inbox, workerVars, sessions, jobVars>>
\* A message is committed, or lost with its transaction.
Write ==
  /\ Alive /\ queue # <<>>
  /\ rows' \in {rows, rows \cup {Head(queue)}}
  /\ queue' = Tail(queue)
  /\ UNCHANGED <<timeVars, turn, inbox, workerVars, sessions, jobVars>>

StartJob(job) ==
  /\ job \in waiting /\ Cardinality(running) < Permits
  /\ waiting' = waiting \ {job} /\ running' = running \cup {job}
  /\ UNCHANGED <<timeVars, turn, inbox, workerVars, sessions, storeVars, handed>>

\* Compressed, embedded and inserted, or not; the permit goes back either way.
EndJob(job) ==
  /\ job \in running /\ running' = running \ {job}
  /\ UNCHANGED <<timeVars, turn, inbox, workerVars, sessions, storeVars, waiting, handed>>

\* A shutdown or a crash: some of the queue may still have been written.
End ==
  /\ Alive /\ restarts < MaxRestarts /\ restarts' = restarts + 1
  /\ \E n \in 0 .. Len(queue) : rows' = rows \cup ToSet(SubSeq(queue, 1, n))
  /\ turn' = [m \in Mentions |-> IF turn[m] = "none" THEN "none" ELSE "done"]
  /\ worker' = "down" /\ inHand' = <<>> /\ evicted' = <<>> /\ inbox' = <<>>
  /\ sessions' = NoSessions /\ queue' = <<>> /\ waiting' = {} /\ running' = {}
  /\ UNCHANGED <<clock, handed>>

Boot ==
  /\ worker = "down" /\ worker' = "loading"
  /\ UNCHANGED <<timeVars, turn, inbox, inHand, evicted, sessions, storeVars, jobVars>>

WorkerStep == Load \/ TakeMention \/ TakeAnswer \/ Lag \/ Persist
Jobs == waiting \cup running
Next ==
  \/ Tick \/ WorkerStep \/ FlushTick \/ Write \/ End \/ Boot
  \/ \E m \in Mentions : Arrive(m) \/ ReadHistory(m) \/ Complete(m)
  \/ \E job \in Jobs : StartJob(job) \/ EndJob(job)

Spec == Init /\ [][Next]_vars
\* Tasks go on, select! takes the interval's branch in the end, and tokio's lock
\* is a queue.  Mentions, answers, time, ends and calls of models are not fair.
FairSpec ==
  /\ Spec /\ WF_vars(WorkerStep) /\ SF_vars(FlushTick) /\ WF_vars(Write)
  /\ \A m \in Mentions : SF_vars(ReadHistory(m))

-----------------------------------------------------------------------------
(* Properties *)

\* Types; neither the queue nor the running ingestions exceed their limits.
TypeOK ==
  /\ clock \in Times /\ restarts \in 0 .. MaxRestarts
  /\ turn \in [Mentions -> {"none", "asking", "running", "done"}]
  /\ inbox \in Seq(Messages)
  /\ worker \in {"down", "loading", "recv", "mention", "turn"}
  /\ inHand \in Seq(Messages) /\ Len(inHand) <= 1 /\ evicted \in Seq(Messages)
  /\ \A c \in Convs :
       sessions[c] \in [messages : Seq(Messages), last_active : Times, already_ingested : BOOLEAN]
  /\ queue \in Seq(Messages) /\ Len(queue) <= QueueCapacity
  /\ rows \subseteq Messages
  /\ \A job \in handed : job \in Seq(Messages)
  /\ Jobs \subseteq handed /\ Cardinality(running) <= Permits

\* The message a mention or an answer is, whatever its time.
Ids(msgs) == {<<msgs[i].of, msgs[i].bot>> : i \in 1 .. Len(msgs)}

Unmarked == {c \in Convs : ~sessions[c].already_ingested}
Apart(a, b) == Ids(a) \cap Ids(b) = {}
IngestedOnce ==
  /\ \A job \in handed : Apart(job, evicted) /\ \A other \in handed \ {job} : Apart(job, other)
  /\ \A c \in Unmarked : \A done \in handed \cup {evicted} : Apart(sessions[c].messages, done)

IsConversation(msgs) ==
  \A i \in 1 .. Len(msgs) - 1 :
    Conv(msgs[i]) = Conv(msgs[i + 1]) /\ msgs[i + 1].at - msgs[i].at <= Timeout(i)

\* What is ingested, or may be, is one conversation without a silence that should
\* have ended it, each message within the timeout the ones before it gave; and no
\* message is ingested twice, restarts included: the sessions handed over are
\* disjoint, and what may still be handed over has not been (mark_all_persisted).
IngestsConversationsOnce ==
  /\ \A msgs \in handed \cup {evicted} \cup {sessions[c].messages : c \in Unmarked} :
       IsConversation(msgs)
  /\ IngestedOnce

\* A session that ends while the process goes on is handed over, unless it is too
\* short, was loaded at start, or was ended by the agent's own message.
EndsAreHanded ==
  [][worker' # "down" =>
       /\ \A c \in Convs :
            LET s == sessions[c] IN
            ~IsPrefix(s.messages, sessions'[c].messages) =>
              \/ s.already_ingested \/ Len(s.messages) < MinIngest
              \/ s.messages \in waiting' \/ s.messages = evicted' \/ worker' = "turn"
       /\ evicted = evicted' \/ Len(evicted) < MinIngest \/ evicted \in waiting']_vars

\* An expired session leaves memory, whether or not its conversation goes on.
SessionsEnd ==
  \A c \in Convs : IsExpired(sessions[c], clock) ~> ~IsExpired(sessions[c], clock)

\* A reader gets the lock in the end, although the worker holds it across the
\* wait for a full queue.
HistoriesAreRead == \A m \in Mentions : turn[m] = "asking" ~> turn[m] # "asking"
================================================================================
