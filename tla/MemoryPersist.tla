---------------------------- MODULE MemoryPersist -----------------------------
(***************************************************************************)
(* How the memory worker makes messages durable (libs/memory/src/worker.rs *)
(* and store.rs): the worker takes messages off the event broadcast and    *)
(* hands them to a writer task over a bounded queue; the writer collects   *)
(* batches and commits each in one transaction.  Shutdown is a broadcast   *)
(* that the two tasks hear separately; the process may also die.           *)
(*                                                                         *)
(* Messages are numbered in the order the worker takes them, so message m  *)
(* is the m-th one recorded.                                               *)
(***************************************************************************)
EXTENDS Integers, Sequences, FiniteSets

CONSTANTS
  QueueCapacity, \* MEMORY_WRITE_CHANNEL_CAPACITY (1024)
  BatchSize,     \* MEMORY_WRITE_BATCH_SIZE (64)
  MaxMessages,   \* bound on the messages of a behaviour
  MaxCrashes     \* bound on its crashes

ASSUME CapacityAssumption == QueueCapacity \in Nat \ {0} /\ BatchSize \in Nat \ {0}
ASSUME BoundsAssumption == MaxMessages \in Nat /\ MaxCrashes \in Nat

VARIABLES
  worker,      \* MemoryWorker::start: where it is
  writer,      \* run_persist_writer: where it is
  accepted,    \* messages taken off the broadcast so far
  inHand,      \* the message persist_message still holds: <<>> or <<m>>
  queue,       \* the mpsc channel between them
  buffer,      \* the writer's batch; in the flush states, the batch in flight
  written,     \* messages whose transaction committed, in commit order
  failed,      \* messages of batches whose transaction failed
  lost,        \* messages dropped with a channel, or with the process
  signalled,   \* the shutdown signal has been sent
  workerHears, \* the worker subscribed before the signal
  writerHears, \* the writer's receiver was subscribed before the signal
  queuedAtSignal, \* last message handed to the writer when the signal came
  crashes

tasks == <<worker, writer, inHand, queue, buffer>>
outcome == <<written, failed, lost>>
signal == <<signalled, workerHears, writerHears, queuedAtSignal>>
vars == <<tasks, accepted, outcome, signal, crashes>>

WorkerStates == {"open", "subscribe", "recv", "sending", "direct", "draining", "stopped"}
WriterStates == {"none", "select", "fill", "flush", "drain", "drain_flush", "final_flush", "done"}
FlushStates == {"flush", "drain_flush", "final_flush"}

Elements(s) == {s[i] : i \in 1 .. Len(s)}
\* The receiver half of the channel exists.
Receiving == writer \notin {"none", "done"}

Init ==
  /\ worker = "open" /\ writer = "none"
  /\ inHand = <<>> /\ queue = <<>> /\ buffer = <<>>
  /\ signalled = FALSE /\ workerHears = FALSE /\ writerHears = FALSE
  /\ queuedAtSignal = 0 /\ accepted = 0 /\ crashes = 0
  /\ written = <<>> /\ failed = {} /\ lost = {}

-----------------------------------------------------------------------------
(* The worker *)

\* The store is open and the writer spawned, with a shutdown receiver of its own.
SpawnWriter ==
  /\ worker = "open"
  /\ worker' = "subscribe" /\ writer' = "select"
  /\ writerHears' = ~signalled
  /\ UNCHANGED <<inHand, queue, buffer, accepted, outcome, signalled, workerHears,
                 queuedAtSignal, crashes>>

Subscribe ==
  /\ worker = "subscribe"
  /\ worker' = "recv" /\ workerHears' = ~signalled
  /\ UNCHANGED <<writer, inHand, queue, buffer, accepted, outcome, signalled, writerHears,
                 queuedAtSignal, crashes>>

\* Mutations: with the queue full, the worker writes itself, or gives up.
AcceptFull(step) ==
  /\ worker = "recv" /\ accepted < MaxMessages
  /\ accepted' = accepted + 1
  /\ IF Receiving /\ Len(queue) < QueueCapacity
     THEN worker' = "recv" /\ inHand' = <<>> /\ queue' = Append(queue, accepted + 1)
     ELSE worker' = step /\ queue' = queue
          /\ inHand' = IF step = "recv" THEN <<>> ELSE <<accepted + 1>>
  /\ UNCHANGED <<writer, buffer, outcome, signal, crashes>>
AcceptDirectWhenFull == AcceptFull("direct")
AcceptDropsWhenFull == AcceptFull("recv")

\* A mention or a completed bot turn arrives; persist_message tries the queue
\* first, waits for room if it is full, and writes itself if the writer is gone.
Accept ==
  /\ worker = "recv" /\ accepted < MaxMessages
  /\ accepted' = accepted + 1
  /\ IF ~Receiving
     THEN worker' = "direct" /\ inHand' = <<accepted + 1>> /\ queue' = queue
     ELSE IF Len(queue) = QueueCapacity
     THEN worker' = "sending" /\ inHand' = <<accepted + 1>> /\ queue' = queue
     ELSE worker' = "recv" /\ inHand' = <<>> /\ queue' = Append(queue, accepted + 1)
  /\ UNCHANGED <<writer, buffer, outcome, signal, crashes>>

SendPending ==
  /\ worker = "sending"
  /\ \/ /\ Receiving /\ Len(queue) < QueueCapacity
        /\ queue' = queue \o inHand /\ inHand' = <<>> /\ worker' = "recv"
     \/ /\ ~Receiving
        /\ worker' = "direct" /\ UNCHANGED <<queue, inHand>>
  /\ UNCHANGED <<writer, buffer, accepted, outcome, signal, crashes>>

DirectPersist ==
  /\ worker = "direct"
  /\ \/ written' = written \o inHand /\ failed' = failed
     \/ failed' = failed \cup Elements(inHand) /\ written' = written
  /\ inHand' = <<>> /\ worker' = "recv"
  /\ UNCHANGED <<writer, queue, buffer, accepted, lost, signal, crashes>>

\* The loop ends, the sender is dropped and the writer awaited.
WorkerShutdown ==
  /\ worker = "recv" /\ signalled /\ workerHears
  /\ worker' = "draining"
  /\ UNCHANGED <<writer, inHand, queue, buffer, accepted, outcome, signal, crashes>>

WorkerStopped ==
  /\ worker = "draining" /\ writer = "done"
  /\ worker' = "stopped"
  /\ UNCHANGED <<writer, inHand, queue, buffer, accepted, outcome, signal, crashes>>

-----------------------------------------------------------------------------
(* The writer *)

\* recv, then try_recv until the batch is full or the queue empty.
Receive ==
  /\ writer \in {"select", "fill"} /\ queue # <<>> /\ Len(buffer) < BatchSize
  /\ buffer' = Append(buffer, Head(queue)) /\ queue' = Tail(queue)
  /\ writer' = "fill"
  /\ UNCHANGED <<worker, inHand, accepted, outcome, signal, crashes>>

Filled ==
  /\ writer = "fill" /\ (queue = <<>> \/ Len(buffer) >= BatchSize)
  /\ writer' = IF Len(buffer) >= BatchSize THEN "flush" ELSE "select"
  /\ UNCHANGED <<worker, inHand, queue, buffer, accepted, outcome, signal, crashes>>

\* Mutation: the interval only flushes full batches.
FlushTickFull ==
  /\ writer = "select" /\ Len(buffer) >= BatchSize
  /\ writer' = "flush"
  /\ UNCHANGED <<worker, inHand, queue, buffer, accepted, outcome, signal, crashes>>

FlushTick ==
  /\ writer = "select" /\ buffer # <<>>
  /\ writer' = "flush"
  /\ UNCHANGED <<worker, inHand, queue, buffer, accepted, outcome, signal, crashes>>

\* recv returns None: the sender is gone and the queue is empty.
SenderGone ==
  /\ writer = "select" /\ queue = <<>> /\ worker = "draining"
  /\ writer' = "final_flush"
  /\ UNCHANGED <<worker, inHand, queue, buffer, accepted, outcome, signal, crashes>>

\* Mutation: the queue is not drained on shutdown.
WriterShutdownNow ==
  /\ writer = "select" /\ signalled /\ writerHears
  /\ writer' = "final_flush"
  /\ UNCHANGED <<worker, inHand, queue, buffer, accepted, outcome, signal, crashes>>

WriterShutdown ==
  /\ writer = "select" /\ signalled /\ writerHears
  /\ writer' = "drain"
  /\ UNCHANGED <<worker, inHand, queue, buffer, accepted, outcome, signal, crashes>>

\* Mutation: draining collects one batch, however long.
DrainUnbounded ==
  /\ writer = "drain"
  /\ IF queue = <<>>
     THEN writer' = "final_flush" /\ UNCHANGED <<queue, buffer>>
     ELSE buffer' = Append(buffer, Head(queue)) /\ queue' = Tail(queue) /\ writer' = writer
  /\ UNCHANGED <<worker, inHand, accepted, outcome, signal, crashes>>

Drain ==
  /\ writer = "drain"
  /\ IF queue = <<>>
     THEN writer' = "final_flush" /\ UNCHANGED <<queue, buffer>>
     ELSE /\ buffer' = Append(buffer, Head(queue)) /\ queue' = Tail(queue)
          /\ writer' = IF Len(buffer) + 1 >= BatchSize THEN "drain_flush" ELSE "drain"
  /\ UNCHANGED <<worker, inHand, accepted, outcome, signal, crashes>>

\* Mutation: the loop is not left after the last flush.
FlushedNoBreak ==
  /\ writer \in FlushStates
  /\ \/ written' = written \o buffer /\ failed' = failed
     \/ failed' = failed \cup Elements(buffer) /\ written' = written
  /\ buffer' = <<>>
  /\ writer' = IF writer = "drain_flush" THEN "drain" ELSE "select"
  /\ UNCHANGED <<worker, inHand, queue, accepted, lost, signal, crashes>>

\* The transaction of a batch ends: all of it or none of it.  After the last one
\* the receiver is dropped, with whatever came into the queue meanwhile.
Flushed ==
  /\ writer \in FlushStates
  /\ \/ written' = written \o buffer /\ failed' = failed
     \/ failed' = failed \cup Elements(buffer) /\ written' = written
  /\ buffer' = <<>>
  /\ IF writer = "final_flush"
     THEN writer' = "done" /\ lost' = lost \cup Elements(queue) /\ queue' = <<>>
     ELSE /\ writer' = IF writer = "flush" THEN "select" ELSE "drain"
          /\ UNCHANGED <<lost, queue>>
  /\ UNCHANGED <<worker, inHand, accepted, signal, crashes>>

-----------------------------------------------------------------------------
(* The process *)

SendSignal ==
  /\ ~signalled
  /\ signalled' = TRUE
  /\ queuedAtSignal' = accepted - Len(inHand)
  /\ UNCHANGED <<tasks, accepted, outcome, workerHears, writerHears, crashes>>

\* Mutation: the last commit does not survive the process.
CrashForgets ==
  /\ crashes < MaxCrashes /\ worker # "open" /\ written # <<>>
  /\ crashes' = crashes + 1
  /\ lost' = lost \cup Elements(inHand \o queue \o buffer) \cup {written[Len(written)]}
  /\ written' = SubSeq(written, 1, Len(written) - 1)
  /\ worker' = "open" /\ writer' = "none"
  /\ inHand' = <<>> /\ queue' = <<>> /\ buffer' = <<>>
  /\ signalled' = FALSE /\ workerHears' = FALSE /\ writerHears' = FALSE
  /\ queuedAtSignal' = 0
  /\ UNCHANGED <<accepted, failed>>

\* The process ends, by a crash or by main returning, and is started again.
Crash ==
  /\ crashes < MaxCrashes /\ worker # "open"
  /\ crashes' = crashes + 1
  /\ lost' = lost \cup Elements(inHand) \cup Elements(queue) \cup Elements(buffer)
  /\ worker' = "open" /\ writer' = "none"
  /\ inHand' = <<>> /\ queue' = <<>> /\ buffer' = <<>>
  /\ signalled' = FALSE /\ workerHears' = FALSE /\ writerHears' = FALSE
  /\ queuedAtSignal' = 0
  /\ UNCHANGED <<accepted, written, failed>>

Finished == worker = "stopped" /\ UNCHANGED vars
\* The worker waits for messages that the bound keeps from coming.
OutOfMessages ==
  /\ accepted = MaxMessages /\ worker = "recv" /\ ~(signalled /\ workerHears)
  /\ UNCHANGED vars

WorkerStep ==
  SpawnWriter \/ Subscribe \/ SendPending \/ DirectPersist \/ WorkerShutdown \/ WorkerStopped
WriterStep == Receive \/ Filled \/ FlushTick \/ SenderGone \/ WriterShutdown \/ Drain \/ Flushed

Next == WorkerStep \/ WriterStep \/ Accept \/ SendSignal \/ Crash \/ Finished \/ OutOfMessages

Spec == Init /\ [][Next]_vars
\* Both tasks are polled as long as they can go on, and a transaction ends.
FairSpec == Spec /\ WF_vars(WorkerStep) /\ WF_vars(WriterStep)

-----------------------------------------------------------------------------
(* Properties *)

\* What is on its way to the table, in order.
Pipeline == written \o buffer \o queue \o inHand

\* Types, and the limits of the queue, the batch and the message in hand.
TypeOK ==
  /\ worker \in WorkerStates /\ writer \in WriterStates
  /\ accepted \in Nat /\ crashes \in Nat /\ queuedAtSignal \in Nat
  /\ inHand \in Seq(Nat) /\ Len(inHand) = IF worker \in {"sending", "direct"} THEN 1 ELSE 0
  /\ queue \in Seq(Nat) /\ Len(queue) <= QueueCapacity
  /\ buffer \in Seq(Nat) /\ Len(buffer) <= BatchSize
  /\ written \in Seq(Nat) /\ failed \subseteq Nat /\ lost \subseteq Nat
  /\ signalled \in BOOLEAN /\ workerHears \in BOOLEAN /\ writerHears \in BOOLEAN

\* Messages become durable in the order they were taken, and none twice: a
\* direct write of the worker never overtakes what the writer still holds.
InOrder ==
  \A i, j \in 1 .. Len(Pipeline) : i < j => Pipeline[i] < Pipeline[j]

\* Every message taken is in exactly one place: durable or on its way, in a batch
\* that failed, or dropped.
Accounted ==
  /\ Elements(Pipeline) \cup failed \cup lost = 1 .. accepted
  /\ Elements(Pipeline) \cap (failed \cup lost) = {} /\ failed \cap lost = {}

\* Without a crash, shutdown loses no message the writer had been handed before
\* the signal: it drains its queue before the last flush.
SignalledSafe == crashes = 0 => \A m \in lost : m > queuedAtSignal

\* Recording implements the log it promises: decided once, in order, across
\* failed transactions, shutdown and crashes.
Log == INSTANCE DurableLog WITH taken <- accepted, log <- written,
                                dropped <- failed \cup lost
ImplementsLog == Log!Spec

\* Every message taken is settled in the end: durable, failed or dropped, and
\* never left in a queue or a batch that nobody empties.
Settles ==
  \A m \in 1 .. MaxMessages :
    accepted >= m ~> m \in Elements(written) \cup failed \cup lost

\* A worker that hears the signal stops, unless the process dies first.
Stops == signalled /\ workerHears ~> worker \in {"stopped", "open"}
=============================================================================
