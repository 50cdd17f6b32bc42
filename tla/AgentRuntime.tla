------------------------------ MODULE AgentRuntime -----------------------------
(***************************************************************************)
(* The process of the agent (apps/agent/src/main.rs and libs/runtime): the *)
(* supervisor starts the workers, the coordinator moves every event from   *)
(* one bounded mailbox to a broadcast the workers read with a cursor each, *)
(* the dialogue engine answers a mention in a turn of its own, and Ctrl+C  *)
(* is a broadcast that only reaches those who have subscribed by then.     *)
(*                                                                         *)
(* Raw events are numbered; raw event r starts turn r, which emits lines   *)
(* 1, 2, ... as responses and then its completion.                         *)
(***************************************************************************)
EXTENDS Integers, Sequences, FiniteSets

CONSTANTS
  Registered,        \* the workers in the order main registers them
  Relay,             \* the platform relay: accepts connections, reads no events
  Dialogue,          \* the dialogue engine: turns mentions into answers
  MailboxCapacity,   \* EventBusConfig.mpsc_capacity (256)
  BroadcastCapacity, \* EventBusConfig.broadcast_capacity (128)
  MaxRaw,            \* bound on the raw events of a behaviour
  Mentions,          \* those that mention the agent
  MaxLines           \* bound on the lines of an answer

Workers == {Registered[i] : i \in 1 .. Len(Registered)}
Listeners == Workers \ {Relay}
Raws == 1 .. MaxRaw

ASSUME WorkersAssumption ==
  Registered \in Seq(Workers) /\ Relay \in Workers /\ Dialogue \in Listeners
ASSUME CapacityAssumption ==
  MailboxCapacity \in Nat \ {0} /\ BroadcastCapacity \in Nat \ {0}
ASSUME BoundsAssumption == MaxRaw \in Nat /\ MaxLines \in Nat /\ Mentions \subseteq Raws

VARIABLES
  main,        \* main(): where it is
  started,     \* how many workers start_all has spawned
  waiting,     \* workers whose handle shutdown() has still to await
  signalled,   \* the shutdown broadcast has been sent
  coordinator, \* its AgentState between two events
  mailbox,     \* event_tx / event_rx
  bus,         \* every event broadcast so far
  worker,      \* each worker's task
  hears,       \* it subscribed to the shutdown broadcast before the signal
  cursor,      \* last position of the bus it has passed
  missed,      \* positions it was told it lagged behind
  arrival,     \* each raw event in its connection task
  turn,        \* each turn's task
  said,        \* lines it has emitted
  aborting     \* the dialogue engine has aborted its turns

mainVars == <<main, started, waiting>>
coordVars == <<coordinator, mailbox, bus>>
workerVars == <<worker, hears, cursor, missed>>
turnVars == <<turn, said, aborting>>
vars == <<mainVars, signalled, coordVars, workerVars, arrival, turnVars>>

Event(kind, r, line) == [kind |-> kind, of |-> r, line |-> line]
WorkerStarted == Event("system", 0, 0)
Raw(r) == Event("raw", r, 0)
Line(r, k) == Event("response", r, k)
Completion(r) == Event("completion", r, 0)

Init ==
  /\ main = "starting" /\ started = 0 /\ waiting = {} /\ signalled = FALSE
  /\ coordinator = "Initializing" /\ mailbox = <<>> /\ bus = <<>>
  /\ worker = [w \in Workers |-> "registered"]
  /\ hears = [w \in Workers |-> FALSE]
  /\ cursor = [w \in Workers |-> 0] /\ missed = [w \in Workers |-> {}]
  /\ arrival = [r \in Raws |-> "none"]
  /\ turn = [r \in Raws |-> "none"] /\ said = [r \in Raws |-> 0]
  /\ aborting = FALSE

Alive == main # "down"
\* run() owns the receiver: when it returns, sends fail.
MailboxClosed == coordinator = "ShuttingDown"
\* Mutation: the mailbox is not bounded.
SendUnbounded(e) == mailbox' = IF MailboxClosed THEN mailbox ELSE Append(mailbox, e)
\* A send that is over: the event is in the mailbox, or the receiver is gone and
\* the error is logged or ignored.
Send(e) ==
  \/ ~MailboxClosed /\ Len(mailbox) < MailboxCapacity /\ mailbox' = Append(mailbox, e)
  \/ MailboxClosed /\ mailbox' = mailbox
\* Mutation: try_send, which drops the event when the mailbox is full.
SendOrDrop(e) ==
  mailbox' = IF ~MailboxClosed /\ Len(mailbox) < MailboxCapacity
             THEN Append(mailbox, e) ELSE mailbox

-----------------------------------------------------------------------------
(* main and the supervisor *)

StartWorker ==
  /\ main = "starting" /\ started < Len(Registered)
  /\ Send(WorkerStarted)
  /\ worker' = [worker EXCEPT ![Registered[started + 1]] = "starting"]
  /\ started' = started + 1
  /\ UNCHANGED <<main, waiting, signalled, coordinator, bus, hears, cursor, missed,
                 arrival, turnVars>>

AllStarted ==
  /\ main = "starting" /\ started = Len(Registered)
  /\ main' = "running"
  /\ UNCHANGED <<started, waiting, signalled, coordVars, workerVars, arrival, turnVars>>

\* Ctrl+C reaches main, which tells the supervisor to shut down.
CtrlC ==
  /\ main = "running"
  /\ main' = "stopping" /\ signalled' = TRUE /\ waiting' = Workers
  /\ UNCHANGED <<started, coordVars, workerVars, arrival, turnVars>>

Finished(w) == worker[w] \in {"exited", "stopped"}

\* A handle is awaited to its end ...
Joined(w) ==
  /\ main = "stopping" /\ w \in waiting /\ Finished(w)
  /\ waiting' = waiting \ {w}
  /\ UNCHANGED <<main, started, signalled, coordVars, workerVars, arrival, turnVars>>

\* Mutation: only workers that heard the signal are given up after the timeout.
TimedOutHearing(w) ==
  /\ main = "stopping" /\ w \in waiting /\ ~Finished(w) /\ hears[w]
  /\ waiting' = waiting \ {w}
  /\ UNCHANGED <<main, started, signalled, coordVars, workerVars, arrival, turnVars>>

\* ... or for ten seconds, and then dropped: the task is left running.
TimedOut(w) ==
  /\ main = "stopping" /\ w \in waiting /\ ~Finished(w)
  /\ waiting' = waiting \ {w}
  /\ UNCHANGED <<main, started, signalled, coordVars, workerVars, arrival, turnVars>>

\* main returns, and every task left ends with the process.
Exit ==
  /\ main = "stopping" /\ waiting = {}
  /\ main' = "down"
  /\ UNCHANGED <<started, waiting, signalled, coordVars, workerVars, arrival, turnVars>>

-----------------------------------------------------------------------------
(* The coordinator *)

CoordinatorStart ==
  /\ Alive /\ coordinator = "Initializing"
  /\ coordinator' = "Idle"
  /\ UNCHANGED <<mainVars, signalled, mailbox, bus, workerVars, arrival, turnVars>>

\* Mutation: a response is only passed on to a state that waits for one.
HandleEventWhenWaiting ==
  /\ Alive /\ coordinator = "Idle" /\ mailbox # <<>>
  /\ mailbox' = Tail(mailbox)
  /\ bus' = IF Head(mailbox).kind \in {"raw", "completion"}
            THEN Append(bus, Head(mailbox)) ELSE bus
  /\ UNCHANGED <<mainVars, signalled, coordinator, workerVars, arrival, turnVars>>

\* One event, handled without an await; Idle -> Processing -> Idle within it.
HandleEvent ==
  /\ Alive /\ coordinator = "Idle" /\ mailbox # <<>>
  /\ mailbox' = Tail(mailbox)
  /\ bus' = IF Head(mailbox).kind \in {"raw", "response", "completion"}
            THEN Append(bus, Head(mailbox)) ELSE bus
  /\ UNCHANGED <<mainVars, signalled, coordinator, workerVars, arrival, turnVars>>

\* It subscribed before it was spawned.  What is in the mailbox goes with it.
CoordinatorStop ==
  /\ Alive /\ coordinator = "Idle" /\ signalled
  /\ coordinator' = "ShuttingDown" /\ mailbox' = <<>>
  /\ UNCHANGED <<mainVars, signalled, bus, workerVars, arrival, turnVars>>

-----------------------------------------------------------------------------
(* The workers *)

\* start() returns before it listens: a bad configuration, a store or a socket
\* that cannot be opened, an authentication that fails.
StartFails(w) ==
  /\ Alive /\ worker[w] = "starting"
  /\ worker' = [worker EXCEPT ![w] = "exited"]
  /\ UNCHANGED <<mainVars, signalled, coordVars, hears, cursor, missed, arrival, turnVars>>

\* The worker subscribes, to the events and to the shutdown signal, once its
\* setup is over (the dialogue engine has called its API by then).
Subscribe(w) ==
  /\ Alive /\ worker[w] = "starting"
  /\ worker' = [worker EXCEPT ![w] = "listening"]
  /\ hears' = [hears EXCEPT ![w] = ~signalled]
  /\ cursor' = [cursor EXCEPT ![w] = Len(bus)]
  /\ UNCHANGED <<mainVars, signalled, coordVars, missed, arrival, turnVars>>

Listening(w) == Alive /\ w \in Listeners /\ worker[w] = "listening" /\ cursor[w] < Len(bus)

\* Mutation: a mention is only taken when no other turn is running.
HearOneAtATime(w) ==
  /\ Listening(w) /\ Len(bus) - cursor[w] <= BroadcastCapacity
  /\ cursor' = [cursor EXCEPT ![w] = @ + 1]
  /\ LET e == bus[cursor[w] + 1] IN
     turn' = IF /\ w = Dialogue /\ e.kind = "raw" /\ e.of \in Mentions
                /\ \A r \in Raws : turn[r] \notin {"answering", "saying", "completing"}
             THEN [turn EXCEPT ![e.of] = "answering"] ELSE turn
  /\ UNCHANGED <<mainVars, signalled, coordVars, worker, hears, missed, arrival, said, aborting>>

\* recv on the broadcast: the next event, which for the dialogue engine may be a
\* mention to answer.
Hear(w) ==
  /\ Listening(w) /\ Len(bus) - cursor[w] <= BroadcastCapacity
  /\ cursor' = [cursor EXCEPT ![w] = @ + 1]
  /\ LET e == bus[cursor[w] + 1] IN
     turn' = IF w = Dialogue /\ e.kind = "raw" /\ e.of \in Mentions
             THEN [turn EXCEPT ![e.of] = "answering"] ELSE turn
  /\ UNCHANGED <<mainVars, signalled, coordVars, worker, hears, missed, arrival, said, aborting>>

\* recv returns Lagged: what was overwritten is skipped, with a warning at most.
Lag(w) ==
  /\ Listening(w) /\ Len(bus) - cursor[w] > BroadcastCapacity
  /\ LET oldest == Len(bus) - BroadcastCapacity IN
     /\ missed' = [missed EXCEPT ![w] = @ \cup (cursor[w] + 1 .. oldest)]
     /\ cursor' = [cursor EXCEPT ![w] = oldest]
  /\ UNCHANGED <<mainVars, signalled, coordVars, worker, hears, arrival, turnVars>>

\* The loop is left on the signal; the dialogue engine aborts its turns.
Stop(w) ==
  /\ Alive /\ worker[w] = "listening" /\ signalled /\ hears[w]
  /\ worker' = [worker EXCEPT ![w] = "stopped"]
  /\ aborting' = (aborting \/ w = Dialogue)
  /\ UNCHANGED <<mainVars, signalled, coordVars, hears, cursor, missed, arrival, turn, said>>

-----------------------------------------------------------------------------
(* Raw events and turns *)

\* A platform's message reaches a connection task, which outlives the relay
\* worker, and is sent.
Arrive(r) ==
  /\ Alive /\ worker[Relay] \in {"listening", "stopped"} /\ arrival[r] = "none"
  /\ arrival' = [arrival EXCEPT ![r] = "sending"]
  /\ UNCHANGED <<mainVars, signalled, coordVars, workerVars, turnVars>>

Ingest(r) ==
  /\ Alive /\ arrival[r] = "sending" /\ Send(Raw(r))
  /\ arrival' = [arrival EXCEPT ![r] = "sent"]
  /\ UNCHANGED <<mainVars, signalled, coordinator, bus, workerVars, turnVars>>

\* The model's stream has completed a line ...
NextLine(r) ==
  /\ Alive /\ turn[r] = "answering" /\ said[r] < MaxLines
  /\ turn' = [turn EXCEPT ![r] = "saying"]
  /\ UNCHANGED <<mainVars, signalled, coordVars, workerVars, arrival, said, aborting>>

\* Mutation: a line is dropped rather than waited for.
SendLineOrDrop(r) ==
  /\ Alive /\ turn[r] = "saying" /\ SendOrDrop(Line(r, said[r] + 1))
  /\ turn' = [turn EXCEPT ![r] = "answering"] /\ said' = [said EXCEPT ![r] = @ + 1]
  /\ UNCHANGED <<mainVars, signalled, coordinator, bus, workerVars, arrival, aborting>>

\* ... which is sent as a response.
SendLine(r) ==
  /\ Alive /\ turn[r] = "saying" /\ Send(Line(r, said[r] + 1))
  /\ turn' = [turn EXCEPT ![r] = "answering"] /\ said' = [said EXCEPT ![r] = @ + 1]
  /\ UNCHANGED <<mainVars, signalled, coordinator, bus, workerVars, arrival, aborting>>

\* The stream is over; an empty answer completes nothing.
StreamEnds(r) ==
  /\ Alive /\ turn[r] = "answering"
  /\ turn' = [turn EXCEPT ![r] = IF said[r] = 0 THEN "done" ELSE "completing"]
  /\ UNCHANGED <<mainVars, signalled, coordVars, workerVars, arrival, said, aborting>>

\* The request or a later chunk of its stream fails: the turn returns its error.
StreamFails(r) ==
  /\ Alive /\ turn[r] = "answering"
  /\ turn' = [turn EXCEPT ![r] = "failed"]
  /\ UNCHANGED <<mainVars, signalled, coordVars, workerVars, arrival, said, aborting>>

Complete(r) ==
  /\ Alive /\ turn[r] = "completing" /\ Send(Completion(r))
  /\ turn' = [turn EXCEPT ![r] = "done"]
  /\ UNCHANGED <<mainVars, signalled, coordinator, bus, workerVars, arrival, said, aborting>>

\* An aborted task ends at its next await; until then it goes on.
Cancelled(r) ==
  /\ Alive /\ aborting /\ turn[r] \in {"answering", "saying", "completing"}
  /\ turn' = [turn EXCEPT ![r] = "cancelled"]
  /\ UNCHANGED <<mainVars, signalled, coordVars, workerVars, arrival, said, aborting>>

-----------------------------------------------------------------------------
MainStep ==
  StartWorker \/ AllStarted \/ Exit \/ \E w \in Workers : Joined(w) \/ TimedOut(w)
WorkerStep(w) == StartFails(w) \/ Subscribe(w) \/ Hear(w) \/ Lag(w) \/ Stop(w)
TurnStep(r) ==
  NextLine(r) \/ SendLine(r) \/ StreamEnds(r) \/ StreamFails(r) \/ Complete(r) \/ Cancelled(r)

Next ==
  \/ MainStep \/ CtrlC
  \/ CoordinatorStart \/ HandleEvent \/ CoordinatorStop
  \/ \E w \in Workers : WorkerStep(w)
  \/ \E r \in Raws : Arrive(r) \/ Ingest(r) \/ TurnStep(r)

Spec == Init /\ [][Next]_vars
\* The runtime polls every task that can go on; timers fire; select! does not
\* pass over the shutdown branch for ever.  The model's stream is not trusted to
\* yield anything or to end, and nobody need ever press Ctrl+C.
Fairness ==
  /\ WF_vars(MainStep)
  /\ WF_vars(CoordinatorStart) /\ WF_vars(HandleEvent) /\ WF_vars(CoordinatorStop)
  /\ \A w \in Workers :
       WF_vars(StartFails(w) \/ Subscribe(w)) /\ WF_vars(Hear(w) \/ Lag(w)) /\ WF_vars(Stop(w))
  /\ \A r \in Raws : WF_vars(Ingest(r)) /\ WF_vars(SendLine(r)) /\ WF_vars(Complete(r))
FairSpec == Spec /\ Fairness

-----------------------------------------------------------------------------
(* Properties *)

Kinds == {"system", "raw", "response", "completion"}
Events == [kind : Kinds, of : 0 .. MaxRaw, line : 0 .. MaxLines]

\* Types, and the capacity of the mailbox.
TypeOK ==
  /\ main \in {"starting", "running", "stopping", "down"}
  /\ started \in 0 .. Len(Registered) /\ waiting \subseteq Workers
  /\ signalled \in BOOLEAN /\ aborting \in BOOLEAN
  /\ coordinator \in {"Initializing", "Idle", "ShuttingDown"}
  /\ mailbox \in Seq(Events) /\ Len(mailbox) <= MailboxCapacity
  /\ bus \in Seq(Events)
  /\ worker \in [Workers -> {"registered", "starting", "listening", "exited", "stopped"}]
  /\ hears \in [Workers -> BOOLEAN]
  /\ cursor \in [Workers -> Nat] /\ \A w \in Workers : cursor[w] <= Len(bus)
  /\ missed \in [Workers -> SUBSET Nat]
  /\ arrival \in [Raws -> {"none", "sending", "sent"}]
  /\ turn \in [Raws -> {"none", "answering", "saying", "completing", "done", "failed",
                        "cancelled"}]
  /\ said \in [Raws -> 0 .. MaxLines]

OnBus(e) == \E i \in 1 .. Len(bus) : bus[i] = e
InMailbox(e) == \E i \in 1 .. Len(mailbox) : mailbox[i] = e
\* e is on the bus at a position before i.
Before(e, i) == \E j \in 1 .. i - 1 : bus[j] = e

\* The history every worker reads is told in causal order, and once: no answer
\* before its question, no line before the one it follows, and a completed turn
\* only after the last of its lines, even when turns, a full mailbox, aborts and
\* the end of the coordinator overlap.
TurnsInOrder ==
  \A i \in 1 .. Len(bus) : LET e == bus[i] IN
    /\ ~Before(e, i)
    /\ e.kind = "response" =>
         Before(Raw(e.of), i) /\ \A k \in 1 .. e.line - 1 : Before(Line(e.of, k), i)
    /\ e.kind = "completion" => \A k \in 1 .. said[e.of] : Before(Line(e.of, k), i)

\* What a sender got into the mailbox is broadcast, unless the agent shuts down.
MailIsBroadcast ==
  \A r \in Raws :
    /\ InMailbox(Raw(r)) ~> OnBus(Raw(r)) \/ signalled
    /\ InMailbox(Line(r, 1)) ~> OnBus(Line(r, 1)) \/ signalled

\* A mention emitted while the dialogue engine listens is taken up, whatever
\* other turns are running, unless the engine lags or the agent shuts down.
MentionsAreTaken ==
  \A r \in Mentions :
    InMailbox(Raw(r)) /\ worker[Dialogue] = "listening" ~>
      turn[r] # "none" \/ missed[Dialogue] # {} \/ signalled

\* Ctrl+C ends the process, whatever the workers do.
ShutdownEnds == signalled ~> main = "down"
=============================================================================
