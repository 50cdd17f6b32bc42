------------------------- MODULE MemoryPersistProofs --------------------------
(***************************************************************************)
(* Proofs about MemoryPersist, for every queue and batch size and any      *)
(* number of messages and crashes: nothing is reordered, nothing is lost   *)
(* unaccounted for, and recording implements DurableLog.                   *)
(***************************************************************************)
EXTENDS MemoryPersist, SequenceTheorems, TLAPS

-----------------------------------------------------------------------------
(* Increasing sequences and their elements *)

Increasing(s) == \A i, j \in 1 .. Len(s) : i < j => s[i] < s[j]
\* Everything in A comes before everything in B.
Before(A, B) == \A a \in A, b \in B : a < b

LEMMA ConcatParts ==
  ASSUME NEW s \in Seq(Nat), NEW t \in Seq(Nat)
  PROVE  /\ Len(s) \in Nat /\ Len(t) \in Nat /\ Len(s \o t) = Len(s) + Len(t)
         /\ \A i \in 1 .. Len(s) : (s \o t)[i] = s[i]
         /\ \A i \in 1 .. Len(t) : (s \o t)[Len(s) + i] = t[i]
BY ConcatProperties, LenProperties

LEMMA ElementsOfConcat ==
  ASSUME NEW s \in Seq(Nat), NEW t \in Seq(Nat)
  PROVE  Elements(s \o t) = Elements(s) \cup Elements(t)
<1> DEFINE u == s \o t
<1>1. /\ Len(s) \in Nat /\ Len(t) \in Nat /\ Len(u) = Len(s) + Len(t)
      /\ \A i \in 1 .. Len(s) : u[i] = s[i]
      /\ \A i \in 1 .. Len(t) : u[Len(s) + i] = t[i]
  BY ConcatParts
<1> HIDE DEF u
<1>2. ASSUME NEW i \in 1 .. Len(u) PROVE u[i] \in Elements(s) \cup Elements(t)
  <2>1. CASE i <= Len(s)
    BY <2>1, <1>1, <1>2 DEF Elements
  <2>2. CASE i > Len(s)
    <3> DEFINE x == i - Len(s)
    <3>1. x \in 1 .. Len(t) /\ i = Len(s) + x
      BY <2>2, <1>1, <1>2
    <3> HIDE DEF x
    <3> QED BY <3>1, <1>1 DEF Elements
  <2> QED BY <2>1, <2>2, <1>1
<1>3. ASSUME NEW i \in 1 .. Len(s) PROVE s[i] \in Elements(u)
  <2>1. i \in 1 .. Len(u) /\ u[i] = s[i]
    BY <1>1
  <2> QED BY <2>1 DEF Elements
<1>4. ASSUME NEW i \in 1 .. Len(t) PROVE t[i] \in Elements(u)
  <2>1. Len(s) + i \in 1 .. Len(u) /\ u[Len(s) + i] = t[i]
    BY <1>1
  <2> QED BY <2>1 DEF Elements
<1> QED BY <1>2, <1>3, <1>4 DEF Elements, u

LEMMA Small ==
  /\ <<>> \in Seq(Nat) /\ Len(<<>>) = 0 /\ Elements(<<>>) = {} /\ Increasing(<<>>)
  /\ \A m \in Nat : /\ <<m>> \in Seq(Nat) /\ Len(<<m>>) = 1
                    /\ Elements(<<m>>) = {m} /\ Increasing(<<m>>)
BY DEF Elements, Increasing

LEMMA ElementsAreNat ==
  ASSUME NEW s \in Seq(Nat)
  PROVE  Elements(s) \subseteq Nat
BY ElementOfSeq DEF Elements

LEMMA ConcatIncreasing ==
  ASSUME NEW s \in Seq(Nat), NEW t \in Seq(Nat)
  PROVE  Increasing(s \o t) <=>
           Increasing(s) /\ Increasing(t) /\ Before(Elements(s), Elements(t))
<1> DEFINE u == s \o t
<1>1. /\ Len(s) \in Nat /\ Len(t) \in Nat /\ Len(u) = Len(s) + Len(t)
      /\ \A i \in 1 .. Len(s) : u[i] = s[i]
      /\ \A i \in 1 .. Len(t) : u[Len(s) + i] = t[i]
  BY ConcatParts
<1> HIDE DEF u
<1>2. ASSUME Increasing(u)
      PROVE  Increasing(s) /\ Increasing(t) /\ Before(Elements(s), Elements(t))
  <2>1. Increasing(s)
    BY <1>1, <1>2 DEF Increasing
  <2>2. ASSUME NEW i \in 1 .. Len(t), NEW j \in 1 .. Len(t), i < j PROVE t[i] < t[j]
    <3>1. /\ Len(s) + i \in 1 .. Len(u) /\ Len(s) + j \in 1 .. Len(u)
          /\ Len(s) + i < Len(s) + j
      BY <1>1, <2>2
    <3> QED BY <1>1, <1>2, <3>1 DEF Increasing
  <2>3. ASSUME NEW i \in 1 .. Len(s), NEW j \in 1 .. Len(t) PROVE s[i] < t[j]
    <3>1. /\ i \in 1 .. Len(u) /\ Len(s) + j \in 1 .. Len(u) /\ i < Len(s) + j
      BY <1>1
    <3> QED BY <1>1, <1>2, <3>1 DEF Increasing
  <2> QED BY <2>1, <2>2, <2>3 DEF Increasing, Before, Elements
<1>3. ASSUME Increasing(s), Increasing(t), Before(Elements(s), Elements(t))
      PROVE  Increasing(u)
  <2> SUFFICES ASSUME NEW i \in 1 .. Len(u), NEW j \in 1 .. Len(u), i < j
               PROVE  u[i] < u[j]
    BY DEF Increasing
  <2>1. CASE j <= Len(s)
    <3>1. i \in 1 .. Len(s) /\ j \in 1 .. Len(s)
      BY <2>1, <1>1
    <3>2. u[i] = s[i] /\ u[j] = s[j]
      BY <3>1, <1>1
    <3> QED BY <3>1, <3>2, <1>3 DEF Increasing
  <2>2. CASE i > Len(s)
    <3> DEFINE x == i - Len(s)
               y == j - Len(s)
    <3>1. /\ x \in 1 .. Len(t) /\ i = Len(s) + x
          /\ y \in 1 .. Len(t) /\ j = Len(s) + y /\ x < y
      BY <2>2, <1>1
    <3> HIDE DEF x, y
    <3> QED BY <3>1, <1>1, <1>3 DEF Increasing
  <2>3. CASE i <= Len(s) /\ j > Len(s)
    <3> DEFINE y == j - Len(s)
    <3>1. i \in 1 .. Len(s) /\ y \in 1 .. Len(t) /\ j = Len(s) + y
      BY <2>3, <1>1
    <3> HIDE DEF y
    <3>2. u[i] = s[i] /\ u[j] = t[y]
      BY <3>1, <1>1
    <3> QED BY <3>1, <3>2, <1>3 DEF Before, Elements
  <2> QED BY <2>1, <2>2, <2>3, <1>1
<1> QED BY <1>2, <1>3 DEF u

LEMMA HeadFirst ==
  ASSUME NEW s \in Seq(Nat), s # <<>>
  PROVE  /\ Head(s) \in Nat /\ Tail(s) \in Seq(Nat) /\ Len(Tail(s)) = Len(s) - 1
         /\ Elements(s) = {Head(s)} \cup Elements(Tail(s))
         /\ Increasing(s) => /\ Increasing(Tail(s))
                             /\ Before({Head(s)}, Elements(Tail(s)))
<1>1. /\ Head(s) \in Nat /\ Tail(s) \in Seq(Nat) /\ Len(Tail(s)) = Len(s) - 1
  BY HeadTailProperties
<1>2. <<Head(s)>> \in Seq(Nat) /\ s = <<Head(s)>> \o Tail(s)
  BY <1>1
<1>3. Elements(s) = Elements(<<Head(s)>>) \cup Elements(Tail(s))
  BY <1>1, <1>2, ElementsOfConcat, Zenon
<1>4. Increasing(s) => /\ Increasing(Tail(s))
                      /\ Before(Elements(<<Head(s)>>), Elements(Tail(s)))
  BY <1>1, <1>2, ConcatIncreasing, Zenon
<1> QED BY <1>1, <1>3, <1>4, Small

LEMMA LastLast ==
  ASSUME NEW s \in Seq(Nat), NEW m \in Nat
  PROVE  /\ Append(s, m) \in Seq(Nat) /\ Len(Append(s, m)) = Len(s) + 1
         /\ Elements(Append(s, m)) = Elements(s) \cup {m}
         /\ Increasing(s) /\ Before(Elements(s), {m}) => Increasing(Append(s, m))
<1>1. /\ Append(s, m) \in Seq(Nat) /\ Len(Append(s, m)) = Len(s) + 1
      /\ Append(s, m) = s \o <<m>> /\ <<m>> \in Seq(Nat)
  BY AppendProperties, AppendIsConcat
<1>2. Elements(Append(s, m)) = Elements(s) \cup Elements(<<m>>)
  BY <1>1, ElementsOfConcat, Zenon
<1>3. Increasing(Append(s, m)) <=>
        Increasing(s) /\ Increasing(<<m>>) /\ Before(Elements(s), Elements(<<m>>))
  BY <1>1, ConcatIncreasing, Zenon
<1> QED BY <1>1, <1>2, <1>3, Small

-----------------------------------------------------------------------------
(* The inductive invariant *)

\* Whatever is still held, piece by piece.
Held == Elements(written) \cup Elements(buffer) \cup Elements(queue) \cup Elements(inHand)

\* InOrder, piece by piece.
PiecesInOrder ==
  /\ Increasing(written) /\ Increasing(buffer) /\ Increasing(queue) /\ Increasing(inHand)
  /\ Before(Elements(written), Elements(buffer)) /\ Before(Elements(written), Elements(queue))
  /\ Before(Elements(written), Elements(inHand)) /\ Before(Elements(buffer), Elements(queue))
  /\ Before(Elements(buffer), Elements(inHand)) /\ Before(Elements(queue), Elements(inHand))

PiecesAccounted ==
  /\ Held \cup failed \cup lost = 1 .. accepted
  /\ Held \cap (failed \cup lost) = {} /\ failed \cap lost = {}

\* What the worker and the writer know of one another.
Stages ==
  /\ worker = "open" <=> writer = "none"
  /\ writer \in {"none", "done"} => buffer = <<>> /\ queue = <<>>
  /\ worker = "direct" => writer = "done"
  /\ writer \in {"select", "drain"} => Len(buffer) < BatchSize
  /\ Elements(inHand) \subseteq {accepted}

\* Only the signal starts the end; what came later is all that may be dropped.
EndsOnSignal ==
  /\ ~signalled => /\ worker \notin {"draining", "stopped"}
                   /\ writer \notin {"drain", "drain_flush", "final_flush", "done"}
                   /\ queuedAtSignal = 0 /\ (crashes = 0 => lost = {})
  /\ queuedAtSignal <= accepted
  /\ Before({queuedAtSignal}, Elements(inHand))
  /\ writer = "final_flush" => Before({queuedAtSignal}, Elements(queue))
  /\ crashes = 0 => Before({queuedAtSignal}, lost)

IInv == TypeOK /\ PiecesInOrder /\ PiecesAccounted /\ Stages /\ EndsOnSignal

LEMMA InitHolds == Init => IInv
<1> SUFFICES ASSUME Init PROVE IInv
  OBVIOUS
<1> USE DEF Init
<1>1. TypeOK
  <2>1. inHand \in Seq(Nat)
    BY Small
  <2>2. Len(inHand) = IF worker \in {"sending", "direct"} THEN 1 ELSE 0
    BY Small
  <2>3. queue \in Seq(Nat) /\ Len(queue) <= QueueCapacity
    BY Small, CapacityAssumption
  <2>4. buffer \in Seq(Nat) /\ Len(buffer) <= BatchSize
    BY Small, CapacityAssumption
  <2>5. written \in Seq(Nat)
    BY Small
  <2> QED BY <2>1, <2>2, <2>3, <2>4, <2>5 DEF TypeOK, WorkerStates, WriterStates
<1>2. PiecesInOrder /\ PiecesAccounted
  BY Small DEF PiecesInOrder, PiecesAccounted, Held, Before
<1>3. Stages /\ EndsOnSignal
  BY Small, CapacityAssumption DEF Stages, EndsOnSignal, Before
<1> QED BY <1>1, <1>2, <1>3 DEF IInv

LEMMA AcceptKeeps == IInv /\ Accept => IInv'
<1> SUFFICES ASSUME IInv, Accept PROVE IInv'
  OBVIOUS
<1> DEFINE m == accepted + 1
<1>1. /\ m \in Nat /\ inHand = <<>> /\ Elements(inHand) = {} /\ worker = "recv"
      /\ <<m>> \in Seq(Nat) /\ Len(<<m>>) = 1 /\ Elements(<<m>>) = {m} /\ Increasing(<<m>>)
      /\ <<>> \in Seq(Nat) /\ Len(<<>>) = 0 /\ Elements(<<>>) = {} /\ Increasing(<<>>)
  BY Small DEF IInv, TypeOK, Accept
<1>2. /\ Append(queue, m) \in Seq(Nat) /\ Len(Append(queue, m)) = Len(queue) + 1
      /\ Elements(Append(queue, m)) = Elements(queue) \cup {m}
      /\ Increasing(queue) /\ Before(Elements(queue), {m}) => Increasing(Append(queue, m))
  BY <1>1, LastLast DEF IInv, TypeOK
\* The new message comes after all that are held, and is nowhere else.
<1>3. /\ 1 .. m = (1 .. accepted) \cup {m} /\ m \notin failed \cup lost /\ m \notin Held
      /\ Before(Held, {m}) /\ Before({queuedAtSignal}, {m})
  BY <1>1 DEF IInv, TypeOK, PiecesAccounted, EndsOnSignal, Before
<1>4. /\ accepted' = m /\ UNCHANGED <<writer, buffer, outcome, signal, crashes>>
      /\ \/ /\ ~Receiving /\ worker' = "direct" /\ inHand' = <<m>> /\ queue' = queue
         \/ /\ Receiving /\ worker' = "sending" /\ inHand' = <<m>> /\ queue' = queue
         \/ /\ Receiving /\ worker' = "recv" /\ inHand' = <<>>
            /\ Len(queue) # QueueCapacity /\ queue' = Append(queue, m)
  BY DEF Accept
<1> HIDE DEF m
<1>5. TypeOK'
  <2>1. /\ worker' \in WorkerStates /\ inHand' \in Seq(Nat)
        /\ Len(inHand') = IF worker' \in {"sending", "direct"} THEN 1 ELSE 0
    <3>1. CASE worker' = "recv" /\ inHand' = <<>>
      BY <3>1, <1>1 DEF WorkerStates
    <3>2. CASE worker' \in {"sending", "direct"} /\ inHand' = <<m>>
      BY <3>2, <1>1 DEF WorkerStates
    <3> QED BY <3>1, <3>2, <1>4
  <2>2. Len(queue) # QueueCapacity => Len(queue) + 1 <= QueueCapacity
    BY CapacityAssumption, LenProperties DEF IInv, TypeOK
  <2>3. queue' \in Seq(Nat) /\ Len(queue') <= QueueCapacity
    BY <1>2, <1>4, <2>2, Zenon DEF IInv, TypeOK
  <2> QED BY <1>1, <1>4, <2>1, <2>3 DEF IInv, TypeOK, outcome, signal
<1>6. PiecesInOrder'
  BY <1>1, <1>2, <1>3, <1>4 DEF IInv, PiecesInOrder, Held, Before, outcome, signal
<1>7. PiecesAccounted'
  <2>1. Held' = Held \cup {m}
    BY <1>1, <1>2, <1>4 DEF Held, outcome
  <2> QED BY <1>3, <1>4, <2>1 DEF IInv, PiecesAccounted, outcome
<1>8. Stages'
  BY <1>1, <1>2, <1>4 DEF IInv, TypeOK, Stages, Receiving, WriterStates, outcome, signal
<1>9. EndsOnSignal'
  <2>1. worker' \notin {"draining", "stopped"} /\ queuedAtSignal' <= accepted'
    BY <1>1, <1>4 DEF IInv, TypeOK, EndsOnSignal, signal, m
  <2>2. Before({queuedAtSignal}, Elements(inHand'))
    BY <1>1, <1>3, <1>4 DEF Before
  <2>3. Elements(queue') \subseteq Elements(queue) \cup {m}
    BY <1>2, <1>4
  <2> QED BY <1>3, <1>4, <2>1, <2>2, <2>3 DEF IInv, EndsOnSignal, Before, outcome, signal
<1> QED BY <1>5, <1>6, <1>7, <1>8, <1>9 DEF IInv

\* Steps that only move the worker or the writer: SpawnWriter, Subscribe, and so on.
LEMMA MovesKeep ==
  IInv /\ (SpawnWriter \/ Subscribe \/ WorkerShutdown \/ WorkerStopped \/ Filled
           \/ FlushTick \/ SenderGone \/ WriterShutdown) => IInv'
<1> SUFFICES ASSUME IInv, SpawnWriter \/ Subscribe \/ WorkerShutdown \/ WorkerStopped
                          \/ Filled \/ FlushTick \/ SenderGone \/ WriterShutdown
             PROVE  IInv'
  OBVIOUS
<1> USE DEF SpawnWriter, Subscribe, WorkerShutdown, WorkerStopped, Filled, FlushTick,
            SenderGone, WriterShutdown, outcome
<1>1. UNCHANGED <<inHand, queue, buffer, accepted, outcome, queuedAtSignal, signalled, crashes>>
  BY DEF signal
<1>2. /\ worker' \in WorkerStates /\ writer' \in WriterStates
      /\ workerHears' \in BOOLEAN /\ writerHears' \in BOOLEAN
      /\ worker' \in {"sending", "direct"} <=> worker \in {"sending", "direct"}
  BY DEF IInv, TypeOK, WorkerStates, WriterStates, signal
<1>3. TypeOK'
  <2>1. Len(inHand') = IF worker' \in {"sending", "direct"} THEN 1 ELSE 0
    BY <1>1, <1>2 DEF IInv, TypeOK
  <2> QED BY <1>1, <1>2, <2>1 DEF IInv, TypeOK
<1>4. PiecesInOrder' /\ PiecesAccounted'
  BY <1>1 DEF IInv, PiecesInOrder, PiecesAccounted, Held
<1>5. Stages'
  BY <1>1, LenProperties, CapacityAssumption, Small DEF IInv, TypeOK, Stages
<1>6. EndsOnSignal'
  BY <1>1, Small DEF IInv, EndsOnSignal, Before, signal
<1> QED BY <1>3, <1>4, <1>5, <1>6 DEF IInv

LEMMA SendPendingKeeps == IInv /\ SendPending => IInv'
<1> SUFFICES ASSUME IInv, SendPending PROVE IInv'
  OBVIOUS
<1>1. CASE ~Receiving
  <2>1. /\ worker' = "direct" /\ writer = "done" /\ worker = "sending"
        /\ UNCHANGED <<queue, inHand, writer, buffer, accepted, outcome, signal, crashes>>
    BY <1>1 DEF SendPending, IInv, Stages, Receiving
  <2>2. TypeOK'
    BY <2>1 DEF IInv, TypeOK, WorkerStates, outcome, signal
  <2>3. PiecesInOrder' /\ PiecesAccounted' /\ Stages' /\ EndsOnSignal'
    BY <2>1 DEF IInv, PiecesInOrder, PiecesAccounted, Held, Stages, EndsOnSignal, outcome, signal
  <2> QED BY <2>2, <2>3 DEF IInv
<1>2. CASE Receiving
  <2>1. /\ worker' = "recv" /\ inHand' = <<>> /\ queue' = queue \o inHand /\ worker = "sending"
        /\ Len(queue) < QueueCapacity
        /\ UNCHANGED <<writer, buffer, accepted, outcome, signal, crashes>>
    BY <1>2 DEF SendPending
  <2>2. /\ queue \in Seq(Nat) /\ inHand \in Seq(Nat) /\ Len(inHand) = 1
    BY <2>1 DEF IInv, TypeOK
  <2>3. /\ queue' \in Seq(Nat) /\ Len(queue') <= QueueCapacity
        /\ Elements(queue') = Elements(queue) \cup Elements(inHand)
        /\ Increasing(queue')
    <3>1. /\ queue' \in Seq(Nat) /\ Len(queue') = Len(queue) + 1 /\ Len(queue) \in Nat
      <4>1. queue' \in Seq(Nat) /\ Len(queue') = Len(queue) + Len(inHand)
        BY <2>1, <2>2, ConcatProperties
      <4> QED BY <2>2, <4>1, LenProperties
    <3>2. Len(queue') <= QueueCapacity
      BY <3>1, <2>1, CapacityAssumption
    <3>3. Elements(queue') = Elements(queue) \cup Elements(inHand)
      BY <2>1, <2>2, ElementsOfConcat
    <3>4. Increasing(queue')
      BY <2>1, <2>2, ConcatIncreasing DEF IInv, PiecesInOrder
    <3> QED BY <3>1, <3>2, <3>3, <3>4
  <2>4. TypeOK'
    <3>1. Len(inHand') = IF worker' \in {"sending", "direct"} THEN 1 ELSE 0
      BY <2>1, Small
    <3> QED BY <2>1, <2>3, <3>1, Small DEF IInv, TypeOK, WorkerStates, outcome, signal
  <2>5. PiecesInOrder'
    BY <2>1, <2>3, Small DEF IInv, PiecesInOrder, Before, outcome
  <2>6. PiecesAccounted'
    <3>1. Held' = Held
      BY <2>1, <2>3, Small DEF Held, outcome
    <3> QED BY <2>1, <3>1 DEF IInv, PiecesAccounted, outcome
  <2>7. Stages'
    BY <1>2, <2>1, Small DEF IInv, Stages, Receiving
  <2>8. EndsOnSignal'
    BY <2>1, <2>3, Small DEF IInv, EndsOnSignal, Before, outcome, signal
  <2> QED BY <2>4, <2>5, <2>6, <2>7, <2>8 DEF IInv
<1> QED BY <1>1, <1>2

LEMMA DirectPersistKeeps == IInv /\ DirectPersist => IInv'
<1> SUFFICES ASSUME IInv, DirectPersist PROVE IInv'
  OBVIOUS
\* The writer is done: nothing is left that the direct write could overtake.
<1>1. /\ worker' = "recv" /\ inHand' = <<>> /\ buffer = <<>> /\ queue = <<>>
      /\ worker = "direct" /\ writer = "done"
      /\ UNCHANGED <<writer, queue, buffer, accepted, lost, signal, crashes>>
  BY DEF DirectPersist, IInv, Stages
<1>2. \/ written' = written \o inHand /\ failed' = failed
      \/ failed' = failed \cup Elements(inHand) /\ written' = written
  BY DEF DirectPersist
<1>3. written \in Seq(Nat) /\ inHand \in Seq(Nat) /\ Elements(inHand) \subseteq Nat
  BY ElementsAreNat DEF IInv, TypeOK
<1>4. /\ written \o inHand \in Seq(Nat) /\ Increasing(written \o inHand)
      /\ Elements(written \o inHand) = Elements(written) \cup Elements(inHand)
  BY <1>3, ConcatProperties, ElementsOfConcat, ConcatIncreasing DEF IInv, PiecesInOrder
<1>5. TypeOK'
  <2>1. Len(inHand') = IF worker' \in {"sending", "direct"} THEN 1 ELSE 0
    BY <1>1, Small
  <2>2. written' \in Seq(Nat) /\ failed' \subseteq Nat
    BY <1>2, <1>3, <1>4 DEF IInv, TypeOK
  <2> QED BY <1>1, <2>1, <2>2, Small DEF IInv, TypeOK, WorkerStates, signal
<1>6. PiecesInOrder'
  BY <1>1, <1>2, <1>4, Small DEF IInv, PiecesInOrder, Before
<1>7. PiecesAccounted'
  <2>1. Elements(inHand) \cap Elements(written) = {}
    BY <1>3, ElementsAreNat DEF IInv, PiecesInOrder, Before, TypeOK
  <2>2. /\ Held = Elements(written) \cup Elements(inHand) /\ Held' = Elements(written')
    BY <1>1, Small DEF Held
  <2> QED BY <1>1, <1>2, <1>4, <2>1, <2>2 DEF IInv, PiecesAccounted
<1>8. Stages'
  BY <1>1, Small DEF IInv, Stages
<1>9. EndsOnSignal'
  BY <1>1, Small DEF IInv, EndsOnSignal, Before, signal
<1> QED BY <1>5, <1>6, <1>7, <1>8, <1>9 DEF IInv

\* The writer moves the head of the queue to the end of its batch.
LEMMA TakingKeeps ==
  ASSUME IInv, queue # <<>>, Len(buffer) < BatchSize, writer \notin {"none", "done"},
         buffer' = Append(buffer, Head(queue)), queue' = Tail(queue),
         UNCHANGED <<worker, inHand, accepted, outcome, signal, crashes>>,
         writer' \in WriterStates \ {"none", "select", "done"},
         writer' = "drain" => Len(buffer) + 1 < BatchSize,
         writer' = "drain_flush" \/ writer' = "drain" => writer = "drain",
         writer' # "final_flush"
  PROVE  IInv'
<1> DEFINE m == Head(queue)
<1>1. /\ queue \in Seq(Nat) /\ buffer \in Seq(Nat) /\ Len(queue) <= QueueCapacity
      /\ Increasing(queue) /\ Increasing(buffer) /\ Len(buffer) \in Nat
      /\ Before(Elements(buffer), Elements(queue))
  BY LenProperties DEF IInv, TypeOK, PiecesInOrder
<1>2. /\ m \in Nat /\ queue' \in Seq(Nat) /\ Len(queue') = Len(queue) - 1
      /\ Elements(queue) = {m} \cup Elements(queue')
      /\ Increasing(queue') /\ Before({m}, Elements(queue'))
  BY <1>1, HeadFirst
<1> HIDE DEF m
<1>3. /\ buffer' \in Seq(Nat) /\ Len(buffer') = Len(buffer) + 1
      /\ Elements(buffer') = Elements(buffer) \cup {m} /\ Increasing(buffer')
  <2>1. Before(Elements(buffer), {m})
    BY <1>1, <1>2 DEF Before
  <2> QED BY <1>1, <1>2, <2>1, LastLast DEF m
<1>4. TypeOK'
  <2>1. Len(queue') <= QueueCapacity /\ Len(buffer') <= BatchSize
    BY <1>1, <1>2, <1>3, CapacityAssumption, LenProperties
  <2>2. Len(inHand') = IF worker' \in {"sending", "direct"} THEN 1 ELSE 0
    BY DEF IInv, TypeOK
  <2> QED BY <1>2, <1>3, <2>1, <2>2 DEF IInv, TypeOK, outcome, signal
<1>5. PiecesInOrder'
  BY <1>2, <1>3 DEF IInv, PiecesInOrder, Before, outcome
<1>6. PiecesAccounted'
  <2>1. Held' = Held
    BY <1>2, <1>3 DEF Held, outcome
  <2> QED BY <2>1 DEF IInv, PiecesAccounted, outcome
<1>7. Stages'
  BY <1>3 DEF IInv, Stages
<1>8. EndsOnSignal'
  BY DEF IInv, EndsOnSignal, outcome, signal, WriterStates
<1> QED BY <1>4, <1>5, <1>6, <1>7, <1>8 DEF IInv

LEMMA ReceiveKeeps == IInv /\ Receive => IInv'
BY TakingKeeps DEF Receive, WriterStates

LEMMA DrainKeeps == IInv /\ Drain => IInv'
<1> SUFFICES ASSUME IInv, Drain PROVE IInv'
  OBVIOUS
<1>1. CASE queue = <<>>
  <2>1. /\ writer = "drain" /\ writer' = "final_flush" /\ Elements(queue') = {}
        /\ UNCHANGED <<worker, inHand, queue, buffer, accepted, outcome, signal, crashes>>
    BY <1>1, Small DEF Drain
  <2>2. TypeOK'
    BY <2>1 DEF IInv, TypeOK, WriterStates, outcome, signal
  <2>3. PiecesInOrder' /\ PiecesAccounted' /\ Stages' /\ EndsOnSignal'
    BY <2>1 DEF IInv, PiecesInOrder, PiecesAccounted, Held, Stages, EndsOnSignal, Before,
                outcome, signal
  <2> QED BY <2>2, <2>3 DEF IInv
<1>2. CASE queue # <<>>
  <2>1. Len(buffer) < BatchSize /\ Len(buffer) \in Nat /\ BatchSize \in Nat
    BY CapacityAssumption, LenProperties DEF Drain, IInv, Stages, TypeOK
  <2> QED BY <1>2, <2>1, TakingKeeps DEF Drain, WriterStates
<1> QED BY <1>1, <1>2

LEMMA FlushedKeeps == IInv /\ Flushed => IInv'
<1> SUFFICES ASSUME IInv, Flushed PROVE IInv'
  OBVIOUS
<1>1. /\ writer \in FlushStates /\ buffer' = <<>>
      /\ UNCHANGED <<worker, inHand, accepted, signal, crashes>>
      /\ \/ written' = written \o buffer /\ failed' = failed
         \/ failed' = failed \cup Elements(buffer) /\ written' = written
      /\ \/ /\ writer = "final_flush" /\ writer' = "done"
            /\ lost' = lost \cup Elements(queue) /\ queue' = <<>>
         \/ /\ writer = "flush" /\ writer' = "select" /\ UNCHANGED <<lost, queue>>
         \/ /\ writer = "drain_flush" /\ writer' = "drain" /\ UNCHANGED <<lost, queue>>
  BY DEF Flushed, FlushStates
<1>2. /\ written \in Seq(Nat) /\ buffer \in Seq(Nat) /\ queue \in Seq(Nat)
      /\ Elements(written) \subseteq Nat /\ Elements(buffer) \subseteq Nat
      /\ Elements(queue) \subseteq Nat /\ Elements(inHand) \subseteq Nat
  BY ElementsAreNat DEF IInv, TypeOK
<1>3. /\ written \o buffer \in Seq(Nat) /\ Increasing(written \o buffer)
      /\ Elements(written \o buffer) = Elements(written) \cup Elements(buffer)
  BY <1>2, ConcatProperties, ElementsOfConcat, ConcatIncreasing DEF IInv, PiecesInOrder
<1>4. TypeOK'
  <2>1. Len(inHand') = IF worker' \in {"sending", "direct"} THEN 1 ELSE 0
    BY <1>1 DEF IInv, TypeOK
  <2>2. written' \in Seq(Nat) /\ failed' \subseteq Nat /\ lost' \subseteq Nat
    BY <1>1, <1>2, <1>3 DEF IInv, TypeOK
  <2>3. buffer' \in Seq(Nat) /\ Len(buffer') <= BatchSize
    BY <1>1, Small, CapacityAssumption
  <2>4. queue' \in Seq(Nat) /\ Len(queue') <= QueueCapacity
    <3>1. CASE queue' = <<>>
      BY <3>1, Small, CapacityAssumption
    <3>2. CASE queue' = queue
      BY <3>2 DEF IInv, TypeOK
    <3> QED BY <1>1, <3>1, <3>2
  <2> QED BY <1>1, <2>1, <2>2, <2>3, <2>4 DEF IInv, TypeOK, WriterStates, signal
<1>5. PiecesInOrder'
  BY <1>1, <1>3, Small DEF IInv, PiecesInOrder, Before
<1>6. PiecesAccounted'
  \* Messages move from one piece to another, and pieces in order share nothing.
  <2>1. /\ Elements(buffer) \cap Elements(written) = {}
        /\ Elements(buffer) \cap (Elements(queue) \cup Elements(inHand)) = {}
        /\ Elements(queue) \cap (Elements(written) \cup Elements(inHand)) = {}
    BY <1>2 DEF IInv, PiecesInOrder, Before
  <2>2. /\ Held' = Elements(written') \cup Elements(queue') \cup Elements(inHand)
        /\ Held = Elements(written) \cup Elements(buffer) \cup Elements(queue)
                    \cup Elements(inHand)
    BY <1>1, Small DEF Held
  <2>3. /\ Held \cup failed \cup lost = 1 .. accepted
        /\ Held \cap (failed \cup lost) = {} /\ failed \cap lost = {}
    BY DEF IInv, PiecesAccounted
  <2>4. /\ \/ Elements(written') = Elements(written) \cup Elements(buffer) /\ failed' = failed
           \/ Elements(written') = Elements(written)
              /\ failed' = failed \cup Elements(buffer)
        /\ \/ Elements(queue') = {} /\ lost' = lost \cup Elements(queue)
           \/ Elements(queue') = Elements(queue) /\ lost' = lost
        /\ accepted' = accepted
    BY <1>1, <1>3, Small
  <2>5. Held' \cup failed' \cup lost' = 1 .. accepted'
    BY <2>2, <2>3, <2>4
  <2>6. Held' \cap (failed' \cup lost') = {} /\ failed' \cap lost' = {}
    BY <2>1, <2>2, <2>3, <2>4
  <2> QED BY <2>5, <2>6 DEF PiecesAccounted
<1>7. Stages'
  <2>1. Len(buffer') < BatchSize
    BY <1>1, Small, CapacityAssumption
  <2> QED BY <1>1, <2>1 DEF IInv, Stages
<1>8. EndsOnSignal'
  BY <1>1, Small DEF IInv, EndsOnSignal, Before, signal
<1> QED BY <1>4, <1>5, <1>6, <1>7, <1>8 DEF IInv

LEMMA SendSignalKeeps == IInv /\ SendSignal => IInv'
<1> SUFFICES ASSUME IInv, SendSignal PROVE IInv'
  OBVIOUS
<1>1. /\ ~signalled /\ signalled' = TRUE /\ queuedAtSignal' = accepted - Len(inHand)
      /\ UNCHANGED <<worker, writer, inHand, queue, buffer, accepted, written, failed, lost,
                     workerHears, writerHears, crashes>>
  BY DEF SendSignal, tasks, outcome
<1>2. /\ queuedAtSignal' \in Nat /\ queuedAtSignal' <= accepted
      /\ Before({queuedAtSignal'}, Elements(inHand))
  <2>1. CASE inHand = <<>>
    BY <2>1, <1>1, Small DEF IInv, TypeOK, Before
  <2>2. CASE inHand # <<>>
    <3>1. Len(inHand) = 1 /\ accepted \in Nat /\ inHand[1] = accepted /\ accepted > 0
      <4>1. Len(inHand) = 1 /\ inHand \in Seq(Nat) /\ accepted \in Nat
        BY <2>2, EmptySeq DEF IInv, TypeOK
      <4>2. inHand[1] \in Elements(inHand)
        BY <4>1 DEF Elements
      <4>3. inHand[1] = accepted /\ inHand[1] \in 1 .. accepted
        BY <4>2 DEF IInv, Stages, PiecesAccounted, Held
      <4> QED BY <4>1, <4>3
    <3>2. Elements(inHand) \subseteq {accepted}
      BY DEF IInv, Stages
    <3> QED BY <3>1, <3>2, <1>1 DEF Before
  <2> QED BY <2>1, <2>2
<1>3. TypeOK'
  BY <1>1, <1>2 DEF IInv, TypeOK
<1>4. PiecesInOrder' /\ PiecesAccounted' /\ Stages'
  BY <1>1 DEF IInv, PiecesInOrder, PiecesAccounted, Held, Stages
<1>5. EndsOnSignal'
  BY <1>1, <1>2 DEF IInv, EndsOnSignal, Before
<1> QED BY <1>3, <1>4, <1>5 DEF IInv

LEMMA CrashKeeps == IInv /\ Crash => IInv'
<1> SUFFICES ASSUME IInv, Crash PROVE IInv'
  OBVIOUS
<1>1. /\ worker' = "open" /\ writer' = "none"
      /\ inHand' = <<>> /\ queue' = <<>> /\ buffer' = <<>>
      /\ signalled' = FALSE /\ workerHears' = FALSE /\ writerHears' = FALSE
      /\ queuedAtSignal' = 0 /\ crashes' = crashes + 1
      /\ lost' = lost \cup Elements(inHand) \cup Elements(queue) \cup Elements(buffer)
      /\ UNCHANGED <<accepted, written, failed>>
  BY DEF Crash
<1>2. /\ Elements(written) \subseteq Nat /\ Elements(buffer) \subseteq Nat
      /\ Elements(queue) \subseteq Nat /\ Elements(inHand) \subseteq Nat
      /\ crashes \in Nat /\ accepted \in Nat
  BY ElementsAreNat DEF IInv, TypeOK
<1>3. TypeOK'
  <2>1. /\ <<>> \in Seq(Nat) /\ Len(<<>>) <= QueueCapacity /\ Len(<<>>) <= BatchSize
        /\ Len(<<>>) = IF worker' \in {"sending", "direct"} THEN 1 ELSE 0
    BY <1>1, Small, CapacityAssumption
  <2>2. lost' \subseteq Nat
    BY <1>1, <1>2 DEF IInv, TypeOK
  <2>3. crashes' \in Nat
    BY <1>1, <1>2
  <2> QED BY <1>1, <2>1, <2>2, <2>3 DEF IInv, TypeOK, WorkerStates, WriterStates
<1>4. PiecesInOrder'
  BY <1>1, Small DEF IInv, PiecesInOrder, Before
<1>5. PiecesAccounted'
  <2>1. Elements(written) \cap (Elements(buffer) \cup Elements(queue) \cup Elements(inHand)) = {}
    BY <1>2 DEF IInv, PiecesInOrder, Before
  <2>2. Held' = Elements(written)
    BY <1>1, Small DEF Held
  <2> QED BY <1>1, <2>1, <2>2 DEF IInv, PiecesAccounted, Held
<1>6. Stages'
  BY <1>1, Small DEF Stages
<1>7. EndsOnSignal'
  BY <1>1, <1>2, Small DEF EndsOnSignal, Before
<1> QED BY <1>3, <1>4, <1>5, <1>6, <1>7 DEF IInv

LEMMA StepKeeps == IInv /\ [Next]_vars => IInv'
<1> SUFFICES ASSUME IInv, [Next]_vars PROVE IInv'
  OBVIOUS
<1>1. CASE WorkerStep
  BY <1>1, MovesKeep, SendPendingKeeps, DirectPersistKeeps DEF WorkerStep
<1>2. CASE WriterStep
  BY <1>2, MovesKeep, ReceiveKeeps, DrainKeeps, FlushedKeeps DEF WriterStep
<1>3. CASE UNCHANGED vars
  <2>1. TypeOK'
    BY <1>3 DEF vars, tasks, outcome, signal, IInv, TypeOK
  <2>2. PiecesInOrder' /\ PiecesAccounted' /\ Stages' /\ EndsOnSignal'
    BY <1>3 DEF vars, tasks, outcome, signal, IInv, PiecesInOrder, PiecesAccounted, Held,
                Stages, EndsOnSignal
  <2> QED BY <2>1, <2>2 DEF IInv
<1> QED
  BY <1>1, <1>2, <1>3, AcceptKeeps, SendSignalKeeps, CrashKeeps
  DEF Next, Finished, OutOfMessages

LEMMA Invariance == Spec => []IInv
BY InitHolds, StepKeeps, PTL DEF Spec

-----------------------------------------------------------------------------
(* The theorems *)

\* The queue and the batch keep to their limits, and the worker holds a message
\* exactly while it waits for the queue or writes itself.
THEOREM TypeCorrect == Spec => []TypeOK
BY Invariance, PTL DEF IInv

\* Messages become durable in the order the worker took them, none twice: neither
\* its direct writes nor failed transactions nor crashes let one overtake another.
THEOREM DurableInOrder == Spec => []InOrder
<1>1. IInv => InOrder
  <2> SUFFICES ASSUME IInv PROVE InOrder
    OBVIOUS
  <2>1. /\ written \in Seq(Nat) /\ buffer \in Seq(Nat) /\ queue \in Seq(Nat)
        /\ inHand \in Seq(Nat)
    BY DEF IInv, TypeOK
  <2>2. /\ written \o buffer \in Seq(Nat) /\ Increasing(written \o buffer)
        /\ Elements(written \o buffer) = Elements(written) \cup Elements(buffer)
    BY <2>1, ConcatProperties, ElementsOfConcat, ConcatIncreasing DEF IInv, PiecesInOrder
  <2> DEFINE toQueue == (written \o buffer) \o queue
  <2>3. /\ toQueue \in Seq(Nat) /\ Increasing(toQueue)
        /\ Elements(toQueue) = Elements(written) \cup Elements(buffer) \cup Elements(queue)
    <3>1. Before(Elements(written \o buffer), Elements(queue))
      BY <2>2 DEF IInv, PiecesInOrder, Before
    <3> QED
      BY <2>1, <2>2, <3>1, ConcatProperties, ElementsOfConcat, ConcatIncreasing
      DEF IInv, PiecesInOrder
  <2> HIDE DEF toQueue
  <2>4. Before(Elements(toQueue), Elements(inHand))
    BY <2>3 DEF IInv, PiecesInOrder, Before
  <2>5. Increasing(toQueue \o inHand)
    BY <2>1, <2>3, <2>4, ConcatIncreasing DEF IInv, PiecesInOrder
  <2> QED BY <2>5 DEF InOrder, Pipeline, Increasing, toQueue
<1> QED BY <1>1, Invariance, PTL

\* What is held in the pipeline is what its four pieces hold.
LEMMA PipelineHeld == IInv => Elements(Pipeline) = Held
<1> SUFFICES ASSUME IInv PROVE Elements(Pipeline) = Held
  OBVIOUS
<1>1. /\ written \in Seq(Nat) /\ buffer \in Seq(Nat) /\ queue \in Seq(Nat)
      /\ inHand \in Seq(Nat)
  BY DEF IInv, TypeOK
<1>2. /\ written \o buffer \in Seq(Nat)
      /\ Elements(written \o buffer) = Elements(written) \cup Elements(buffer)
  BY <1>1, ConcatProperties, ElementsOfConcat
<1>3. /\ (written \o buffer) \o queue \in Seq(Nat)
      /\ Elements((written \o buffer) \o queue) = Elements(written \o buffer) \cup Elements(queue)
  BY <1>1, <1>2, ConcatProperties, ElementsOfConcat
<1>4. Elements(((written \o buffer) \o queue) \o inHand)
        = Elements((written \o buffer) \o queue) \cup Elements(inHand)
  BY <1>1, <1>3, ElementsOfConcat
<1> QED BY <1>2, <1>3, <1>4 DEF Pipeline, Held

\* Every message taken is durable, on its way, in a failed batch or dropped, and
\* never in two of these, for any number of messages and crashes.
THEOREM EverythingAccounted == Spec => []Accounted
<1>1. IInv => Accounted
  BY PipelineHeld DEF IInv, PiecesAccounted, Accounted
<1> QED BY <1>1, Invariance, PTL

\* Without a crash, shutdown only drops messages handed over after the signal.
THEOREM ShutdownSafe == Spec => []SignalledSafe
<1>1. IInv => SignalledSafe
  <2> SUFFICES ASSUME IInv, crashes = 0, NEW m \in lost PROVE m > queuedAtSignal
    BY DEF SignalledSafe
  <2>1. queuedAtSignal < m /\ m \in Nat /\ queuedAtSignal \in Nat
    BY DEF IInv, TypeOK, EndsOnSignal, Before
  <2> QED BY <2>1
<1> QED BY <1>1, Invariance, PTL

-----------------------------------------------------------------------------
(* Recording implements DurableLog *)

\* What the table gains was undecided, since it was held; so was what is dropped.
LEMMA Decides ==
  ASSUME IInv, IInv', accepted' = accepted,
         NEW more \in Seq(Nat), written' = written \o more,
         failed \cup lost \subseteq failed' \cup lost'
  PROVE  Log!Decide
<1> DEFINE dropped == failed \cup lost
<1>1. /\ written \in Seq(Nat) /\ written' \in Seq(Nat)
      /\ Len(written) \in Nat /\ Len(more) \in Nat /\ Len(written') = Len(written) + Len(more)
      /\ \A i \in 1 .. Len(written) : written'[i] = written[i]
  BY ConcatParts DEF IInv, TypeOK
<1>2. Increasing(written')
  BY DEF IInv, PiecesInOrder
<1>3. /\ Elements(written') \cup dropped' \subseteq 1 .. accepted
      /\ Elements(written') \cap dropped' = {}
  BY DEF IInv, PiecesAccounted, Held
<1>4. Len(written') >= Len(written) /\ SubSeq(written', 1, Len(written)) = written
  <2>1. \A i \in 1 .. Len(written) : written'[i] \in Nat
    BY <1>1, ElementOfSeq
  <2>2. /\ SubSeq(written', 1, Len(written)) \in Seq(Nat)
        /\ Len(SubSeq(written', 1, Len(written))) = Len(written)
        /\ \A i \in 1 .. Len(written) : SubSeq(written', 1, Len(written))[i] = written[i]
    BY <1>1, <2>1, SubSeqProperties
  <2>3. SubSeq(written', 1, Len(written)) = written
    BY <1>1, <2>2, SeqEqual
  <2> QED BY <1>1, <2>3
<1>5. ASSUME NEW i \in Len(written) + 1 .. Len(written')
      PROVE  written'[i] \in Log!Undecided \ dropped' /\ (i > 1 => written'[i - 1] < written'[i])
  <2>1. i \in 1 .. Len(written') /\ written'[i] \in Elements(written')
    BY <1>1 DEF Elements
  <2>2. \A k \in 1 .. Len(written) : written[k] # written'[i]
    <3> SUFFICES ASSUME NEW k \in 1 .. Len(written) PROVE written[k] # written'[i]
      OBVIOUS
    <3>1. k \in 1 .. Len(written') /\ k < i /\ written'[k] = written[k]
      BY <1>1
    <3>2. written'[k] \in Nat /\ written'[i] \in Nat
      BY <1>1, <2>1, <3>1, ElementOfSeq
    <3> QED BY <1>2, <2>1, <3>1, <3>2 DEF Increasing
  <2>3. written'[i] \in Log!Undecided \ dropped'
    BY <1>3, <2>1, <2>2 DEF Log!Undecided
  <2>4. i > 1 => written'[i - 1] < written'[i]
    <3>1. i > 1 => i - 1 \in 1 .. Len(written') /\ i - 1 < i
      BY <2>1, <1>1
    <3> QED BY <1>2, <2>1, <3>1 DEF Increasing
  <2> QED BY <2>3, <2>4
<1>6. dropped' \ dropped \subseteq Log!Undecided
  <2> SUFFICES ASSUME NEW m \in dropped', m \notin dropped PROVE m \in Log!Undecided
    OBVIOUS
  <2>1. m \in 1 .. accepted /\ m \notin Elements(written')
    BY <1>3
  <2>2. \A k \in 1 .. Len(written) : written[k] # m
    BY <1>1, <2>1 DEF Elements
  <2> QED BY <2>1, <2>2 DEF Log!Undecided
<1> QED BY <1>4, <1>5, <1>6 DEF Log!Decide

LEMMA NothingMore ==
  ASSUME IInv
  PROVE  <<>> \in Seq(Nat) /\ written = written \o <<>>
BY ConcatEmptySeq, EmptySeq DEF IInv, TypeOK

\* Every step decides, takes, or does not show in the log.
LEMMA StepRefines == IInv /\ IInv' /\ [Next]_vars => [Log!Next]_(Log!vars)
<1> SUFFICES ASSUME IInv, IInv', [Next]_vars PROVE [Log!Next]_(Log!vars)
  OBVIOUS
<1> USE DEF Log!Next, Log!vars
<1>1. CASE Accept
  BY <1>1 DEF Accept, outcome, Log!Take
<1>2. CASE DirectPersist
  <2>1. inHand \in Seq(Nat)
    BY DEF IInv, TypeOK
  <2>2. CASE written' = written \o inHand /\ failed' = failed
    BY <1>2, <2>1, <2>2, Decides DEF DirectPersist
  <2>3. CASE written' = written /\ failed' = failed \cup Elements(inHand)
    BY <1>2, <2>3, NothingMore, Decides DEF DirectPersist
  <2> QED BY <1>2, <2>2, <2>3 DEF DirectPersist
<1>3. CASE Flushed
  <2>1. buffer \in Seq(Nat) /\ accepted' = accepted /\ lost \subseteq lost'
    BY <1>3 DEF IInv, TypeOK, Flushed
  <2>2. CASE written' = written \o buffer /\ failed' = failed
    BY <2>1, <2>2, Decides
  <2>3. CASE written' = written /\ failed' = failed \cup Elements(buffer)
    BY <2>1, <2>3, NothingMore, Decides
  <2> QED BY <1>3, <2>2, <2>3 DEF Flushed
<1>4. CASE Crash
  BY <1>4, NothingMore, Decides DEF Crash
<1>5. CASE WorkerStep /\ ~DirectPersist
  BY <1>5 DEF WorkerStep, SpawnWriter, Subscribe, SendPending, WorkerShutdown, WorkerStopped,
              outcome
<1>6. CASE WriterStep /\ ~Flushed
  BY <1>6 DEF WriterStep, Receive, Filled, FlushTick, SenderGone, WriterShutdown, Drain, outcome
<1>7. CASE SendSignal
  BY <1>7 DEF SendSignal, outcome
<1>8. CASE UNCHANGED vars
  BY <1>8 DEF vars, outcome
<1> QED
  BY <1>1, <1>2, <1>3, <1>4, <1>5, <1>6, <1>7, <1>8
  DEF Next, WorkerStep, WriterStep, Finished, OutOfMessages

\* The worker, its writer and the table together implement the log they promise:
\* each message is decided once, in order, whatever fails, stops or crashes.
THEOREM RecordingImplementsLog == Spec => ImplementsLog
<1>1. Init => Log!Init
  BY DEF Init, Log!Init
<1> QED BY <1>1, Invariance, StepRefines, PTL DEF Spec, ImplementsLog, Log!Spec
=============================================================================
