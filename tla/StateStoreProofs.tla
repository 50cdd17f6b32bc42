--------------------------- MODULE StateStoreProofs ---------------------------
(***************************************************************************)
(* Proofs about StateStore, for every schema, every set of tasks and every *)
(* log capacity.                                                           *)
(***************************************************************************)
EXTENDS StateStore, FiniteSetTheorems, TLAPS

-----------------------------------------------------------------------------
(* Lemmas about the operators *)

\* Clamping lands in the range (f64::clamp with range_min <= range_max).
LEMMA ClampInRange ==
  ASSUME NEW d \in Dims, NEW x \in Int
  PROVE  Clamp(d, x) \in RangeOf(d) /\ RangeOf(d) \subseteq Int
<1>1. RangeMin[d] \in Int /\ RangeMax[d] \in Int /\ Default[d] \in RangeMin[d] .. RangeMax[d]
  BY SchemaAssumption DEF RangeOf
<1> QED BY <1>1 DEF Clamp, RangeOf

\* An event leaves its dimension in range.
LEMMA EventTargetInRange ==
  ASSUME NEW d \in Dims, NEW b \in Int, NEW x \in Int
  PROVE  EventTarget(d, b, x) \in RangeOf(d)
<1>1. MaxDelta[d] \in Int
  BY SchemaAssumption
<1>2. LimitDelta(d, x) \in Int
  BY <1>1 DEF LimitDelta
<1> QED BY <1>2, ClampInRange DEF EventTarget

\* So does a drift tick, the snap included.
LEMMA DriftTargetInRange ==
  ASSUME NEW d \in Dims, NEW b \in Int
  PROVE  DriftTarget(d, b) \in RangeOf(d)
<1>1. Baseline[d] \in Int /\ DriftDiv[d] \in Int /\ DriftDiv[d] > 0
  BY SchemaAssumption
<1>2. \A n \in Int : n \div DriftDiv[d] \in Int
  BY <1>1
<1>3. DriftMove(d, b) \in Int
  BY <1>1, <1>2 DEF DriftMove
<1> QED BY <1>1, <1>3, ClampInRange DEF DriftTarget

\* Eviction keeps a suffix of the log.
LEMMA EvictedSuffix ==
  ASSUME NEW log \in Seq(LogEntries)
  PROVE  /\ Evicted(log) \in Seq(LogEntries)
         /\ Len(Evicted(log)) <= Len(log)
         /\ \A i \in 1 .. Len(Evicted(log)) :
              Evicted(log)[i] = log[Len(log) - Len(Evicted(log)) + i]
<1>1. MaxHistory \in Nat /\ MaxHistory > 0
  BY BoundsAssumption
<1>2. CASE Len(log) <= MaxHistory
  BY <1>2 DEF Evicted
<1>3. CASE ~(Len(log) <= MaxHistory)
  <2> DEFINE cut == Len(log) - MaxHistory + 1
  <2>1. cut \in 1 .. Len(log) /\ Len(log) \in Nat
    BY <1>1, <1>3
  <2>2. Evicted(log) = SubSeq(log, cut, Len(log))
    BY <1>3 DEF Evicted
  <2>3. SubSeq(log, cut, Len(log)) \in Seq(LogEntries)
    BY <2>1
  <2>4. Len(SubSeq(log, cut, Len(log))) = Len(log) - cut + 1
    BY <2>1
  <2>5. \A i \in 1 .. Len(log) - cut + 1 : SubSeq(log, cut, Len(log))[i] = log[cut + i - 1]
    BY <2>1
  <2> QED BY <1>1, <2>1, <2>2, <2>3, <2>4, <2>5
<1> QED BY <1>2, <1>3

\* The base values are among those the derivation is defined for.
LEMMA BaseValuesTyped ==
  ASSUME TypeOK
  PROVE  BaseValues \in BaseValuations
BY DEF TypeOK, BaseValues, BaseValuations, Dims

\* What an idle task holds is typed.
LEMMA DefaultsTyped == NoEntry \in LogEntries /\ NoComputed \in [DerivedDims -> Int]
<1>1. (CHOOSE d \in BaseDims : TRUE) \in Dims
  BY SchemaAssumption DEF Dims
<1> QED BY <1>1 DEF NoEntry, Entry, NoComputed, LogEntries

-----------------------------------------------------------------------------
(* Types and ranges *)

\* The store starts typed and in range.
LEMMA InitTyped == Init => TypeOK
<1> SUFFICES ASSUME Init PROVE TypeOK
  OBVIOUS
<1>1. /\ values \in [Dims -> Int] /\ \A d \in Dims : values[d] \in RangeOf(d)
  BY SchemaAssumption DEF Init
<1>2. pc \in [Tasks -> PCs] /\ entry \in [Tasks -> LogEntries]
      /\ todo \in [Tasks -> Seq(Items)] /\ pending \in [Tasks -> Nat]
      /\ computed \in [Tasks -> [DerivedDims -> Int]]
  BY DefaultsTyped DEF Init, PCs
<1> QED BY <1>1, <1>2 DEF Init, TypeOK

\* What a returning call leaves behind is typed.
LEMMA ReturnTyped ==
  ASSUME TypeOK, NEW t \in Tasks, Return(t)
  PROVE  /\ rowGuard' \subseteq Tasks
         /\ pc' \in [Tasks -> PCs]
         /\ entry' \in [Tasks -> LogEntries]
         /\ computed' \in [Tasks -> [DerivedDims -> Int]]
<1>1. pc' \in [Tasks -> PCs] /\ rowGuard' \subseteq Tasks
  BY DEF TypeOK, Return, Goto, PCs
<1>2. entry' \in [Tasks -> LogEntries] /\ computed' \in [Tasks -> [DerivedDims -> Int]]
  BY DefaultsTyped DEF TypeOK, Return
<1> QED BY <1>1, <1>2

\* What a turn of the batch loop works on and writes is typed.
LEMMA BatchEntryTyped ==
  ASSUME TypeOK, NEW t \in Tasks, todo[t] # <<>>,
         NEW d, d = Head(todo[t]).dim,
         NEW after, after = IF t \in DriftWorkers THEN DriftTarget(d, values[d])
                            ELSE EventTarget(d, values[d], Head(todo[t]).delta)
  PROVE  /\ d \in Dims /\ Tail(todo[t]) \in Seq(Items)
         /\ after \in RangeOf(d) /\ after \in Int
         /\ Entry(seqno + 1, d, values[d], after) \in LogEntries
<1>1. todo[t] \in Seq(Items)
  BY DEF TypeOK
<1>2. Head(todo[t]) \in Items /\ Tail(todo[t]) \in Seq(Items)
  BY <1>1
<1>3. d \in Dims /\ Head(todo[t]).delta \in Int
  BY <1>2 DEF Items
<1>4. values[d] \in Int /\ seqno + 1 \in Nat
  BY <1>3 DEF TypeOK
<1>5. after \in RangeOf(d) /\ after \in Int
  BY <1>3, <1>4, DriftTargetInRange, EventTargetInRange, ClampInRange
<1> QED BY <1>2, <1>3, <1>4, <1>5 DEF Entry, LogEntries

\* Every section of every call keeps types and ranges.
LEMMA StepTyped == TypeOK /\ [Next]_vars => TypeOK'
<1> SUFFICES ASSUME TypeOK, [Next]_vars PROVE TypeOK'
  OBVIOUS
<1> USE DEF storeVars, lockVars, taskVars, Goto
<1>1. ASSUME NEW t \in Tasks, CallPatch(t) PROVE TypeOK'
  <2>1. PICK r \in PatchRequests :
          entry' = [entry EXCEPT ![t] = Entry(0, r.dim, 0, r.value)]
    BY <1>1 DEF CallPatch
  <2>2. Entry(0, r.dim, 0, r.value) \in LogEntries
    BY RequestsAssumption DEF LogEntries, Entry
  <2>3. entry' \in [Tasks -> LogEntries]
    BY <2>1, <2>2 DEF TypeOK
  <2> QED BY <1>1, <2>3 DEF CallPatch, TypeOK, PCs
<1>2. ASSUME NEW t \in Tasks, PatchValues(t) PROVE TypeOK'
  <2> DEFINE d == entry[t].dim
             after == Clamp(d, entry[t].after)
  <2>1. d \in Dims /\ entry[t].after \in Int
    BY DEF TypeOK, LogEntries
  <2>2. after \in RangeOf(d) /\ after \in Int
    BY <2>1, ClampInRange
  <2>3. /\ values' = [values EXCEPT ![d] = after]
        /\ entry' = [entry EXCEPT ![t] = Entry(0, d, values[d], after)]
    BY <1>2 DEF PatchValues
  <2>4. values' \in [Dims -> Int] /\ \A e \in Dims : values'[e] \in RangeOf(e)
    BY <2>1, <2>2, <2>3 DEF TypeOK
  <2>5. entry' \in [Tasks -> LogEntries]
    <3>1. Entry(0, d, values[d], after) \in LogEntries
      BY <2>1, <2>2 DEF TypeOK, LogEntries, Entry
    <3> QED BY <2>3, <3>1 DEF TypeOK
  <2> HIDE DEF d, after
  <2> QED BY <1>2, <2>4, <2>5 DEF PatchValues, TypeOK, PCs
<1>3. ASSUME NEW t \in Tasks, PatchSequence(t) PROVE TypeOK'
  <2>1. Entry(seqno + 1, entry[t].dim, entry[t].before, entry[t].after) \in LogEntries
    <3>1. entry[t] \in LogEntries /\ seqno + 1 \in Nat
      BY DEF TypeOK
    <3> QED BY <3>1 DEF LogEntries, Entry
  <2>2. entry' \in [Tasks -> LogEntries]
    BY <1>3, <2>1 DEF PatchSequence, TypeOK
  <2> QED BY <1>3, <2>2 DEF PatchSequence, TypeOK, PCs
<1>4. ASSUME NEW t \in Tasks, PatchHistory(t) PROVE TypeOK'
  <2>1. Append(history, entry[t]) \in Seq(LogEntries)
    BY DEF TypeOK
  <2>2. history' \in Seq(LogEntries)
    BY <1>4, <2>1, EvictedSuffix DEF PatchHistory
  <2> QED BY <1>4, <2>2 DEF PatchHistory, TypeOK, PCs
<1>5. ASSUME NEW t \in Tasks, PatchRow(t) PROVE TypeOK'
  BY <1>5 DEF PatchRow, TypeOK, PCs
<1>6. ASSUME NEW t \in Tasks, DropPatch(t) PROVE TypeOK'
  <2>1. Return(t)
    BY <1>6 DEF DropPatch
  <2> QED BY <1>6, <2>1, ReturnTyped DEF DropPatch, TypeOK
<1>7. ASSUME NEW t \in Tasks, CallBatch(t) PROVE TypeOK'
  <2>1. DriftItems \in Seq(Items)
    BY SchemaAssumption DEF DriftItems, Items, Dims
  <2>2. todo' \in [Tasks -> Seq(Items)]
    BY <1>7, <2>1, RequestsAssumption DEF CallBatch, TypeOK
  <2> QED BY <1>7, <2>2 DEF CallBatch, TypeOK, PCs
<1>8. ASSUME NEW t \in Tasks, BatchLockValues(t) PROVE TypeOK'
  BY <1>8 DEF BatchLockValues, TypeOK, PCs
<1>9. ASSUME NEW t \in Tasks, BatchLockLog(t) PROVE TypeOK'
  BY <1>9 DEF BatchLockLog, TypeOK, PCs
<1>10. ASSUME NEW t \in Tasks, BatchItem(t) PROVE TypeOK'
  <2> DEFINE d == Head(todo[t]).dim
             after == IF t \in DriftWorkers THEN DriftTarget(d, values[d])
                      ELSE EventTarget(d, values[d], Head(todo[t]).delta)
             new == Entry(seqno + 1, d, values[d], after)
  <2>1. /\ d \in Dims /\ Tail(todo[t]) \in Seq(Items)
        /\ after \in RangeOf(d) /\ after \in Int /\ new \in LogEntries
    BY <1>10, BatchEntryTyped DEF BatchItem
  <2>5. \/ UNCHANGED <<values, seqno, history, pending>>
        \/ /\ values' = [values EXCEPT ![d] = after]
           /\ seqno' = seqno + 1
           /\ history' = Append(history, new)
           /\ pending' = [pending EXCEPT ![t] = @ + 1]
    BY <1>10 DEF BatchItem
  <2> HIDE DEF d, after, new
  <2>7. values' \in [Dims -> Int] /\ \A e \in Dims : values'[e] \in RangeOf(e)
    BY <2>1, <2>5 DEF TypeOK
  <2>8. history' \in Seq(LogEntries) /\ seqno' \in Nat /\ pending' \in [Tasks -> Nat]
    <3>1. Append(history, new) \in Seq(LogEntries)
      BY <2>1 DEF TypeOK
    <3>2. [pending EXCEPT ![t] = @ + 1] \in [Tasks -> Nat]
      BY DEF TypeOK
    <3>3. history \in Seq(LogEntries) /\ seqno \in Nat /\ pending \in [Tasks -> Nat]
      BY DEF TypeOK
    <3>4. CASE UNCHANGED <<values, seqno, history, pending>>
      BY <3>3, <3>4
    <3>5. CASE /\ seqno' = seqno + 1
               /\ history' = Append(history, new)
               /\ pending' = [pending EXCEPT ![t] = @ + 1]
      BY <3>1, <3>2, <3>3, <3>5
    <3> QED BY <2>5, <3>4, <3>5
  <2>9. todo' \in [Tasks -> Seq(Items)]
    BY <1>10, <2>1 DEF BatchItem, TypeOK
  <2> QED BY <1>10, <2>7, <2>8, <2>9 DEF BatchItem, TypeOK
<1>11. ASSUME NEW t \in Tasks, BatchEnd(t) PROVE TypeOK'
  <2>1. history' \in Seq(LogEntries)
    BY <1>11, EvictedSuffix DEF BatchEnd, TypeOK
  <2> QED BY <1>11, <2>1 DEF BatchEnd, TypeOK, PCs
<1>12. ASSUME NEW t \in Tasks, RecordMetrics(t) PROVE TypeOK'
  <2>1. metrics' \in [{"logged", "derived"} -> Nat] /\ pending' \in [Tasks -> Nat]
    BY <1>12 DEF RecordMetrics, TypeOK
  <2>2. \/ Return(t)
        \/ pc' = [pc EXCEPT ![t] = "derive_read"] /\ UNCHANGED <<rowGuard, entry, computed>>
    BY <1>12 DEF RecordMetrics
  <2>3. /\ rowGuard' \subseteq Tasks /\ pc' \in [Tasks -> PCs]
        /\ entry' \in [Tasks -> LogEntries]
        /\ computed' \in [Tasks -> [DerivedDims -> Int]]
    BY <2>2, ReturnTyped DEF TypeOK, PCs
  <2> QED BY <1>12, <2>1, <2>3 DEF RecordMetrics, TypeOK
<1>13. ASSUME NEW t \in Tasks, DeriveRead(t) PROVE TypeOK'
  <2>1. [d \in DerivedDims |-> Derive(d, BaseValues)] \in [DerivedDims -> Int]
    BY BaseValuesTyped, DeriveAssumption
  <2>2. computed' \in [Tasks -> [DerivedDims -> Int]]
    BY <1>13, <2>1 DEF DeriveRead, TypeOK
  <2> QED BY <1>13, <2>2 DEF DeriveRead, TypeOK, PCs
<1>14. ASSUME NEW t \in Tasks, DeriveWrite(t) PROVE TypeOK'
  <2>1. \A d \in DerivedDims : d \in Dims /\ computed[t][d] \in Int
    BY DEF TypeOK, Dims
  <2>2. \A d \in DerivedDims : Clamp(d, computed[t][d]) \in RangeOf(d)
                               /\ Clamp(d, computed[t][d]) \in Int
    BY <2>1, ClampInRange
  <2>3. values' = [d \in Dims |-> IF d \in DerivedDims THEN Clamp(d, computed[t][d])
                                                        ELSE values[d]]
    BY <1>14 DEF DeriveWrite
  <2>4. values' \in [Dims -> Int] /\ \A d \in Dims : values'[d] \in RangeOf(d)
    BY <2>2, <2>3 DEF TypeOK
  <2> DEFINE changed == {d \in DerivedDims : values'[d] # values[d]}
  <2>5. Cardinality(changed) \in Nat
    BY SchemaAssumption, FS_Subset, FS_CardinalityType
  <2>6. /\ pending' = [pending EXCEPT ![t] = Cardinality(changed)]
        /\ \/ Return(t)
           \/ pc' = [pc EXCEPT ![t] = "derive_metrics"] /\ UNCHANGED <<rowGuard, entry, computed>>
    BY <1>14 DEF DeriveWrite
  <2> HIDE DEF changed
  <2>7. /\ rowGuard' \subseteq Tasks /\ pc' \in [Tasks -> PCs]
        /\ entry' \in [Tasks -> LogEntries]
        /\ computed' \in [Tasks -> [DerivedDims -> Int]]
    BY <2>6, ReturnTyped DEF TypeOK, PCs
  <2>8. pending' \in [Tasks -> Nat]
    BY <2>5, <2>6 DEF TypeOK
  <2> QED BY <1>14, <2>4, <2>7, <2>8 DEF DeriveWrite, TypeOK
<1>15. ASSUME NEW t \in Tasks, DeriveMetrics(t) PROVE TypeOK'
  <2>1. metrics' \in [{"logged", "derived"} -> Nat] /\ pending' \in [Tasks -> Nat]
    BY <1>15 DEF DeriveMetrics, TypeOK
  <2> QED BY <1>15, <2>1, ReturnTyped DEF DeriveMetrics, TypeOK
<1>16. CASE UNCHANGED vars
  BY <1>16 DEF vars, TypeOK
<1> QED
  BY <1>1, <1>2, <1>3, <1>4, <1>5, <1>6, <1>7, <1>8, <1>9, <1>10, <1>11, <1>12,
     <1>13, <1>14, <1>15, <1>16 DEF Next, Step, Finished

\* Every value of every reachable state lies in the range of its dimension, and
\* every variable has its type.
THEOREM TypeCorrect == Spec => []TypeOK
<1> QED BY InitTyped, StepTyped, PTL DEF Spec

-----------------------------------------------------------------------------
(* Numbering *)

\* The entries of a log carry distinct numbers, none above n.
Numbered(log, n) ==
  /\ \A i \in 1 .. Len(log) : log[i].seq <= n
  /\ \A i, j \in 1 .. Len(log) : i # j => log[i].seq # log[j].seq
\* Number n is not in the log.
Apart(log, n) == \A i \in 1 .. Len(log) : log[i].seq # n

\* The numbers of the patches that are numbered and not yet pushed.
PatchesNumbered ==
  \A t \in Tasks : pc[t] = "patch_history" =>
    /\ entry[t].seq <= seqno /\ Apart(history, entry[t].seq)
    /\ \A u \in Tasks : pc[u] = "patch_history" /\ u # t => entry[u].seq # entry[t].seq

\* NumbersDistinct alone is not inductive: a fresh number is distinct from those
\* in use because none of them is above the counter.
NumberingInv == TypeOK /\ Numbered(history, seqno) /\ PatchesNumbered

\* The numbers of a log are naturals.
LEMMA SeqNumbers ==
  ASSUME NEW log \in Seq(LogEntries)
  PROVE  Len(log) \in Nat /\ \A i \in 1 .. Len(log) : log[i] \in LogEntries /\ log[i].seq \in Nat
<1>1. \A x \in LogEntries : x.seq \in Nat
  BY DEF LogEntries
<1> QED BY <1>1

\* Eviction only removes numbers.
LEMMA EvictedNumbers ==
  ASSUME NEW log \in Seq(LogEntries), NEW n \in Nat
  PROVE  /\ Numbered(log, n) => Numbered(Evicted(log), n)
         /\ Apart(log, n) => Apart(Evicted(log), n)
<1> DEFINE cut == Evicted(log)
           k == Len(log) - Len(cut)
<1>1. /\ Len(cut) \in Nat /\ Len(cut) <= Len(log) /\ Len(log) \in Nat
      /\ \A i \in 1 .. Len(cut) : cut[i] = log[k + i]
  BY EvictedSuffix
<1> HIDE DEF cut
<1>2. /\ \A i \in 1 .. Len(cut) : k + i \in 1 .. Len(log)
      /\ \A i, j \in 1 .. Len(cut) : i # j => k + i # k + j
  BY <1>1
<1> HIDE DEF k
<1>3. Numbered(log, n) => Numbered(cut, n)
  BY <1>1, <1>2 DEF Numbered
<1>4. Apart(log, n) => Apart(cut, n)
  BY <1>1, <1>2 DEF Apart
<1> QED BY <1>3, <1>4 DEF cut

\* Appending a number that is not in the log.
LEMMA AppendNumbers ==
  ASSUME NEW log \in Seq(LogEntries), NEW e \in LogEntries, NEW n \in Nat, NEW m \in Nat
  PROVE  /\ Numbered(log, n) /\ n <= m /\ e.seq <= m /\ Apart(log, e.seq)
              => Numbered(Append(log, e), m)
         /\ Apart(log, n) /\ e.seq # n => Apart(Append(log, e), n)
<1>1. /\ Len(log) \in Nat /\ e.seq \in Nat
      /\ \A i \in 1 .. Len(log) : log[i].seq \in Nat
  BY SeqNumbers DEF LogEntries
<1>2. /\ Len(Append(log, e)) = Len(log) + 1
      /\ Append(log, e)[Len(log) + 1] = e
      /\ \A i \in 1 .. Len(log) : Append(log, e)[i] = log[i]
  BY <1>1
<1>3. \A i \in 1 .. Len(log) + 1 : i \in 1 .. Len(log) \/ i = Len(log) + 1
  BY <1>1
<1>4. Numbered(log, n) /\ n <= m /\ e.seq <= m /\ Apart(log, e.seq)
        => Numbered(Append(log, e), m)
  BY <1>1, <1>2, <1>3 DEF Numbered, Apart
<1>5. Apart(log, n) /\ e.seq # n => Apart(Append(log, e), n)
  BY <1>1, <1>2, <1>3 DEF Apart
<1> QED BY <1>4, <1>5

\* Above the counter, a number is in no log.
LEMMA FreshApart ==
  ASSUME NEW log \in Seq(LogEntries), NEW n \in Nat, Numbered(log, n)
  PROVE  Apart(log, n + 1) /\ Numbered(log, n + 1)
BY SeqNumbers DEF Numbered, Apart

\* Steps that touch neither the log nor a numbered patch keep the numbering.
LEMMA NumberingFrame ==
  ASSUME NumberingInv, TypeOK', UNCHANGED <<seqno, history>>,
         \A t \in Tasks : pc'[t] = "patch_history" => pc[t] = "patch_history" /\ entry'[t] = entry[t]
  PROVE  NumberingInv'
BY DEF NumberingInv, PatchesNumbered, Numbered, Apart

\* The numbering starts empty.
LEMMA InitNumbered == Init => NumberingInv
<1> SUFFICES ASSUME Init PROVE NumberingInv
  OBVIOUS
<1>1. history = <<>> /\ \A t \in Tasks : pc[t] = "idle"
  BY DEF Init
<1> QED BY <1>1, InitTyped DEF NumberingInv, PatchesNumbered, Numbered

\* Every section keeps the numbering.
LEMMA StepNumbered == NumberingInv /\ [Next]_vars => NumberingInv'
<1> SUFFICES ASSUME NumberingInv, [Next]_vars PROVE NumberingInv'
  OBVIOUS
<1>t. TypeOK /\ TypeOK'
  BY StepTyped DEF NumberingInv
<1>p. /\ pc \in [Tasks -> PCs] /\ entry \in [Tasks -> LogEntries]
      /\ seqno \in Nat /\ history \in Seq(LogEntries)
      /\ \A u \in Tasks : entry[u].seq \in Nat
  <2>1. \A x \in LogEntries : x.seq \in Nat
    BY DEF LogEntries
  <2> QED BY <1>t, <2>1 DEF TypeOK
<1>n. Numbered(history, seqno) /\ PatchesNumbered
  BY DEF NumberingInv
<1> USE DEF storeVars, lockVars, taskVars, Goto
<1>1. ASSUME NEW t \in Tasks, CallPatch(t) PROVE NumberingInv'
  BY <1>1, <1>t, <1>p, NumberingFrame DEF CallPatch
<1>2. ASSUME NEW t \in Tasks, PatchValues(t) PROVE NumberingInv'
  BY <1>2, <1>t, <1>p, NumberingFrame DEF PatchValues
<1>3. ASSUME NEW t \in Tasks, PatchSequence(t) PROVE NumberingInv'
  <2> DEFINE new == Entry(seqno + 1, entry[t].dim, entry[t].before, entry[t].after)
  <2>1. /\ seqno' = seqno + 1 /\ history' = history
        /\ entry' = [entry EXCEPT ![t] = new]
        /\ pc' = [pc EXCEPT ![t] = "patch_history"]
    BY <1>3 DEF PatchSequence
  <2>2. new.seq = seqno + 1
    BY DEF Entry
  <2> HIDE DEF new
  <2>3. entry'[t] = new /\ \A u \in Tasks : u # t => entry'[u] = entry[u] /\ pc'[u] = pc[u]
    BY <1>p, <2>1
  <2>4. Apart(history, seqno + 1) /\ Numbered(history, seqno + 1)
    BY <1>p, <1>n, FreshApart
  <2>5. PatchesNumbered'
    BY <1>p, <1>n, <2>1, <2>2, <2>3, <2>4 DEF PatchesNumbered
  <2> QED BY <1>t, <2>1, <2>4, <2>5 DEF NumberingInv
<1>4. ASSUME NEW t \in Tasks, PatchHistory(t) PROVE NumberingInv'
  <2> DEFINE pushed == Append(history, entry[t])
  <2>1. /\ history' = Evicted(pushed) /\ seqno' = seqno /\ entry' = entry
        /\ pc[t] = "patch_history" /\ pc' = [pc EXCEPT ![t] = "patch_row"]
    BY <1>4 DEF PatchHistory
  <2>2. pushed \in Seq(LogEntries) /\ entry[t] \in LogEntries
    BY <1>p
  <2>3. entry[t].seq <= seqno /\ Apart(history, entry[t].seq)
    BY <1>n, <2>1 DEF PatchesNumbered
  <2>4. Numbered(pushed, seqno)
    BY <1>p, <1>n, <2>2, <2>3, AppendNumbers
  <2>5. \A u \in Tasks : pc'[u] = "patch_history" => u # t /\ pc[u] = "patch_history"
    BY <1>p, <2>1
  <2>6. \A u \in Tasks : pc'[u] = "patch_history" => Apart(pushed, entry[u].seq)
    BY <1>p, <1>n, <2>1, <2>2, <2>5, AppendNumbers DEF PatchesNumbered
  <2> HIDE DEF pushed
  <2>7. Numbered(history', seqno)
    BY <1>p, <2>1, <2>2, <2>4, EvictedNumbers
  <2>8. \A u \in Tasks : pc'[u] = "patch_history" => Apart(history', entry[u].seq)
    BY <1>p, <2>1, <2>2, <2>6, EvictedNumbers
  <2>9. PatchesNumbered'
    BY <1>n, <2>1, <2>5, <2>8 DEF PatchesNumbered
  <2> QED BY <1>t, <2>1, <2>7, <2>9 DEF NumberingInv
<1>5. ASSUME NEW t \in Tasks, PatchRow(t) PROVE NumberingInv'
  BY <1>5, <1>t, <1>p, NumberingFrame DEF PatchRow
<1>6. ASSUME NEW t \in Tasks, DropPatch(t) PROVE NumberingInv'
  BY <1>6, <1>t, <1>p, NumberingFrame DEF DropPatch, Return
<1>7. ASSUME NEW t \in Tasks, CallBatch(t) PROVE NumberingInv'
  BY <1>7, <1>t, <1>p, NumberingFrame DEF CallBatch
<1>8. ASSUME NEW t \in Tasks, BatchLockValues(t) PROVE NumberingInv'
  BY <1>8, <1>t, <1>p, NumberingFrame DEF BatchLockValues
<1>9. ASSUME NEW t \in Tasks, BatchLockLog(t) PROVE NumberingInv'
  BY <1>9, <1>t, <1>p, NumberingFrame DEF BatchLockLog
<1>10. ASSUME NEW t \in Tasks, BatchItem(t) PROVE NumberingInv'
  <2>1. pc' = pc /\ entry' = entry
    BY <1>10 DEF BatchItem
  <2>2. CASE UNCHANGED <<seqno, history>>
    BY <1>t, <2>1, <2>2, NumberingFrame
  <2>3. CASE \E e \in LogEntries : /\ e.seq = seqno + 1 /\ seqno' = seqno + 1
                                   /\ history' = Append(history, e)
    <3>1. PICK e \in LogEntries : /\ e.seq = seqno + 1 /\ seqno' = seqno + 1
                                  /\ history' = Append(history, e)
      BY <2>3
    <3>2. Apart(history, e.seq)
      BY <1>p, <1>n, <3>1, FreshApart
    <3>3. Numbered(history', seqno')
      BY <1>p, <1>n, <3>1, <3>2, AppendNumbers
    <3>4. \A u \in Tasks : pc[u] = "patch_history" =>
            Apart(history', entry[u].seq) /\ entry[u].seq <= seqno'
      BY <1>p, <1>n, <3>1, AppendNumbers DEF PatchesNumbered
    <3>5. PatchesNumbered'
      BY <1>n, <2>1, <3>4 DEF PatchesNumbered
    <3> QED BY <1>t, <3>3, <3>5 DEF NumberingInv
  <2> DEFINE d == Head(todo[t]).dim
             after == IF t \in DriftWorkers THEN DriftTarget(d, values[d])
                      ELSE EventTarget(d, values[d], Head(todo[t]).delta)
             new == Entry(seqno + 1, d, values[d], after)
  <2>4. \/ UNCHANGED <<seqno, history>>
        \/ seqno' = seqno + 1 /\ history' = Append(history, new)
    BY <1>10 DEF BatchItem
  <2>5. new \in LogEntries
    BY <1>10, <1>t, BatchEntryTyped DEF BatchItem
  <2>6. new.seq = seqno + 1
    BY DEF Entry
  <2> HIDE DEF new
  <2> QED BY <2>2, <2>3, <2>4, <2>5, <2>6
<1>11. ASSUME NEW t \in Tasks, BatchEnd(t) PROVE NumberingInv'
  <2>1. /\ history' = Evicted(history) /\ seqno' = seqno /\ entry' = entry
        /\ \A u \in Tasks : pc'[u] = "patch_history" => pc[u] = "patch_history"
    BY <1>11, <1>p DEF BatchEnd
  <2>2. Numbered(history', seqno)
    BY <1>p, <1>n, <2>1, EvictedNumbers
  <2>3. PatchesNumbered'
    BY <1>p, <1>n, <2>1, EvictedNumbers DEF PatchesNumbered
  <2> QED BY <1>t, <2>1, <2>2, <2>3 DEF NumberingInv
<1>12. ASSUME NEW t \in Tasks, RecordMetrics(t) PROVE NumberingInv'
  BY <1>12, <1>t, <1>p, NumberingFrame DEF RecordMetrics, Return
<1>13. ASSUME NEW t \in Tasks, DeriveRead(t) PROVE NumberingInv'
  BY <1>13, <1>t, <1>p, NumberingFrame DEF DeriveRead
<1>14. ASSUME NEW t \in Tasks, DeriveWrite(t) PROVE NumberingInv'
  BY <1>14, <1>t, <1>p, NumberingFrame DEF DeriveWrite, Return
<1>15. ASSUME NEW t \in Tasks, DeriveMetrics(t) PROVE NumberingInv'
  BY <1>15, <1>t, <1>p, NumberingFrame DEF DeriveMetrics, Return
<1>16. CASE UNCHANGED vars
  BY <1>16, <1>t, NumberingFrame DEF vars
<1> QED
  BY <1>1, <1>2, <1>3, <1>4, <1>5, <1>6, <1>7, <1>8, <1>9, <1>10, <1>11, <1>12,
     <1>13, <1>14, <1>15, <1>16 DEF Next, Step, Finished

\* No two changes share a number, whatever patches and batches overlap: in the
\* log, and among the patches that still have to push theirs.
THEOREM NumbersStayDistinct == Spec => []NumbersDistinct
<1>1. NumberingInv => NumbersDistinct
  BY DEF NumberingInv, Numbered, PatchesNumbered, Apart, NumbersDistinct
<1> QED BY InitNumbered, StepNumbered, <1>1, PTL DEF Spec

-----------------------------------------------------------------------------
(* What becomes of a number *)

\* A number of the log survives eviction, or all up to it are gone and the log is full.
LEMMA EvictedOldest ==
  ASSUME NEW log \in Seq(LogEntries), NEW n \in Nat, Numbered(log, n), NEW i \in 1 .. Len(log)
  PROVE  \/ \E j \in 1 .. Len(Evicted(log)) : Evicted(log)[j].seq = log[i].seq
         \/ /\ Len(Evicted(log)) = MaxHistory
            /\ \A j \in 1 .. i : Apart(Evicted(log), log[j].seq)
<1> DEFINE cut == Evicted(log)
           k == Len(log) - Len(cut)
<1>1. /\ Len(cut) \in Nat /\ Len(cut) <= Len(log) /\ Len(log) \in Nat
      /\ \A j \in 1 .. Len(cut) : cut[j] = log[k + j]
  BY EvictedSuffix
<1>2. Len(cut) = Len(log) \/ Len(cut) = MaxHistory
  <2>1. MaxHistory \in Nat /\ MaxHistory > 0
    BY BoundsAssumption
  <2>2. CASE Len(log) <= MaxHistory
    BY <2>2 DEF Evicted
  <2>3. CASE ~(Len(log) <= MaxHistory)
    <3>1. Len(log) - MaxHistory + 1 \in 1 .. Len(log) /\ Len(log) \in Nat
      BY <2>1, <2>3
    <3>2. Evicted(log) = SubSeq(log, Len(log) - MaxHistory + 1, Len(log))
      BY <2>3 DEF Evicted
    <3> QED BY <2>1, <3>1, <3>2
  <2> QED BY <2>2, <2>3
<1> HIDE DEF cut
<1>3. CASE i > k
  <2>1. i - k \in 1 .. Len(cut) /\ k + (i - k) = i
    BY <1>1, <1>3
  <2> QED BY <1>1, <2>1 DEF cut
<1>4. CASE ~(i > k)
  <2>1. k > 0 /\ Len(cut) = MaxHistory
    BY <1>1, <1>2, <1>4
  <2>2. ASSUME NEW j \in 1 .. i, NEW l \in 1 .. Len(cut) PROVE cut[l].seq # log[j].seq
    <3>1. k + l \in 1 .. Len(log) /\ j \in 1 .. Len(log) /\ k + l # j
      BY <1>1, <1>4
    <3> HIDE DEF k
    <3> QED BY <1>1, <3>1 DEF Numbered
  <2> QED BY <2>1, <2>2 DEF Apart, cut
<1> QED BY <1>3, <1>4

\* A log that has been appended to is not evicted down to nothing.
LEMMA EvictedLast ==
  ASSUME NEW log \in Seq(LogEntries), NEW e \in LogEntries
  PROVE  \E j \in 1 .. Len(Evicted(Append(log, e))) : Evicted(Append(log, e))[j].seq = e.seq
<1> DEFINE all == Append(log, e)
           cut == Evicted(all)
<1>1. all \in Seq(LogEntries) /\ Len(all) = Len(log) + 1 /\ Len(log) \in Nat /\ all[Len(log) + 1] = e
  OBVIOUS
<1> HIDE DEF all
<1>2. /\ cut \in Seq(LogEntries) /\ Len(cut) <= Len(all)
      /\ \A i \in 1 .. Len(cut) : cut[i] = all[Len(all) - Len(cut) + i]
  BY <1>1, EvictedSuffix
<1>3. Len(cut) > 0
  <2>1. MaxHistory \in Nat /\ MaxHistory > 0
    BY BoundsAssumption
  <2>2. CASE Len(all) <= MaxHistory
    BY <1>1, <2>2 DEF Evicted
  <2>3. CASE ~(Len(all) <= MaxHistory)
    <3>1. Len(all) - MaxHistory + 1 \in 1 .. Len(all) /\ Len(all) \in Nat
      BY <1>1, <2>1, <2>3
    <3>2. cut = SubSeq(all, Len(all) - MaxHistory + 1, Len(all))
      BY <2>3 DEF Evicted
    <3> QED BY <1>1, <2>1, <3>1, <3>2
  <2> QED BY <2>2, <2>3
<1> HIDE DEF cut
<1>4. Len(cut) \in 1 .. Len(cut) /\ Len(all) - Len(cut) + Len(cut) = Len(log) + 1
  BY <1>1, <1>2, <1>3
<1>5. cut[Len(cut)] = e
  BY <1>1, <1>2, <1>4
<1> QED BY <1>4, <1>5 DEF cut, all

\* Where a number is held.
LEMMA HeldWhere ==
  \A n : n \in HeldNumbers <=>
    \/ \E i \in 1 .. Len(history) : history[i].seq = n
    \/ \E t \in Tasks : pc[t] = "patch_history" /\ entry[t].seq = n
BY DEF HeldNumbers

\* Every section, by what it does to the numbers.
LEMMA StepLosesNone ==
  ASSUME NumberingInv, Next, NEW n \in HeldNumbers \cup (seqno + 1 .. seqno')
  PROVE  n \in HeldNumbers' \/ PushedOut(n) \/ DroppedWith(n)
<1>t. TypeOK
  BY DEF NumberingInv
<1>p. /\ pc \in [Tasks -> PCs] /\ entry \in [Tasks -> LogEntries]
      /\ seqno \in Nat /\ history \in Seq(LogEntries)
      /\ \A u \in Tasks : entry[u].seq \in Nat
  <2>1. \A x \in LogEntries : x.seq \in Nat
    BY DEF LogEntries
  <2> QED BY <1>t, <2>1 DEF TypeOK
<1>n. Numbered(history, seqno) /\ PatchesNumbered
  BY DEF NumberingInv
<1>h. \/ \E i \in 1 .. Len(history) : history[i].seq = n
      \/ \E t \in Tasks : pc[t] = "patch_history" /\ entry[t].seq = n
      \/ n \in seqno + 1 .. seqno'
  BY HeldWhere
<1>q. n \in HeldNumbers' <=>
        \/ \E i \in 1 .. Len(history') : history'[i].seq = n
        \/ \E t \in Tasks : pc'[t] = "patch_history" /\ entry'[t].seq = n
  BY DEF HeldNumbers
\* What the log and the patches held they hold still.
<1>0. ASSUME UNCHANGED <<seqno, history>>,
             \A t \in Tasks : pc[t] = "patch_history" => pc'[t] = "patch_history" /\ entry'[t] = entry[t]
      PROVE  n \in HeldNumbers'
  BY <1>0, <1>h, <1>p, <1>q
<1> USE DEF storeVars, lockVars, taskVars, Goto
<1>1. ASSUME NEW t \in Tasks, CallPatch(t) PROVE n \in HeldNumbers'
  BY <1>0, <1>1, <1>p DEF CallPatch
<1>2. ASSUME NEW t \in Tasks, PatchValues(t) PROVE n \in HeldNumbers'
  BY <1>0, <1>2, <1>p DEF PatchValues
<1>3. ASSUME NEW t \in Tasks, PatchSequence(t) PROVE n \in HeldNumbers'
  <2>1. /\ seqno' = seqno + 1 /\ history' = history /\ pc[t] = "patch_sequence"
        /\ entry' = [entry EXCEPT ![t] = Entry(seqno + 1, @.dim, @.before, @.after)]
        /\ pc' = [pc EXCEPT ![t] = "patch_history"]
    BY <1>3 DEF PatchSequence
  <2>2. pc'[t] = "patch_history" /\ entry'[t].seq = seqno + 1
    BY <1>p, <2>1 DEF Entry
  <2>3. \A u \in Tasks : pc[u] = "patch_history" => pc'[u] = "patch_history" /\ entry'[u] = entry[u]
    BY <1>p, <2>1
  <2>4. n \in seqno + 1 .. seqno' => n = seqno + 1
    BY <1>p, <2>1
  <2> QED BY <1>h, <1>q, <2>1, <2>2, <2>3, <2>4
<1>4. ASSUME NEW t \in Tasks, PatchHistory(t) PROVE n \in HeldNumbers' \/ PushedOut(n)
  <2> DEFINE pushed == Append(history, entry[t])
  <2>1. /\ history' = Evicted(pushed) /\ seqno' = seqno /\ entry' = entry
        /\ pc[t] = "patch_history" /\ pc' = [pc EXCEPT ![t] = "patch_row"]
    BY <1>4 DEF PatchHistory
  <2>2. /\ pushed \in Seq(LogEntries) /\ entry[t] \in LogEntries /\ Len(history) \in Nat
        /\ Len(pushed) = Len(history) + 1 /\ \A i \in 1 .. Len(history) : pushed[i] = history[i]
    BY <1>p
  <2>3. Numbered(pushed, seqno)
    BY <1>p, <1>n, <2>1, <2>2, AppendNumbers DEF PatchesNumbered
  <2>4. \A u \in Tasks : pc'[u] = "patch_history" <=> u # t /\ pc[u] = "patch_history"
    BY <1>p, <2>1
  <2>5. \E j \in 1 .. Len(history') : history'[j].seq = entry[t].seq
    BY <1>p, <2>1, <2>2, EvictedLast
  <2> HIDE DEF pushed
  <2>6. CASE \E u \in Tasks : pc[u] = "patch_history" /\ entry[u].seq = n
    BY <1>q, <2>1, <2>4, <2>5, <2>6
  <2>7. CASE n \in seqno + 1 .. seqno'
    BY <1>p, <2>1, <2>7
  <2>8. ASSUME NEW i \in 1 .. Len(history), history[i].seq = n PROVE n \in HeldNumbers' \/ PushedOut(n)
    <3>1. i \in 1 .. Len(pushed) /\ pushed[i] = history[i]
          /\ \A j \in 1 .. i : j \in 1 .. Len(history) /\ pushed[j] = history[j]
      BY <2>2
    <3>2. \/ \E j \in 1 .. Len(history') : history'[j].seq = n
          \/ Len(history') = MaxHistory /\ \A j \in 1 .. i : Apart(history', pushed[j].seq)
      BY <1>p, <2>1, <2>2, <2>3, <2>8, <3>1, EvictedOldest
    <3>3. ASSUME \A j \in 1 .. i : Apart(history', pushed[j].seq), NEW j \in 1 .. i
          PROVE  history[j].seq \notin HeldNumbers'
      <4>1. Apart(history', history[j].seq)
        BY <3>1, <3>3
      <4>2. \A u \in Tasks : pc[u] = "patch_history" => entry[u].seq # history[j].seq
        BY <1>n, <3>1 DEF PatchesNumbered, Apart
      <4> QED BY <2>1, <2>4, <4>1, <4>2 DEF HeldNumbers, Apart
    <3> QED BY <1>q, <2>8, <3>2, <3>3 DEF PushedOut
  <2> QED BY <1>h, <2>6, <2>7, <2>8
<1>5. ASSUME NEW t \in Tasks, PatchRow(t) PROVE n \in HeldNumbers'
  BY <1>0, <1>5, <1>p DEF PatchRow
<1>6. ASSUME NEW t \in Tasks, DropPatch(t) PROVE n \in HeldNumbers' \/ DroppedWith(n)
  <2>1. /\ t \in Droppable /\ seqno' = seqno /\ history' = history /\ pc'[t] = "idle"
        /\ \A u \in Tasks \ {t} : pc'[u] = pc[u] /\ entry'[u] = entry[u]
    BY <1>6, <1>p DEF DropPatch, Return
  <2>2. CASE pc[t] = "patch_history" /\ entry[t].seq = n
    BY <2>1, <2>2 DEF DroppedWith
  <2>3. CASE ~(pc[t] = "patch_history" /\ entry[t].seq = n)
    BY <1>h, <1>p, <1>q, <2>1, <2>3
  <2> QED BY <2>2, <2>3
<1>7. ASSUME NEW t \in Tasks, CallBatch(t) PROVE n \in HeldNumbers'
  BY <1>0, <1>7, <1>p DEF CallBatch
<1>8. ASSUME NEW t \in Tasks, BatchLockValues(t) PROVE n \in HeldNumbers'
  BY <1>0, <1>8, <1>p DEF BatchLockValues
<1>9. ASSUME NEW t \in Tasks, BatchLockLog(t) PROVE n \in HeldNumbers'
  BY <1>0, <1>9, <1>p DEF BatchLockLog
<1>10. ASSUME NEW t \in Tasks, BatchItem(t) PROVE n \in HeldNumbers'
  <2>1. pc' = pc /\ entry' = entry
    BY <1>10 DEF BatchItem
  <2>2. CASE UNCHANGED <<seqno, history>>
    BY <1>0, <2>1, <2>2
  <2>3. CASE \E e \in LogEntries : /\ e.seq = seqno + 1 /\ seqno' = seqno + 1
                                   /\ history' = Append(history, e)
    <3>1. PICK e \in LogEntries : /\ e.seq = seqno + 1 /\ seqno' = seqno + 1
                                  /\ history' = Append(history, e)
      BY <2>3
    <3>2. /\ Len(history') = Len(history) + 1 /\ Len(history) \in Nat
          /\ history'[Len(history) + 1] = e /\ \A i \in 1 .. Len(history) : history'[i] = history[i]
      BY <1>p, <3>1
    <3>3. Len(history) + 1 \in 1 .. Len(history') /\ 1 .. Len(history) \subseteq 1 .. Len(history')
      BY <3>2
    <3>4. n \in seqno + 1 .. seqno' => n = seqno + 1
      BY <1>p, <3>1
    <3> QED BY <1>h, <1>q, <2>1, <3>1, <3>2, <3>3, <3>4
  <2> DEFINE d == Head(todo[t]).dim
             after == IF t \in DriftWorkers THEN DriftTarget(d, values[d])
                      ELSE EventTarget(d, values[d], Head(todo[t]).delta)
             new == Entry(seqno + 1, d, values[d], after)
  <2>4. \/ UNCHANGED <<seqno, history>>
        \/ seqno' = seqno + 1 /\ history' = Append(history, new)
    BY <1>10 DEF BatchItem
  <2>5. new \in LogEntries
    BY <1>10, <1>t, BatchEntryTyped DEF BatchItem
  <2>6. new.seq = seqno + 1
    BY DEF Entry
  <2> HIDE DEF new
  <2> QED BY <2>2, <2>3, <2>4, <2>5, <2>6
<1>11. ASSUME NEW t \in Tasks, BatchEnd(t) PROVE n \in HeldNumbers' \/ PushedOut(n)
  <2>1. /\ history' = Evicted(history) /\ seqno' = seqno /\ entry' = entry
        /\ \A u \in Tasks : pc'[u] = "patch_history" <=> pc[u] = "patch_history"
    BY <1>11, <1>p DEF BatchEnd
  <2>2. CASE \E u \in Tasks : pc[u] = "patch_history" /\ entry[u].seq = n
    BY <1>q, <2>1, <2>2
  <2>3. CASE n \in seqno + 1 .. seqno'
    BY <1>p, <2>1, <2>3
  <2>4. ASSUME NEW i \in 1 .. Len(history), history[i].seq = n PROVE n \in HeldNumbers' \/ PushedOut(n)
    <3>1. \/ \E j \in 1 .. Len(history') : history'[j].seq = n
          \/ Len(history') = MaxHistory /\ \A j \in 1 .. i : Apart(history', history[j].seq)
      BY <1>n, <1>p, <2>1, <2>4, EvictedOldest
    <3>2. ASSUME \A j \in 1 .. i : Apart(history', history[j].seq), NEW j \in 1 .. i
          PROVE  history[j].seq \notin HeldNumbers'
      <4>1. j \in 1 .. Len(history)
        BY <1>p
      <4>2. \A u \in Tasks : pc[u] = "patch_history" => entry[u].seq # history[j].seq
        BY <1>n, <4>1 DEF PatchesNumbered, Apart
      <4> QED BY <2>1, <3>2, <4>2 DEF HeldNumbers, Apart
    <3> QED BY <1>q, <2>4, <3>1, <3>2 DEF PushedOut
  <2> QED BY <1>h, <2>2, <2>3, <2>4
<1>12. ASSUME NEW t \in Tasks, RecordMetrics(t) PROVE n \in HeldNumbers'
  BY <1>0, <1>12, <1>p DEF RecordMetrics, Return
<1>13. ASSUME NEW t \in Tasks, DeriveRead(t) PROVE n \in HeldNumbers'
  BY <1>0, <1>13, <1>p DEF DeriveRead
<1>14. ASSUME NEW t \in Tasks, DeriveWrite(t) PROVE n \in HeldNumbers'
  BY <1>0, <1>14, <1>p DEF DeriveWrite, Return
<1>15. ASSUME NEW t \in Tasks, DeriveMetrics(t) PROVE n \in HeldNumbers'
  BY <1>0, <1>15, <1>p DEF DeriveMetrics, Return
<1>16. CASE Finished
  BY <1>0, <1>16 DEF Finished, vars
<1> QED
  BY <1>1, <1>2, <1>3, <1>4, <1>5, <1>6, <1>7, <1>8, <1>9, <1>10, <1>11, <1>12,
     <1>13, <1>14, <1>15, <1>16 DEF Next, Step

\* Whatever patches and batches overlap, a number once given stays with a change
\* until newer ones have pushed it out of a full log, or the patch that holds it
\* is dropped between its two sections (patch_manual, apply_event_deltas).
THEOREM NumbersAreKept == Spec => NoNumberLost
<1>1. NumberingInv /\ [Next]_vars =>
        [\A n \in HeldNumbers \cup (seqno + 1 .. seqno') :
           n \in HeldNumbers' \/ PushedOut(n) \/ DroppedWith(n)]_vars
  BY StepLosesNone
<1> QED BY InitNumbered, StepNumbered, <1>1, PTL DEF Spec, NoNumberLost

-----------------------------------------------------------------------------
(* The log of the batches *)

\* Eviction keeps a log of consecutive numbers that ends at the counter.
LEMMA EvictedInOrder ==
  ASSUME NEW log \in Seq(LogEntries), NEW n \in Nat,
         \A i \in 1 .. Len(log) : log[i].seq = n - Len(log) + i
  PROVE  \A i \in 1 .. Len(Evicted(log)) : Evicted(log)[i].seq = n - Len(Evicted(log)) + i
<1> DEFINE cut == Evicted(log)
           k == Len(log) - Len(cut)
<1>1. /\ Len(cut) \in Nat /\ Len(cut) <= Len(log) /\ Len(log) \in Nat
      /\ \A i \in 1 .. Len(cut) : cut[i] = log[k + i]
  BY EvictedSuffix
<1> HIDE DEF cut
<1>2. \A i \in 1 .. Len(cut) : k + i \in 1 .. Len(log) /\ n - Len(log) + (k + i) = n - Len(cut) + i
  BY <1>1
<1> QED BY <1>1, <1>2 DEF cut

\* Eviction keeps a log that explains the values.
LEMMA EvictedExplains ==
  ASSUME NEW log \in Seq(LogEntries), NEW vals, Explains(log, vals)
  PROVE  Explains(Evicted(log), vals)
<1> DEFINE cut == Evicted(log)
           s == Len(log) - Len(cut)
<1>1. /\ Len(cut) \in Nat /\ Len(cut) <= Len(log) /\ Len(log) \in Nat
      /\ \A i \in 1 .. Len(cut) : cut[i] = log[s + i]
  BY EvictedSuffix
<1> HIDE DEF cut
<1>2. s \in Nat /\ Len(log) = s + Len(cut)
  BY <1>1
<1> HIDE DEF s
<1> SUFFICES ASSUME NEW i \in 1 .. Len(cut)
             PROVE  /\ LaterChanges(cut, i) = {} => cut[i].after = vals[cut[i].dim]
                    /\ \A j \in LaterChanges(cut, i) :
                         (\A k \in LaterChanges(cut, i) : j <= k) => cut[i].after = cut[j].before
  BY DEF Explains, cut
<1>3. s + i \in 1 .. Len(log)
  BY <1>1, <1>2
<1>4. \A j \in LaterChanges(cut, i) : s + j \in LaterChanges(log, s + i) /\ j \in 1 .. Len(cut)
  BY <1>1, <1>2 DEF LaterChanges
<1>5. \A j \in LaterChanges(log, s + i) : j \in Nat /\ j - s \in LaterChanges(cut, i)
  <2> SUFFICES ASSUME NEW j \in LaterChanges(log, s + i)
               PROVE  j \in Nat /\ j - s \in LaterChanges(cut, i)
    OBVIOUS
  <2>1. j \in s + i + 1 .. Len(log) /\ log[j].dim = log[s + i].dim
    BY DEF LaterChanges
  <2>2. j - s \in i + 1 .. Len(cut) /\ j - s \in 1 .. Len(cut) /\ s + (j - s) = j /\ j \in Nat
    BY <1>2, <2>1
  <2>3. cut[j - s] = log[j] /\ cut[i] = log[s + i]
    BY <1>1, <2>2
  <2> QED BY <2>1, <2>2, <2>3 DEF LaterChanges
<1>6. LaterChanges(cut, i) = {} => cut[i].after = vals[cut[i].dim]
  BY <1>1, <1>3, <1>5 DEF Explains
<1>7. ASSUME NEW j \in LaterChanges(cut, i), \A k \in LaterChanges(cut, i) : j <= k
      PROVE  cut[i].after = cut[j].before
  <2>1. s + j \in LaterChanges(log, s + i) /\ cut[j] = log[s + j] /\ j \in Nat
    BY <1>1, <1>4
  <2>2. \A k \in LaterChanges(log, s + i) : s + j <= k
    BY <1>2, <1>5, <1>7, <2>1
  <2>3. log[s + i].after = log[s + j].before
    BY <1>3, <2>1, <2>2 DEF Explains
  <2> QED BY <1>1, <2>1, <2>3
<1> QED BY <1>6, <1>7

\* Appending the change that is made to a value keeps the log explaining the values.
LEMMA AppendExplains ==
  ASSUME NEW log \in Seq(LogEntries), NEW vals \in [Dims -> Int], Explains(log, vals),
         NEW e \in LogEntries, e.before = vals[e.dim]
  PROVE  Explains(Append(log, e), [vals EXCEPT ![e.dim] = e.after])
<1> DEFINE long == Append(log, e)
           n == Len(log)
<1>1. /\ n \in Nat /\ Len(long) = n + 1 /\ long[n + 1] = e
      /\ \A i \in 1 .. n : long[i] = log[i] /\ log[i].dim \in Dims
  <2>1. \A x \in LogEntries : x.dim \in Dims
    BY DEF LogEntries
  <2> QED BY <2>1
<1>0. e.dim \in Dims
  BY DEF LogEntries
<1> HIDE DEF long, n
<1> SUFFICES ASSUME NEW i \in 1 .. n + 1
             PROVE  /\ LaterChanges(long, i) = {} =>
                         long[i].after = [vals EXCEPT ![e.dim] = e.after][long[i].dim]
                    /\ \A j \in LaterChanges(long, i) :
                         (\A k \in LaterChanges(long, i) : j <= k) => long[i].after = long[j].before
  BY <1>1 DEF Explains, long
<1>2. CASE i = n + 1
  <2>1. LaterChanges(long, i) = {}
    BY <1>1, <1>2 DEF LaterChanges
  <2> QED BY <1>0, <1>1, <1>2, <2>1
<1>3. CASE i \in 1 .. n
  <2>1. \A j \in 1 .. n : j \in LaterChanges(long, i) <=> j \in LaterChanges(log, i)
    BY <1>1, <1>3 DEF LaterChanges, n
  <2>2. n + 1 \in LaterChanges(long, i) <=> log[i].dim = e.dim
    BY <1>1, <1>3 DEF LaterChanges
  <2>3. LaterChanges(long, i) \subseteq 1 .. n + 1 /\ LaterChanges(log, i) \subseteq 1 .. n
    BY <1>1, <1>3 DEF LaterChanges, n
  <2>4. \A j \in LaterChanges(long, i) : j # n + 1 => j \in 1 .. n
    BY <1>1, <2>3
  <2>5. CASE log[i].dim # e.dim
    <3>1. LaterChanges(long, i) = LaterChanges(log, i)
      BY <2>1, <2>2, <2>3, <2>4, <2>5
    <3>2. \A j \in LaterChanges(log, i) : long[j] = log[j]
      BY <1>1, <2>3
    <3>3. [vals EXCEPT ![e.dim] = e.after][log[i].dim] = vals[log[i].dim]
      BY <1>1, <1>3, <2>5
    <3> QED BY <1>1, <1>3, <3>1, <3>2, <3>3 DEF Explains, n
  <2>6. CASE log[i].dim = e.dim /\ LaterChanges(log, i) = {}
    <3>1. LaterChanges(long, i) = {n + 1}
      BY <2>1, <2>2, <2>3, <2>4, <2>6
    <3>2. log[i].after = vals[e.dim]
      BY <1>3, <2>6 DEF Explains, n
    <3> QED BY <1>1, <1>3, <3>1, <3>2
  <2>7. CASE log[i].dim = e.dim /\ LaterChanges(log, i) # {}
    <3>1. ASSUME NEW j \in LaterChanges(long, i), \A k \in LaterChanges(long, i) : j <= k
          PROVE  long[i].after = long[j].before
      <4>1. PICK k \in LaterChanges(log, i) : TRUE
        BY <2>7
      <4>2. k \in 1 .. n /\ k \in LaterChanges(long, i) /\ j <= k
        BY <2>1, <2>3, <3>1
      <4>3. j \in 1 .. n /\ j \in LaterChanges(log, i)
        BY <1>1, <2>1, <2>3, <4>2
      <4>4. \A m \in LaterChanges(log, i) : j <= m
        BY <2>1, <2>3, <3>1
      <4>5. log[i].after = log[j].before
        BY <1>3, <4>3, <4>4 DEF Explains, n
      <4> QED BY <1>1, <1>3, <4>3, <4>5
    <3>2. LaterChanges(long, i) # {}
      BY <2>2, <2>7
    <3> QED BY <3>1, <3>2
  <2> QED BY <2>5, <2>6, <2>7
<1> QED BY <1>1, <1>2, <1>3

\* Without patchers no patch is called.
LEMMA InsideBatches ==
  ASSUME NEW t \in Tasks, Patchers = {}
  PROVE  ~(CallPatch(t) \/ DropPatch(t))
BY TasksAssumption DEF CallPatch, DropPatch

\* While only batches run, no call is inside patch_manual and the log is the
\* last changes, in order and explaining the values of the base dimensions.
BatchLogInv ==
  /\ TypeOK
  /\ \A t \in Tasks : pc[t] \notin {"patch_values", "patch_sequence", "patch_history"}
  /\ \A t \in Tasks : todo[t] \in Seq([dim : BaseDims, delta : Int])
  /\ \A i \in 1 .. Len(history) : history[i].dim \in BaseDims
  /\ HistoryIsLastChanges
  /\ LogExplainsValues

\* Values outside the base dimensions do not matter to a log about those.
LEMMA ExplainsBase ==
  ASSUME NEW log, NEW v, NEW w, Explains(log, v),
         \A i \in 1 .. Len(log) : log[i].dim \in BaseDims,
         \A d \in BaseDims : w[d] = v[d]
  PROVE  Explains(log, w)
BY DEF Explains

\* Steps that leave the log, the numbering and the base values alone keep the batches' log.
LEMMA BatchLogFrame ==
  ASSUME BatchLogInv, TypeOK', UNCHANGED <<seqno, history>>,
         \A d \in BaseDims : values'[d] = values[d],
         \A t \in Tasks : /\ pc'[t] \notin {"patch_values", "patch_sequence", "patch_history"}
                          /\ todo'[t] \in Seq([dim : BaseDims, delta : Int])
  PROVE  BatchLogInv'
<1>1. Explains(history, values')
  BY ExplainsBase DEF BatchLogInv, LogExplainsValues
<1> QED BY <1>1 DEF BatchLogInv, HistoryIsLastChanges, LogExplainsValues

\* Every section keeps the batches' log.
LEMMA StepBatchLog ==
  ASSUME Patchers = {}, \A b \in DeltaBatches : b \in Seq([dim : BaseDims, delta : Int]),
         BatchLogInv, [Next]_vars
  PROVE  BatchLogInv'
<1> DEFINE BaseItems == [dim : BaseDims, delta : Int]
           outside == {"patch_values", "patch_sequence", "patch_history"}
<1>t. TypeOK /\ TypeOK'
  BY StepTyped DEF BatchLogInv
<1>p. /\ pc \in [Tasks -> PCs] /\ todo \in [Tasks -> Seq(Items)]
      /\ values \in [Dims -> Int] /\ seqno \in Nat /\ history \in Seq(LogEntries)
  BY <1>t DEF TypeOK
<1>q. \A t \in Tasks : pc[t] \notin outside /\ todo[t] \in Seq(BaseItems)
  BY DEF BatchLogInv
<1> HIDE DEF BaseItems
<1> USE DEF storeVars, lockVars, taskVars, Goto
<1>1. ASSUME NEW t \in Tasks,
             PatchValues(t) \/ PatchSequence(t) \/ PatchHistory(t)
      PROVE  FALSE
  BY <1>1, <1>q DEF PatchValues, PatchSequence, PatchHistory
<1>2. ASSUME NEW t \in Tasks,
             \/ PatchRow(t) \/ BatchLockValues(t) \/ BatchLockLog(t) \/ RecordMetrics(t)
             \/ DeriveRead(t) \/ DeriveMetrics(t)
      PROVE  BatchLogInv'
  <2>1. UNCHANGED <<seqno, history, values, todo>>
    BY <1>2 DEF PatchRow, BatchLockValues, BatchLockLog, RecordMetrics, DeriveRead, DeriveMetrics
  <2>2. \A u \in Tasks : pc'[u] = pc[u] \/ pc'[u] \in {"metrics", "batch_log", "batch_items",
                                          "idle", "derive_read", "derive_write"}
    BY <1>2, <1>p DEF PatchRow, BatchLockValues, BatchLockLog, RecordMetrics, DeriveRead,
                      DeriveMetrics, Return
  <2>3. \A u \in Tasks : pc'[u] \notin outside
    BY <1>q, <2>2
  <2> QED BY <1>t, <1>q, <2>1, <2>3, BatchLogFrame DEF BaseItems
<1>3. ASSUME NEW t \in Tasks, DeriveWrite(t) PROVE BatchLogInv'
  <2>1. UNCHANGED <<seqno, history, todo>> /\ \A d \in BaseDims : values'[d] = values[d]
    BY <1>3, SchemaAssumption DEF DeriveWrite, Dims
  <2>2. \A u \in Tasks : pc'[u] \notin outside
    BY <1>3, <1>p, <1>q DEF DeriveWrite, Return
  <2> QED BY <1>t, <1>q, <2>1, <2>2, BatchLogFrame DEF BaseItems
<1>4. ASSUME NEW t \in Tasks, CallBatch(t) PROVE BatchLogInv'
  <2>1. DriftItems \in Seq(BaseItems)
    BY SchemaAssumption DEF DriftItems, BaseItems
  <2>2. UNCHANGED <<seqno, history, values>> /\ pc' = [pc EXCEPT ![t] = "batch_values"]
    BY <1>4 DEF CallBatch
  <2>3. \/ \E b \in DeltaBatches : todo' = [todo EXCEPT ![t] = b]
        \/ todo' = [todo EXCEPT ![t] = DriftItems]
    BY <1>4 DEF CallBatch
  <2>4. \A u \in Tasks : pc'[u] \notin outside /\ todo'[u] \in Seq(BaseItems)
    BY <1>p, <1>q, <2>1, <2>2, <2>3 DEF BaseItems
  <2> QED BY <1>t, <2>2, <2>4, BatchLogFrame DEF BaseItems
<1>5. ASSUME NEW t \in Tasks, BatchEnd(t) PROVE BatchLogInv'
  <2>1. history' = Evicted(history) /\ UNCHANGED <<seqno, values, todo>>
    BY <1>5 DEF BatchEnd
  <2>2. \A u \in Tasks : pc'[u] \notin outside
    BY <1>5, <1>p, <1>q DEF BatchEnd
  <2>3. HistoryIsLastChanges'
    BY <1>p, <2>1, EvictedInOrder DEF BatchLogInv, HistoryIsLastChanges
  <2>4. LogExplainsValues'
    BY <1>p, <2>1, EvictedExplains DEF BatchLogInv, LogExplainsValues
  <2>5. \A i \in 1 .. Len(history') : history'[i].dim \in BaseDims
    <3>1. /\ Len(history') \in Nat /\ Len(history') <= Len(history) /\ Len(history) \in Nat
          /\ \A i \in 1 .. Len(history') : history'[i] = history[Len(history) - Len(history') + i]
      BY <1>p, <2>1, EvictedSuffix
    <3>2. \A i \in 1 .. Len(history') : Len(history) - Len(history') + i \in 1 .. Len(history)
      BY <3>1
    <3> QED BY <3>1, <3>2 DEF BatchLogInv
  <2> QED BY <1>t, <1>q, <2>1, <2>2, <2>3, <2>4, <2>5 DEF BatchLogInv, BaseItems
<1>6. ASSUME NEW t \in Tasks, BatchItem(t) PROVE BatchLogInv'
  <2> DEFINE d == Head(todo[t]).dim
             after == IF t \in DriftWorkers THEN DriftTarget(d, values[d])
                      ELSE EventTarget(d, values[d], Head(todo[t]).delta)
             new == Entry(seqno + 1, d, values[d], after)
  <2>1. todo[t] # <<>> /\ pc' = pc /\ todo' = [todo EXCEPT ![t] = Tail(@)]
    BY <1>6 DEF BatchItem
  <2>2. Head(todo[t]) \in BaseItems /\ Tail(todo[t]) \in Seq(BaseItems)
    BY <1>q, <2>1
  <2>3. d \in BaseDims /\ new \in LogEntries
    BY <1>t, <2>1, <2>2, BatchEntryTyped DEF BaseItems
  <2>4. new.seq = seqno + 1 /\ new.dim = d /\ new.before = values[d] /\ new.after = after
    BY DEF Entry
  <2>5. \/ UNCHANGED <<values, seqno, history>>
        \/ /\ values' = [values EXCEPT ![d] = after]
           /\ seqno' = seqno + 1
           /\ history' = Append(history, new)
    BY <1>6 DEF BatchItem
  <2> HIDE DEF d, after, new
  <2>6. \A u \in Tasks : pc'[u] \notin outside /\ todo'[u] \in Seq(BaseItems)
    BY <1>p, <1>q, <2>1, <2>2
  <2>7. CASE UNCHANGED <<values, seqno, history>>
    BY <1>t, <2>6, <2>7, BatchLogFrame DEF BaseItems
  <2>8. CASE /\ values' = [values EXCEPT ![d] = after]
             /\ seqno' = seqno + 1
             /\ history' = Append(history, new)
    <3>1. /\ Len(history) \in Nat /\ Len(history') = Len(history) + 1
          /\ history'[Len(history) + 1] = new
          /\ \A i \in 1 .. Len(history) : history'[i] = history[i]
      BY <1>p, <2>3, <2>8
    <3>2. \A i \in 1 .. Len(history') : i \in 1 .. Len(history) \/ i = Len(history) + 1
      BY <3>1
    <3>3. \A i \in 1 .. Len(history') : history'[i].dim \in BaseDims
      BY <2>3, <2>4, <3>1, <3>2 DEF BatchLogInv
    <3>4. HistoryIsLastChanges'
      BY <1>p, <2>4, <2>8, <3>1, <3>2 DEF BatchLogInv, HistoryIsLastChanges
    <3>5. LogExplainsValues'
      BY <1>p, <2>3, <2>4, <2>8, AppendExplains DEF BatchLogInv, LogExplainsValues
    <3> QED BY <1>t, <2>6, <3>3, <3>4, <3>5 DEF BatchLogInv, BaseItems
  <2> QED BY <2>5, <2>7, <2>8
<1>7. CASE UNCHANGED vars
  BY <1>7, <1>t, <1>q, BatchLogFrame DEF vars, BaseItems
<1> QED
  BY <1>1, <1>2, <1>3, <1>4, <1>5, <1>6, <1>7, InsideBatches DEF Next, Step, Finished

\* The batches' log starts empty.
LEMMA InitBatchLog == Init => BatchLogInv
<1> SUFFICES ASSUME Init PROVE BatchLogInv
  OBVIOUS
<1>1. history = <<>> /\ Len(history) = 0
  BY DEF Init
<1>2. 1 .. Len(history) = {}
  BY <1>1
<1>3. \A t \in Tasks : pc[t] = "idle" /\ todo[t] \in Seq([dim : BaseDims, delta : Int])
  BY DEF Init
<1>4. HistoryIsLastChanges /\ LogExplainsValues /\ \A i \in 1 .. Len(history) : history[i].dim \in BaseDims
  BY <1>2 DEF HistoryIsLastChanges, LogExplainsValues, Explains
<1> QED BY <1>3, <1>4, InitTyped DEF BatchLogInv

\* As long as nobody patches, the log is exactly the last changes, in order,
\* and replaying it leads to the live values.
THEOREM BatchLogFaithful ==
  ASSUME Patchers = {}, \A b \in DeltaBatches : b \in Seq([dim : BaseDims, delta : Int])
  PROVE  Spec => [](HistoryIsLastChanges /\ LogExplainsValues)
<1>1. BatchLogInv /\ [Next]_vars => BatchLogInv'
  BY StepBatchLog
<1>2. BatchLogInv => HistoryIsLastChanges /\ LogExplainsValues
  BY DEF BatchLogInv
<1> QED BY <1>1, <1>2, InitBatchLog, PTL DEF Spec
=============================================================================
