------------------------------ MODULE StateStore ------------------------------
(***************************************************************************)
(* The numeric state of the agent (libs/state/src/lib.rs, StateStore): the *)
(* live values, the numbered delta log, the update counters and the locks  *)
(* around them, under concurrent manual patches, event deltas and drift    *)
(* ticks.                                                                  *)
(*                                                                         *)
(* A section that takes a lock, awaits nothing and lets it go is one       *)
(* action.  A guard that lives across an await is a variable: the write    *)
(* guards of the batch operations, and the read guard of patch_manual,     *)
(* which is bound to a local and lives until the function returns.         *)
(* Values are integers in steps of 0.001, the drift cut-off of the code.   *)
(***************************************************************************)
EXTENDS Integers, Sequences, FiniteSets

CONSTANTS
  Patchers,     \* callers of patch_manual: API handlers, the /state command
  Droppable,    \* patchers whose future the HTTP server may drop midway
  EventWorkers, \* callers of apply_event_deltas
  DriftWorkers, \* callers of apply_drift_tick
  NoTask,       \* nobody holds the lock
  BaseDims,     \* dimensions the updates are about
  DerivedDims,  \* dimensions with update_mode "derived"
  RangeMin, RangeMax, Baseline, Default,
  MaxDelta,     \* max_delta_per_turn, 0 for no limit
  DriftDiv,     \* 1 / (decay_k * dt), rounded
  DriftOrder,   \* the drifting dimensions with decay_k > 0, in schema order
  Derive(_, _), \* the formula of a derived dimension over the base values
  PatchRequests,\* manual patches: records [dim, value]
  DeltaBatches, \* event deltas: sequences of records [dim, delta]
  MaxHistory,   \* capacity of the delta log (2000 in the code)
  MaxCalls      \* bound on the calls of a behaviour

Dims == BaseDims \cup DerivedDims
Tasks == Patchers \cup EventWorkers \cup DriftWorkers
RangeOf(d) == RangeMin[d] .. RangeMax[d]
BaseValuations ==
  {v \in [BaseDims -> UNION {RangeOf(d) : d \in BaseDims}] :
     \A d \in BaseDims : v[d] \in RangeOf(d)}
Items == [dim : Dims, delta : Int]

ASSUME TasksAssumption ==
  /\ Droppable \subseteq Patchers
  /\ Patchers \cap (EventWorkers \cup DriftWorkers) = {}
  /\ NoTask \notin Tasks
ASSUME SchemaAssumption ==
  /\ BaseDims # {} /\ BaseDims \cap DerivedDims = {}
  /\ IsFiniteSet(DerivedDims)
  /\ RangeMin \in [Dims -> Int] /\ RangeMax \in [Dims -> Int]
  /\ Baseline \in [Dims -> Int] /\ MaxDelta \in [Dims -> Nat]
  /\ DriftDiv \in [Dims -> Nat \ {0}]
  /\ DriftOrder \in Seq(BaseDims)
  /\ Default \in [Dims -> Int]
  /\ \A d \in Dims : Default[d] \in RangeOf(d)
ASSUME DeriveAssumption ==
  \A d \in DerivedDims : \A v \in BaseValuations : Derive(d, v) \in Int
ASSUME RequestsAssumption ==
  /\ \A r \in PatchRequests : r.dim \in Dims /\ r.value \in Int
  /\ \A b \in DeltaBatches : b \in Seq(Items)
ASSUME BoundsAssumption == MaxHistory \in Nat \ {0} /\ MaxCalls \in Nat

VARIABLES
  values,       \* the live value of every dimension
  seqno,        \* StateStore.sequence
  history,      \* StateStore.history, oldest entry first
  metrics,      \* updates counted: [logged, derived]
  valuesWriter, \* the task whose batch holds the write guard of values
  logWriter,    \* the task whose batch holds those of sequence and history
  rowGuard,     \* the patches that hold their read guard of values
  pc,           \* where a call of the task is
  entry,        \* patch_manual's log entry; `after` is first the request
  todo,         \* what the loop of a batch has left to do
  pending,      \* updates made and not yet counted in metrics
  computed,     \* recompute_derived's results, between its two sections
  calls         \* calls made so far

storeVars == <<values, seqno, history, metrics>>
lockVars == <<valuesWriter, logWriter, rowGuard>>
taskVars == <<pc, entry, todo, pending, computed>>
vars == <<storeVars, lockVars, taskVars, calls>>

LogEntries == [seq : Nat, dim : Dims, before : Int, after : Int]
Entry(n, d, b, a) == [seq |-> n, dim |-> d, before |-> b, after |-> a]
NoEntry == Entry(0, CHOOSE d \in BaseDims : TRUE, 0, 0)
NoComputed == [d \in DerivedDims |-> 0]
PCs == {"idle", "patch_values", "patch_sequence", "patch_history", "patch_row",
        "batch_values", "batch_log", "batch_items", "metrics",
        "derive_read", "derive_write", "derive_metrics"}

Init ==
  /\ values = Default
  /\ seqno = 0 /\ history = <<>>
  /\ metrics = [s \in {"logged", "derived"} |-> 0]
  /\ valuesWriter = NoTask /\ logWriter = NoTask /\ rowGuard = {}
  /\ pc = [t \in Tasks |-> "idle"]
  /\ entry = [t \in Tasks |-> NoEntry]
  /\ todo = [t \in Tasks |-> <<>>]
  /\ pending = [t \in Tasks |-> 0]
  /\ computed = [t \in Tasks |-> NoComputed]
  /\ calls = 0

-----------------------------------------------------------------------------
Clamp(d, x) == IF x < RangeMin[d] THEN RangeMin[d]
               ELSE IF x > RangeMax[d] THEN RangeMax[d] ELSE x

\* The most an event may move a dimension in one turn.
LimitDelta(d, x) == IF MaxDelta[d] = 0 THEN x
                    ELSE IF x > MaxDelta[d] THEN MaxDelta[d]
                    ELSE IF x < -MaxDelta[d] THEN -MaxDelta[d] ELSE x
\* Mutation: the range is not enforced on events.
EventTargetUnclamped(d, before, x) == before + LimitDelta(d, x)
EventTarget(d, before, x) == Clamp(d, before + LimitDelta(d, x))

\* A drift tick moves a fraction of the way to the baseline and snaps to it
\* when the move is below one unit.
DriftMove(d, before) == LET gap == Baseline[d] - before
                        IN  IF gap < 0 THEN -((-gap) \div DriftDiv[d])
                                       ELSE gap \div DriftDiv[d]
DriftTarget(d, before) ==
  LET moved == Clamp(d, before + DriftMove(d, before))
  IN  IF moved = before THEN Clamp(d, Baseline[d]) ELSE moved

\* Mutation: a full log keeps its oldest entries.
EvictedNewest(log) == IF Len(log) <= MaxHistory THEN log ELSE SubSeq(log, 1, MaxHistory)
\* The log with its oldest entries beyond the capacity dropped.
Evicted(log) == IF Len(log) <= MaxHistory THEN log
                ELSE SubSeq(log, Len(log) - MaxHistory + 1, Len(log))

BaseValues == [d \in BaseDims |-> values[d]]

CanWriteValues == valuesWriter = NoTask /\ rowGuard = {}
CanReadValues == valuesWriter = NoTask

Goto(t, label) == pc' = [pc EXCEPT ![t] = label]
\* A call returns: its locals, the row guard among them, are dropped.
Return(t) ==
  /\ Goto(t, "idle")
  /\ rowGuard' = rowGuard \ {t}
  /\ entry' = [entry EXCEPT ![t] = NoEntry]
  /\ computed' = [computed EXCEPT ![t] = NoComputed]

-----------------------------------------------------------------------------
(* patch_manual *)
CallPatch(t) ==
  /\ t \in Patchers /\ pc[t] = "idle" /\ calls < MaxCalls
  /\ \E r \in PatchRequests :
       entry' = [entry EXCEPT ![t] = Entry(0, r.dim, 0, r.value)]
  /\ Goto(t, "patch_values")
  /\ calls' = calls + 1
  /\ UNCHANGED <<storeVars, lockVars, todo, pending, computed>>

PatchValues(t) ==
  /\ pc[t] = "patch_values" /\ CanWriteValues
  /\ LET d == entry[t].dim
         after == Clamp(d, entry[t].after)
     IN  /\ entry' = [entry EXCEPT ![t] = Entry(0, d, values[d], after)]
         /\ values' = [values EXCEPT ![d] = after]
  /\ Goto(t, "patch_sequence")
  /\ UNCHANGED <<seqno, history, metrics, lockVars, todo, pending, computed, calls>>

\* Mutation: the entry takes the number read before the increment.
PatchSequenceStale(t) ==
  /\ pc[t] = "patch_sequence" /\ logWriter = NoTask
  /\ seqno' = seqno + 1
  /\ entry' = [entry EXCEPT ![t] = Entry(seqno, @.dim, @.before, @.after)]
  /\ Goto(t, "patch_history")
  /\ UNCHANGED <<values, history, metrics, lockVars, todo, pending, computed, calls>>

PatchSequence(t) ==
  /\ pc[t] = "patch_sequence" /\ logWriter = NoTask
  /\ seqno' = seqno + 1
  /\ entry' = [entry EXCEPT ![t] = Entry(seqno + 1, @.dim, @.before, @.after)]
  /\ Goto(t, "patch_history")
  /\ UNCHANGED <<values, history, metrics, lockVars, todo, pending, computed, calls>>

PatchHistory(t) ==
  /\ pc[t] = "patch_history" /\ logWriter = NoTask
  /\ history' = Evicted(Append(history, entry[t]))
  /\ Goto(t, "patch_row")
  /\ UNCHANGED <<values, seqno, metrics, lockVars, entry, todo, pending, computed, calls>>

\* The row for the reply is read; the read guard stays until the call returns.
PatchRow(t) ==
  /\ pc[t] = "patch_row" /\ CanReadValues
  /\ rowGuard' = rowGuard \cup {t}
  /\ pending' = [pending EXCEPT ![t] = 1]
  /\ Goto(t, "metrics")
  /\ UNCHANGED <<storeVars, valuesWriter, logWriter, entry, todo, computed, calls>>

\* The HTTP server drops the handler of a client that went away.
DropPatch(t) ==
  /\ t \in Droppable /\ pc[t] # "idle"
  /\ Return(t)
  /\ pending' = [pending EXCEPT ![t] = 0]
  /\ UNCHANGED <<storeVars, valuesWriter, logWriter, todo, calls>>

-----------------------------------------------------------------------------
(* apply_event_deltas and apply_drift_tick *)
DriftItems == [i \in 1 .. Len(DriftOrder) |-> [dim |-> DriftOrder[i], delta |-> 0]]

CallBatch(t) ==
  /\ pc[t] = "idle" /\ calls < MaxCalls
  /\ \/ t \in EventWorkers /\ \E b \in DeltaBatches : todo' = [todo EXCEPT ![t] = b]
     \/ t \in DriftWorkers /\ todo' = [todo EXCEPT ![t] = DriftItems]
  /\ Goto(t, "batch_values")
  /\ calls' = calls + 1
  /\ UNCHANGED <<storeVars, lockVars, entry, pending, computed>>

BatchLockValues(t) ==
  /\ pc[t] = "batch_values" /\ CanWriteValues
  /\ valuesWriter' = t
  /\ Goto(t, "batch_log")
  /\ UNCHANGED <<storeVars, logWriter, rowGuard, entry, todo, pending, computed, calls>>

BatchLockLog(t) ==
  /\ pc[t] = "batch_log" /\ logWriter = NoTask
  /\ logWriter' = t
  /\ Goto(t, "batch_items")
  /\ UNCHANGED <<storeVars, valuesWriter, rowGuard, entry, todo, pending, computed, calls>>

\* Mutation: the log records the request instead of the clamped value.
BatchItemLogsRequest(t) ==
  /\ pc[t] = "batch_items" /\ todo[t] # <<>>
  /\ LET d == Head(todo[t]).dim
         before == values[d]
         after == IF t \in DriftWorkers THEN DriftTarget(d, before)
                  ELSE EventTarget(d, before, Head(todo[t]).delta)
     IN  IF after = before
         THEN UNCHANGED <<values, seqno, history, pending>>
         ELSE /\ values' = [values EXCEPT ![d] = after]
              /\ seqno' = seqno + 1
              /\ history' = Append(history, Entry(seqno + 1, d, before,
                                                 before + Head(todo[t]).delta))
              /\ pending' = [pending EXCEPT ![t] = @ + 1]
  /\ todo' = [todo EXCEPT ![t] = Tail(@)]
  /\ UNCHANGED <<metrics, lockVars, pc, entry, computed, calls>>

\* Mutation: the loop does not advance past a request that changes nothing.
BatchItemStays(t) ==
  /\ pc[t] = "batch_items" /\ todo[t] # <<>>
  /\ LET d == Head(todo[t]).dim
         after == IF t \in DriftWorkers THEN DriftTarget(d, values[d])
                  ELSE EventTarget(d, values[d], Head(todo[t]).delta)
     IN  IF after = values[d]
         THEN UNCHANGED <<values, seqno, history, pending, todo>>
         ELSE /\ values' = [values EXCEPT ![d] = after]
              /\ seqno' = seqno + 1
              /\ history' = Append(history, Entry(seqno + 1, d, values[d], after))
              /\ pending' = [pending EXCEPT ![t] = @ + 1]
              /\ todo' = [todo EXCEPT ![t] = Tail(@)]
  /\ UNCHANGED <<metrics, lockVars, pc, entry, computed, calls>>

\* One turn of the loop over the requests, or over the drifting dimensions.
BatchItem(t) ==
  /\ pc[t] = "batch_items" /\ todo[t] # <<>>
  /\ LET d == Head(todo[t]).dim
         before == values[d]
         after == IF t \in DriftWorkers THEN DriftTarget(d, before)
                  ELSE EventTarget(d, before, Head(todo[t]).delta)
     IN  IF after = before
         THEN UNCHANGED <<values, seqno, history, pending>>
         ELSE /\ values' = [values EXCEPT ![d] = after]
              /\ seqno' = seqno + 1
              /\ history' = Append(history, Entry(seqno + 1, d, before, after))
              /\ pending' = [pending EXCEPT ![t] = @ + 1]
  /\ todo' = [todo EXCEPT ![t] = Tail(@)]
  /\ UNCHANGED <<metrics, lockVars, pc, entry, computed, calls>>

BatchEnd(t) ==
  /\ pc[t] = "batch_items" /\ todo[t] = <<>>
  /\ history' = Evicted(history)
  /\ valuesWriter' = NoTask /\ logWriter' = NoTask
  /\ Goto(t, IF pending[t] > 0 THEN "metrics" ELSE "idle")
  /\ UNCHANGED <<values, seqno, metrics, rowGuard, entry, todo, pending, computed, calls>>

-----------------------------------------------------------------------------
(* record_metrics and recompute_derived, the end of every update *)
RecordMetrics(t) ==
  /\ pc[t] = "metrics"
  /\ metrics' = [metrics EXCEPT !["logged"] = @ + pending[t]]
  /\ pending' = [pending EXCEPT ![t] = 0]
  /\ IF t \in Patchers /\ entry[t].dim \in DerivedDims
     THEN Return(t)
     ELSE Goto(t, "derive_read") /\ UNCHANGED <<rowGuard, entry, computed>>
  /\ UNCHANGED <<values, seqno, history, valuesWriter, logWriter, todo, calls>>

DeriveRead(t) ==
  /\ pc[t] = "derive_read" /\ CanReadValues
  /\ computed' = [computed EXCEPT ![t] = [d \in DerivedDims |-> Derive(d, BaseValues)]]
  /\ Goto(t, "derive_write")
  /\ UNCHANGED <<storeVars, lockVars, entry, todo, pending, calls>>

DeriveWrite(t) ==
  /\ pc[t] = "derive_write" /\ CanWriteValues
  /\ values' = [d \in Dims |-> IF d \in DerivedDims THEN Clamp(d, computed[t][d])
                                                    ELSE values[d]]
  /\ LET changed == {d \in DerivedDims : values'[d] # values[d]}
     IN  /\ pending' = [pending EXCEPT ![t] = Cardinality(changed)]
         /\ IF changed = {} THEN Return(t)
            ELSE Goto(t, "derive_metrics") /\ UNCHANGED <<rowGuard, entry, computed>>
  /\ UNCHANGED <<seqno, history, metrics, valuesWriter, logWriter, todo, calls>>

DeriveMetrics(t) ==
  /\ pc[t] = "derive_metrics"
  /\ metrics' = [metrics EXCEPT !["derived"] = @ + pending[t]]
  /\ pending' = [pending EXCEPT ![t] = 0]
  /\ Return(t)
  /\ UNCHANGED <<values, seqno, history, valuesWriter, logWriter, todo, calls>>

\* The bound is reached and every call has returned.
Finished ==
  /\ calls = MaxCalls /\ \A t \in Tasks : pc[t] = "idle"
  /\ UNCHANGED vars

Step(t) ==
  \/ PatchValues(t) \/ PatchSequence(t) \/ PatchHistory(t) \/ PatchRow(t)
  \/ BatchLockValues(t) \/ BatchLockLog(t) \/ BatchItem(t) \/ BatchEnd(t)
  \/ RecordMetrics(t) \/ DeriveRead(t) \/ DeriveWrite(t) \/ DeriveMetrics(t)

Next ==
  \/ \E t \in Tasks : CallPatch(t) \/ CallBatch(t) \/ DropPatch(t) \/ Step(t)
  \/ Finished

Spec == Init /\ [][Next]_vars
\* The runtime keeps polling a future that can make progress.
FairSpec == Spec /\ \A t \in Tasks : WF_vars(Step(t))

-----------------------------------------------------------------------------
(* Properties *)

\* Types; every value stays inside the range of its dimension, whichever of the
\* four writers (patch, event, drift, derivation) wrote it last.
TypeOK ==
  /\ values \in [Dims -> Int] /\ \A d \in Dims : values[d] \in RangeOf(d)
  /\ seqno \in Nat /\ history \in Seq(LogEntries)
  /\ metrics \in [{"logged", "derived"} -> Nat]
  /\ valuesWriter \in Tasks \cup {NoTask} /\ logWriter \in Tasks \cup {NoTask}
  /\ rowGuard \subseteq Tasks
  /\ pc \in [Tasks -> PCs]
  /\ entry \in [Tasks -> LogEntries]
  /\ todo \in [Tasks -> Seq(Items)]
  /\ pending \in [Tasks -> Nat]
  /\ computed \in [Tasks -> [DerivedDims -> Int]]
  /\ calls \in Nat

\* A number is given to one change only: the entries of the log, and those the
\* patches in flight have numbered and not yet pushed, never share one
\* (patch_manual numbers and pushes in two separate sections).
NumbersDistinct ==
  /\ \A i, j \in 1 .. Len(history) : i # j => history[i].seq # history[j].seq
  /\ \A t \in Tasks : pc[t] = "patch_history" =>
       /\ \A i \in 1 .. Len(history) : history[i].seq # entry[t].seq
       /\ \A u \in Tasks : pc[u] = "patch_history" /\ u # t => entry[u].seq # entry[t].seq

\* No number is lost: once given to a change it is in the log, or held by the
\* patch that will push it, until newer entries have pushed it out of a full log;
\* only a patch dropped between its two sections takes its number with it.
HeldNumbers ==
  {history[i].seq : i \in 1 .. Len(history)}
    \cup {entry[t].seq : t \in {u \in Tasks : pc[u] = "patch_history"}}
PushedOut(n) ==
  /\ Len(history') = MaxHistory
  /\ \E i \in 1 .. Len(history) :
       /\ history[i].seq = n
       /\ \A j \in 1 .. i : history[j].seq \notin HeldNumbers'
DroppedWith(n) ==
  \E t \in Droppable : pc[t] = "patch_history" /\ entry[t].seq = n /\ pc'[t] = "idle"
NoNumberLost ==
  [][\A n \in HeldNumbers \cup (seqno + 1 .. seqno') :
       n \in HeldNumbers' \/ PushedOut(n) \/ DroppedWith(n)]_vars

\* The log is the last changes, oldest first, with no number missing ("A rolling
\* log of the last 2,000 changes", state-system.md).
HistoryIsLastChanges ==
  \A i \in 1 .. Len(history) : history[i].seq = seqno - Len(history) + i

\* Replaying the log explains the values: what a change of a dimension leaves is
\* what the next change of it starts from, and the last one left the live value.
LaterChanges(log, i) == {j \in i + 1 .. Len(log) : log[j].dim = log[i].dim}
Explains(log, vals) ==
  \A i \in 1 .. Len(log) :
    /\ LaterChanges(log, i) = {} => log[i].after = vals[log[i].dim]
    /\ \A j \in LaterChanges(log, i) :
         (\A k \in LaterChanges(log, i) : j <= k) => log[i].after = log[j].before
LogExplainsValues == Explains(history, values)

\* Every call returns.
CallsReturn == \A t \in Tasks : pc[t] # "idle" ~> pc[t] = "idle"
=============================================================================
