--------------------------- MODULE AgentRuntimeProofs --------------------------
(***************************************************************************)
(* Theorems about AgentRuntime: its types, and that the bus tells every    *)
(* turn in order; and about one of its workers, the MCP server: that its   *)
(* web fetches keep to their limits.                                       *)
(*                                                                         *)
(* TurnsInOrder is about the bus alone and is not inductive: what the      *)
(* coordinator appends comes from the mailbox, what is in the mailbox from *)
(* a turn, and a turn from what the dialogue engine has read of the bus.   *)
(* IInv therefore says of each event in the mailbox what TurnsInOrder says *)
(* of one on the bus, of each turn which of its events it has sent, and of *)
(* the dialogue engine's cursor that it has passed the questions of all    *)
(* turns there are: none can start again.                                  *)
(*                                                                         *)
(* FetchIsBounded is inductive once it is said how many requests a page in *)
(* hand has behind it: FetchInv.                                           *)
(***************************************************************************)
EXTENDS AgentRuntime, SequenceTheorems, TLAPS

\* What a sender may send; workers announce themselves beside it.
Told == {Raw(r) : r \in Raws} \cup {Line(r, k) : r \in Raws, k \in 1 .. MaxLines}
          \cup {Completion(r) : r \in Raws}
AllOf(s) == {s[i] : i \in 1 .. Len(s)}
\* What is on the bus before position i, and what the bus will have told by the
\* time it tells what is at position i of the mailbox.
BusPast(i) == {bus[j] : j \in 1 .. i - 1}
MailPast(i) == AllOf(bus) \cup {mailbox[j] : j \in 1 .. i - 1}
Sent == AllOf(bus) \cup AllOf(mailbox)

\* What TurnsInOrder says of an event that comes after those of past.
Rightful(e, past) ==
  /\ e \notin past
  /\ e.kind = "response" =>
       Raw(e.of) \in past /\ \A k \in 1 .. e.line - 1 : Line(e.of, k) \in past
  /\ e.kind = "completion" => \A k \in 1 .. said[e.of] : Line(e.of, k) \in past

Contents ==
  /\ bus \in Seq(Told) /\ mailbox \in Seq(Told \cup {WorkerStarted})
  /\ MailboxClosed => mailbox = <<>>
BusInOrder == \A i \in 1 .. Len(bus) : Rightful(bus[i], BusPast(i))
MailInOrder ==
  \A i \in 1 .. Len(mailbox) : mailbox[i] \in Told => Rightful(mailbox[i], MailPast(i))
\* Which of its events each turn has sent; what it sends later may be lost.
Turn(r) ==
  /\ arrival[r] # "sent" => Raw(r) \notin Sent
  /\ turn[r] # "none" => \E i \in 1 .. cursor[Dialogue] : bus[i] = Raw(r)
  /\ turn[r] = "none" => said[r] = 0
  /\ turn[r] = "saying" => said[r] < MaxLines
  /\ turn[r] # "done" => Completion(r) \notin Sent
  /\ \A k \in 1 .. MaxLines : IF k <= said[r] THEN MailboxClosed \/ Line(r, k) \in Sent
                              ELSE Line(r, k) \notin Sent

IInv == TypeOK /\ Contents /\ BusInOrder /\ MailInOrder /\ \A r \in Raws : Turn(r)

-----------------------------------------------------------------------------
(* Events and sequences of events *)

LEMMA RawForm ==
  \A r \in Raws : /\ Raw(r) \in Told /\ Raw(r).kind = "raw" /\ Raw(r).of = r
                  /\ \A q \in Raws : Raw(q) = Raw(r) => q = r
<1>1. \A r \in Raws : Raw(r).kind = "raw" /\ Raw(r).of = r
  BY DEF Raw, Event
<1>2. \A r \in Raws : Raw(r) \in Told
  BY DEF Told
<1> QED BY <1>1, <1>2
LEMMA LineForm ==
  \A r \in Raws, k \in 1 .. MaxLines :
    Line(r, k) \in Told /\ Line(r, k).kind = "response" /\ Line(r, k).of = r /\ Line(r, k).line = k
BY DEF Line, Event, Told
LEMMA CompletionForm ==
  \A r \in Raws : Completion(r) \in Told /\ Completion(r).kind = "completion" /\ Completion(r).of = r
BY DEF Completion, Event, Told
LEMMA WorkerStartedForm ==
  WorkerStarted \notin Told /\ WorkerStarted.kind = "system" /\ WorkerStarted \in Events
<1>1. WorkerStarted.kind = "system" /\ WorkerStarted \in Events
  BY BoundsAssumption DEF WorkerStarted, Event, Events, Kinds
<1>2. \A e \in Told : e.kind # "system"
  BY DEF Told, Raw, Line, Completion, Event
<1> QED BY <1>1, <1>2
LEMMA ToldForm ==
  \A e \in Told : /\ e \in Events /\ e.of \in Raws /\ e.kind \in {"raw", "response", "completion"}
                  /\ e.kind = "raw" => e = Raw(e.of)
                  /\ e.kind = "response" => e.line \in 1 .. MaxLines /\ e = Line(e.of, e.line)
                  /\ e.kind = "completion" => e = Completion(e.of)
BY BoundsAssumption DEF Told, Raw, Line, Completion, Event, Events, Kinds, Raws

LEMMA Appended ==
  ASSUME NEW S, NEW s \in Seq(S), NEW x \in S
  PROVE  /\ Append(s, x) \in Seq(S) /\ Len(Append(s, x)) = Len(s) + 1 /\ Len(s) \in Nat
         /\ \A i \in 1 .. Len(s) : Append(s, x)[i] = s[i]
         /\ Append(s, x)[Len(s) + 1] = x
         /\ AllOf(Append(s, x)) = AllOf(s) \cup {x}
<1>1. /\ Append(s, x) \in Seq(S) /\ Len(Append(s, x)) = Len(s) + 1 /\ Len(s) \in Nat
      /\ \A i \in 1 .. Len(s) : Append(s, x)[i] = s[i]
      /\ Append(s, x)[Len(s) + 1] = x
  BY AppendProperties, LenProperties
<1> DEFINE t == Append(s, x)
<1> HIDE DEF t
<1>2. AllOf(t) = AllOf(s) \cup {x}
  BY <1>1 DEF AllOf, t
<1> QED BY <1>1, <1>2 DEF t

LEMMA HeadAndTail ==
  ASSUME NEW S, NEW s \in Seq(S), s # <<>>
  PROVE  /\ Tail(s) \in Seq(S) /\ Len(Tail(s)) = Len(s) - 1 /\ Len(s) \in Nat \ {0}
         /\ \A i \in 1 .. Len(s) - 1 : Tail(s)[i] = s[i + 1]
         /\ Head(s) = s[1] /\ Head(s) \in S
BY HeadTailProperties, LenProperties, ElementOfSeq

-----------------------------------------------------------------------------
(* Types *)

\* Sending keeps the mailbox within its capacity.
LEMMA SendTyped ==
  ASSUME TypeOK, NEW e \in Events, Send(e)
  PROVE  mailbox' \in Seq(Events) /\ Len(mailbox') <= MailboxCapacity
<1>1. mailbox \in Seq(Events) /\ Len(mailbox) <= MailboxCapacity /\ Len(mailbox) \in Nat
  BY LenProperties DEF TypeOK
<1>2. CASE mailbox' = Append(mailbox, e) /\ Len(mailbox) < MailboxCapacity
  <2>1. Append(mailbox, e) \in Seq(Events) /\ Len(Append(mailbox, e)) = Len(mailbox) + 1
    BY <1>1, Appended
  <2>2. Len(mailbox) + 1 <= MailboxCapacity
    BY <1>1, <1>2, CapacityAssumption
  <2> QED BY <1>2, <2>1, <2>2
<1> QED BY <1>1, <1>2 DEF Send

LEMMA MainTyped ==
  ASSUME TypeOK, MainStep \/ CtrlC PROVE TypeOK'
<1>1. CASE StartWorker
  <2>1. started + 1 \in 0 .. Len(Registered) /\ Registered[started + 1] \in Workers
    BY <1>1, WorkersAssumption DEF StartWorker, TypeOK, Workers
  <2>2. mailbox' \in Seq(Events) /\ Len(mailbox') <= MailboxCapacity
    BY <1>1, SendTyped, WorkerStartedForm DEF StartWorker
  <2>3. worker' \in [Workers -> {"registered", "starting", "listening", "exited", "stopped"}]
    BY <1>1, <2>1 DEF StartWorker, TypeOK
  <2> QED BY <1>1, <2>1, <2>2, <2>3 DEF StartWorker, TypeOK, turnVars
<1>2. CASE AllStarted \/ CtrlC \/ Exit \/ \E w \in Workers : Joined(w) \/ TimedOut(w)
  BY <1>2 DEF AllStarted, CtrlC, Exit, Joined, TimedOut, TypeOK, turnVars, workerVars, coordVars
<1> QED BY <1>1, <1>2 DEF MainStep

LEMMA CoordinatorTyped ==
  ASSUME TypeOK, CoordinatorStart \/ HandleEvent \/ CoordinatorStop PROVE TypeOK'
<1>1. CASE CoordinatorStart
  BY <1>1 DEF CoordinatorStart, TypeOK, mainVars, workerVars, turnVars
<1>2. CASE HandleEvent
  <2>1. mailbox \in Seq(Events) /\ mailbox # <<>> /\ bus \in Seq(Events)
        /\ Len(mailbox) <= MailboxCapacity /\ MailboxCapacity \in Nat
    BY <1>2, CapacityAssumption DEF HandleEvent, TypeOK
  <2>2. /\ Tail(mailbox) \in Seq(Events) /\ Len(Tail(mailbox)) = Len(mailbox) - 1
        /\ Head(mailbox) \in Events /\ Len(mailbox) \in Nat
    BY <2>1, HeadAndTail
  <2>3. Len(Tail(mailbox)) <= MailboxCapacity
    BY <2>1, <2>2
  <2>4. bus' \in Seq(Events) /\ Len(bus) <= Len(bus') /\ Len(bus) \in Nat /\ Len(bus') \in Nat
    <3>1. /\ Append(bus, Head(mailbox)) \in Seq(Events) /\ Len(bus) \in Nat
          /\ Len(Append(bus, Head(mailbox))) = Len(bus) + 1
      BY <2>1, <2>2, Appended
    <3>2. bus' = bus \/ bus' = Append(bus, Head(mailbox))
      BY <1>2 DEF HandleEvent
    <3> QED BY <2>1, <3>1, <3>2
  <2>5. \A w \in Workers : cursor[w] <= Len(bus')
    BY <2>4 DEF TypeOK
  <2> QED BY <1>2, <2>2, <2>3, <2>4, <2>5 DEF HandleEvent, TypeOK, mainVars, workerVars, turnVars
<1>3. CASE CoordinatorStop
  <2>1. <<>> \in Seq(Events) /\ Len(<<>>) = 0
    OBVIOUS
  <2> QED BY <1>3, <2>1, CapacityAssumption
         DEF CoordinatorStop, TypeOK, mainVars, workerVars, turnVars
<1> QED BY <1>1, <1>2, <1>3

LEMMA WorkerTyped ==
  ASSUME TypeOK, bus \in Seq(Told), NEW w \in Workers, WorkerStep(w) PROVE TypeOK'
<1>1. Len(bus) \in Nat /\ cursor[w] \in Nat
  BY LenProperties DEF TypeOK
<1>2. CASE StartFails(w)
  BY <1>2 DEF StartFails, TypeOK, mainVars, coordVars, turnVars
<1>3. CASE Subscribe(w)
  <2>1. /\ cursor' \in [Workers -> Nat] /\ \A v \in Workers : cursor'[v] <= Len(bus)
        /\ hears' \in [Workers -> BOOLEAN]
    BY <1>1, <1>3 DEF Subscribe, TypeOK
  <2> QED BY <1>3, <2>1 DEF Subscribe, TypeOK, mainVars, coordVars, turnVars
<1>4. CASE Hear(w)
  <2>1. cursor' = [cursor EXCEPT ![w] = cursor[w] + 1] /\ cursor[w] + 1 \in 1 .. Len(bus)
    BY <1>1, <1>4 DEF Hear, Listening
  <2>2. cursor' \in [Workers -> Nat] /\ \A v \in Workers : cursor'[v] <= Len(bus)
    BY <1>1, <2>1 DEF TypeOK
  <2>3. bus[cursor[w] + 1].of \in Raws
    BY <2>1, ToldForm, ElementOfSeq
  <2>4. turn' \in [Raws -> {"none", "answering", "saying", "completing", "done", "failed",
                            "cancelled"}]
    BY <1>4, <2>3 DEF Hear, TypeOK
  <2> QED BY <1>4, <2>2, <2>4 DEF Hear, TypeOK, mainVars, coordVars
<1>5. CASE Lag(w)
  <2> DEFINE oldest == Len(bus) - BroadcastCapacity
  <2>1. oldest \in Nat /\ oldest <= Len(bus)
    BY <1>1, <1>5, CapacityAssumption DEF Lag
  <2>2. cursor[w] + 1 .. oldest \in SUBSET Nat
    BY <1>1, <2>1
  <2>3. /\ cursor' = [cursor EXCEPT ![w] = oldest]
        /\ missed' = [missed EXCEPT ![w] = @ \cup (cursor[w] + 1 .. oldest)]
    BY <1>5 DEF Lag
  <2> HIDE DEF oldest
  <2>4. /\ cursor' \in [Workers -> Nat] /\ \A v \in Workers : cursor'[v] <= Len(bus)
        /\ missed' \in [Workers -> SUBSET Nat]
    BY <1>1, <2>1, <2>2, <2>3 DEF TypeOK
  <2> QED BY <1>5, <2>4 DEF Lag, TypeOK, mainVars, coordVars, turnVars
<1>6. CASE Stop(w)
  BY <1>6 DEF Stop, TypeOK, mainVars, coordVars
<1> QED BY <1>2, <1>3, <1>4, <1>5, <1>6 DEF WorkerStep

LEMMA TurnTyped ==
  ASSUME TypeOK, NEW r \in Raws, turn[r] = "saying" => said[r] < MaxLines,
         Arrive(r) \/ Ingest(r) \/ TurnStep(r)
  PROVE  TypeOK'
<1>1. CASE Arrive(r)
  BY <1>1 DEF Arrive, TypeOK, mainVars, coordVars, workerVars, turnVars
<1>2. CASE Ingest(r)
  <2>1. mailbox' \in Seq(Events) /\ Len(mailbox') <= MailboxCapacity
    BY <1>2, SendTyped, RawForm, ToldForm DEF Ingest
  <2> QED BY <1>2, <2>1 DEF Ingest, TypeOK, mainVars, workerVars, turnVars
<1>3. CASE SendLine(r)
  <2>1. said[r] + 1 \in 1 .. MaxLines
    BY <1>3, BoundsAssumption DEF SendLine, TypeOK
  <2>2. mailbox' \in Seq(Events) /\ Len(mailbox') <= MailboxCapacity
    BY <1>3, <2>1, SendTyped, LineForm, ToldForm DEF SendLine
  <2>3. said' \in [Raws -> 0 .. MaxLines]
    BY <1>3, <2>1 DEF SendLine, TypeOK
  <2> QED BY <1>3, <2>2, <2>3 DEF SendLine, TypeOK, mainVars, workerVars
<1>4. CASE Complete(r)
  <2>1. mailbox' \in Seq(Events) /\ Len(mailbox') <= MailboxCapacity
    BY <1>4, SendTyped, CompletionForm, ToldForm DEF Complete
  <2> QED BY <1>4, <2>1 DEF Complete, TypeOK, mainVars, workerVars
<1>5. CASE NextLine(r) \/ StreamEnds(r) \/ StreamFails(r) \/ Cancelled(r)
  BY <1>5 DEF NextLine, StreamEnds, StreamFails, Cancelled, TypeOK, mainVars, coordVars, workerVars
<1> QED BY <1>1, <1>2, <1>3, <1>4, <1>5 DEF TurnStep

-----------------------------------------------------------------------------
(* The order of the events *)

LEMMA PastOfAppended ==
  ASSUME NEW S, NEW s \in Seq(S), NEW x \in S
  PROVE  /\ \A i \in 1 .. Len(s) : {Append(s, x)[j] : j \in 1 .. i - 1} = {s[j] : j \in 1 .. i - 1}
         /\ {Append(s, x)[j] : j \in 1 .. (Len(s) + 1) - 1} = AllOf(s)
<1> DEFINE t == Append(s, x)
<1>1. Len(s) \in Nat /\ \A i \in 1 .. Len(s) : t[i] = s[i]
  BY Appended
<1> HIDE DEF t
<1>2. \A i \in 1 .. Len(s) : {t[j] : j \in 1 .. i - 1} = {s[j] : j \in 1 .. i - 1}
  <2> SUFFICES ASSUME NEW i \in 1 .. Len(s)
               PROVE  {t[j] : j \in 1 .. i - 1} = {s[j] : j \in 1 .. i - 1}
    OBVIOUS
  <2>1. \A j \in 1 .. i - 1 : j \in 1 .. Len(s)
    BY <1>1
  <2> QED BY <1>1, <2>1
<1>3. {t[j] : j \in 1 .. (Len(s) + 1) - 1} = AllOf(s)
  <2>1. (Len(s) + 1) - 1 = Len(s)
    BY <1>1
  <2> QED BY <1>1, <2>1 DEF AllOf
<1> QED BY <1>2, <1>3 DEF t

\* Steps that tell nothing: what they do to a turn they do after its question was
\* heard, and none that is done goes on.
LEMMA Quiet ==
  ASSUME IInv, TypeOK', UNCHANGED <<bus, mailbox, said>>, MailboxClosed' = MailboxClosed,
         cursor[Dialogue] <= cursor'[Dialogue],
         \A r \in Raws :
           /\ arrival'[r] = "sent" <=> arrival[r] = "sent"
           /\ turn'[r] # turn[r] =>
                /\ turn[r] # "done" /\ turn'[r] # "none"
                /\ turn'[r] = "saying" => said[r] < MaxLines
                /\ \E i \in 1 .. cursor'[Dialogue] : bus[i] = Raw(r)
  PROVE  IInv'
<1>1. Contents' /\ Sent' = Sent
  BY DEF IInv, Contents, Sent, AllOf
<1>2. BusInOrder'
  BY DEF IInv, BusInOrder, Rightful, BusPast
<1>3. MailInOrder'
  BY DEF IInv, MailInOrder, Rightful, MailPast, AllOf
<1>4. ASSUME NEW r \in Raws PROVE Turn(r)'
  <2>1. Turn(r) /\ cursor[Dialogue] \in Nat /\ cursor'[Dialogue] \in Nat
    BY WorkersAssumption DEF IInv, TypeOK, Listeners
  <2>2. turn'[r] # "none" => \E i \in 1 .. cursor'[Dialogue] : bus[i] = Raw(r)
    <3>1. CASE turn'[r] # turn[r]
      BY <3>1
    <3>2. CASE turn'[r] = turn[r] /\ turn[r] # "none"
      <4>1. PICK i \in 1 .. cursor[Dialogue] : bus[i] = Raw(r)
        BY <2>1, <3>2 DEF Turn
      <4>2. i \in 1 .. cursor'[Dialogue]
        BY <2>1, <4>1
      <4> QED BY <4>1, <4>2
    <3> QED BY <3>1, <3>2
  <2>3. /\ turn'[r] = "none" => turn[r] = "none"
        /\ turn'[r] = "saying" => said[r] < MaxLines
        /\ turn'[r] # "done" => turn[r] # "done"
    BY <2>1 DEF Turn
  <2> QED BY <1>1, <2>1, <2>2, <2>3 DEF Turn
<1> QED BY <1>1, <1>2, <1>3, <1>4 DEF IInv

LEMMA HandleEventKeeps == ASSUME IInv, HandleEvent PROVE IInv'
<1> DEFINE S == Told \cup {WorkerStarted}
           h == Head(mailbox)
<1>1. /\ bus \in Seq(Told) /\ mailbox \in Seq(S) /\ mailbox # <<>> /\ mailbox' = Tail(mailbox)
      /\ UNCHANGED <<coordinator, said, turn, arrival, cursor>> /\ coordinator = "Idle"
      /\ bus' = IF h.kind \in {"raw", "response", "completion"} THEN Append(bus, h) ELSE bus
  BY DEF IInv, Contents, HandleEvent, mainVars, workerVars, turnVars
<1>2. TypeOK'
  BY CoordinatorTyped DEF IInv
<1>3. /\ mailbox' \in Seq(S) /\ Len(mailbox') = Len(mailbox) - 1 /\ Len(mailbox) \in Nat \ {0}
      /\ \A i \in 1 .. Len(mailbox) - 1 : mailbox'[i] = mailbox[i + 1]
      /\ h = mailbox[1] /\ h \in S
  BY <1>1, HeadAndTail
\* Whatever was told so far, or is to be told before an event of the mailbox, still is.
<1>4. /\ AllOf(bus) \subseteq AllOf(bus') /\ AllOf(bus') \ {h} \subseteq AllOf(bus)
      /\ h \in Told => bus' = Append(bus, h) /\ AllOf(bus') = AllOf(bus) \cup {h}
      /\ h \notin Told => bus' = bus
  BY <1>1, <1>3, Appended, ToldForm, WorkerStartedForm
<1> HIDE DEF h, S
<1>5. \A i \in 1 .. Len(mailbox') : \A e \in Told : e \in MailPast(i)' <=> e \in MailPast(i + 1)
  <2> SUFFICES ASSUME NEW i \in 1 .. Len(mailbox'), NEW e \in Told
               PROVE  e \in MailPast(i)' <=> e \in MailPast(i + 1)
    OBVIOUS
  <2>1. ASSUME NEW j \in 1 .. i - 1
        PROVE  mailbox'[j] = mailbox[j + 1] /\ j + 1 \in 1 .. (i + 1) - 1
    BY <1>3
  <2>2. ASSUME NEW j \in 1 .. (i + 1) - 1, j # 1
        PROVE  j - 1 \in 1 .. i - 1 /\ mailbox[j] = mailbox'[j - 1]
    <3>1. j - 1 \in 1 .. i - 1 /\ j - 1 \in 1 .. Len(mailbox) - 1 /\ (j - 1) + 1 = j
      BY <1>3, <2>2
    <3> QED BY <1>3, <3>1
  <2>3. 1 \in 1 .. (i + 1) - 1
    BY <1>3
  <2>4. ASSUME e \in MailPast(i)' PROVE e \in MailPast(i + 1)
    <3>1. CASE e \in AllOf(bus')
      BY <1>3, <1>4, <2>3, <3>1 DEF MailPast
    <3>2. CASE \E j \in 1 .. i - 1 : e = mailbox'[j]
      BY <2>1, <3>2 DEF MailPast
    <3>3. MailPast(i)' = AllOf(bus') \cup {mailbox'[j] : j \in 1 .. i - 1}
      BY DEF MailPast, AllOf
    <3> QED BY <2>4, <3>1, <3>2, <3>3
  <2>5. ASSUME e \in MailPast(i + 1) PROVE e \in MailPast(i)'
    <3>1. MailPast(i)' = AllOf(bus') \cup {mailbox'[j] : j \in 1 .. i - 1}
      BY DEF MailPast, AllOf
    <3>2. CASE e \in AllOf(bus) \/ e = h
      BY <1>4, <3>1, <3>2
    <3>3. CASE e # h /\ \E j \in 1 .. (i + 1) - 1 : e = mailbox[j]
      BY <1>3, <2>2, <3>1, <3>3
    <3> QED BY <2>5, <3>2, <3>3 DEF MailPast
  <2> QED BY <2>4, <2>5
<1>6. Sent' \cap Told = Sent \cap Told
  <2>1. AllOf(mailbox) = {h} \cup AllOf(mailbox')
    <3>1. 1 \in 1 .. Len(mailbox)
      BY <1>3
    <3>2. ASSUME NEW j \in 1 .. Len(mailbox') PROVE j + 1 \in 1 .. Len(mailbox)
      BY <1>3
    <3>3. ASSUME NEW j \in 1 .. Len(mailbox), j # 1
          PROVE  j - 1 \in 1 .. Len(mailbox') /\ mailbox[j] = mailbox'[j - 1]
      <4>1. j - 1 \in 1 .. Len(mailbox) - 1 /\ (j - 1) + 1 = j
        BY <1>3, <3>3
      <4> QED BY <1>3, <4>1
    <3> QED BY <1>3, <3>1, <3>2, <3>3 DEF AllOf
  <2>2. Sent' = AllOf(bus') \cup AllOf(mailbox') /\ Sent = AllOf(bus) \cup AllOf(mailbox)
    BY DEF Sent, AllOf
  <2> QED BY <1>4, <2>1, <2>2
<1>7. Contents'
  <2>1. bus' \in Seq(Told)
    BY <1>1, <1>4, Appended
  <2> QED BY <1>1, <1>3, <2>1 DEF Contents, MailboxClosed, S
<1>8. BusInOrder'
  <2>1. CASE h \notin Told
    <3>1. bus' = bus /\ \A i \in 1 .. Len(bus) : BusPast(i)' = BusPast(i)
      BY <1>4, <2>1 DEF BusPast
    <3> QED BY <1>1, <3>1 DEF IInv, BusInOrder, Rightful
  <2>2. CASE h \in Told
    <3>1. bus' = Append(bus, h) /\ Len(bus') = Len(bus) + 1 /\ Len(bus) \in Nat
          /\ (\A i \in 1 .. Len(bus) : bus'[i] = bus[i]) /\ bus'[Len(bus) + 1] = h
      BY <1>1, <1>4, <2>2, Appended
    <3>2. /\ \A i \in 1 .. Len(bus) : BusPast(i)' = BusPast(i)
          /\ \A i \in 1 .. Len(bus') : i = Len(bus) + 1 => BusPast(i)' = AllOf(bus)
      <4>1. \A i \in 1 .. Len(bus') : BusPast(i)' = {Append(bus, h)[j] : j \in 1 .. i - 1}
        BY <3>1 DEF BusPast
      <4>2. /\ \A i \in 1 .. Len(bus) : {Append(bus, h)[j] : j \in 1 .. i - 1} = BusPast(i)
            /\ {Append(bus, h)[j] : j \in 1 .. (Len(bus) + 1) - 1} = AllOf(bus)
        BY <1>1, <2>2, PastOfAppended DEF BusPast
      <4>3. \A i \in 1 .. Len(bus) : i \in 1 .. Len(bus')
        BY <3>1
      <4> QED BY <4>1, <4>2, <4>3, Zenon
    <3>3. Rightful(h, AllOf(bus))
      <4>1. Rightful(h, MailPast(1))
        BY <1>3, <2>2 DEF IInv, MailInOrder
      <4>2. MailPast(1) = AllOf(bus)
        BY DEF MailPast
      <4> QED BY <4>1, <4>2
    <3> SUFFICES ASSUME NEW i \in 1 .. Len(bus') PROVE Rightful(bus'[i], BusPast(i)')
      BY <1>1 DEF BusInOrder, Rightful
    <3>4. CASE i = Len(bus) + 1
      BY <3>1, <3>2, <3>3, <3>4
    <3>5. CASE i # Len(bus) + 1
      <4>1. i \in 1 .. Len(bus)
        BY <3>1, <3>5
      <4>2. Rightful(bus[i], BusPast(i))
        BY <4>1 DEF IInv, BusInOrder
      <4> QED BY <3>1, <3>2, <4>1, <4>2
    <3> QED BY <3>4, <3>5
  <2> QED BY <2>1, <2>2
<1>9. MailInOrder'
  <2> SUFFICES ASSUME NEW i \in 1 .. Len(mailbox'), mailbox'[i] \in Told
               PROVE  Rightful(mailbox'[i], MailPast(i)')
    BY <1>1 DEF MailInOrder, Rightful
  <2> DEFINE e == mailbox'[i]
  <2>1. e = mailbox[i + 1] /\ i + 1 \in 1 .. Len(mailbox)
    BY <1>3
  <2>2. Rightful(e, MailPast(i + 1)) /\ e \in Told
    BY <2>1 DEF IInv, MailInOrder
  <2> HIDE DEF e
  <2>3. e \notin MailPast(i)'
    BY <1>5, <2>2 DEF Rightful
  <2>4. e.kind = "response" =>
          Raw(e.of) \in MailPast(i)' /\ \A k \in 1 .. e.line - 1 : Line(e.of, k) \in MailPast(i)'
    <3> SUFFICES ASSUME e.kind = "response"
                 PROVE  /\ Raw(e.of) \in MailPast(i)'
                        /\ \A k \in 1 .. e.line - 1 : Line(e.of, k) \in MailPast(i)'
      OBVIOUS
    <3>1. e.of \in Raws /\ e.line \in 1 .. MaxLines
      BY <2>2, ToldForm
    <3>2. Raw(e.of) \in Told /\ \A k \in 1 .. e.line - 1 : Line(e.of, k) \in Told
      BY <3>1, RawForm, LineForm, BoundsAssumption
    <3> QED BY <1>5, <2>2, <3>2 DEF Rightful
  <2>5. e.kind = "completion" => \A k \in 1 .. said[e.of] : Line(e.of, k) \in MailPast(i)'
    <3> SUFFICES ASSUME e.kind = "completion", NEW k \in 1 .. said[e.of]
                 PROVE  Line(e.of, k) \in MailPast(i)'
      OBVIOUS
    <3>1. e.of \in Raws /\ k \in 1 .. MaxLines
      BY <2>2, ToldForm, BoundsAssumption DEF IInv, TypeOK
    <3> QED BY <1>5, <2>2, <3>1, LineForm DEF Rightful
  <2> QED BY <2>3, <2>4, <2>5 DEF Rightful, e
<1>10. ASSUME NEW r \in Raws PROVE Turn(r)'
  <2>1. Turn(r) /\ cursor[Dialogue] \in Nat /\ cursor[Dialogue] <= Len(bus)
    BY WorkersAssumption DEF IInv, TypeOK, Listeners
  <2>2. \A i \in 1 .. cursor[Dialogue] : bus'[i] = bus[i]
    BY <1>1, <1>3, <1>4, <2>1, Appended
  <2>3. \A e \in Told : e \in Sent' <=> e \in Sent
    BY <1>6
  <2>4. /\ Raw(r) \in Told /\ Completion(r) \in Told
        /\ \A k \in 1 .. MaxLines : Line(r, k) \in Told
    BY RawForm, CompletionForm, LineForm
  <2> QED BY <1>1, <2>1, <2>2, <2>3, <2>4 DEF Turn, MailboxClosed
<1> QED BY <1>2, <1>7, <1>8, <1>9, <1>10 DEF IInv

\* What is left in the mailbox at the end is lost: the bus stays as it is.
LEMMA CoordinatorStopKeeps == ASSUME IInv, CoordinatorStop PROVE IInv'
<1>1. /\ UNCHANGED <<bus, said, turn, arrival, cursor>> /\ mailbox' = <<>> /\ coordinator' = "ShuttingDown"
      /\ bus \in Seq(Told)
  BY DEF IInv, Contents, CoordinatorStop, mainVars, workerVars, turnVars
<1>2. TypeOK'
  BY CoordinatorTyped DEF IInv
<1>3. Sent' = AllOf(bus) /\ AllOf(bus) \subseteq Sent
  <2>1. AllOf(mailbox') = {}
    BY <1>1 DEF AllOf
  <2>2. Sent' = AllOf(bus) \cup AllOf(mailbox')
    BY <1>1 DEF Sent, AllOf
  <2> QED BY <2>1, <2>2 DEF Sent
<1>4. Contents' /\ MailInOrder'
  BY <1>1 DEF Contents, MailInOrder, MailboxClosed
<1>5. BusInOrder'
  <2>1. \A i \in 1 .. Len(bus) : BusPast(i)' = BusPast(i)
    BY <1>1 DEF BusPast
  <2> QED BY <1>1, <2>1 DEF IInv, BusInOrder, Rightful
<1>6. ASSUME NEW r \in Raws PROVE Turn(r)'
  <2>1. Turn(r)
    BY DEF IInv
  <2> QED BY <1>1, <1>3, <2>1 DEF Turn, MailboxClosed
<1> QED BY <1>2, <1>4, <1>5, <1>6 DEF IInv

\* A sender adds an event that may follow all that has been sent, if the mailbox
\* is open; lines are added only to turns that have not completed.
LEMMA SendKeeps ==
  ASSUME IInv, NEW e \in Told \cup {WorkerStarted}, Send(e), UNCHANGED <<bus, coordinator>>,
         ~MailboxClosed /\ e \in Told => Rightful(e, Sent),
         e.kind = "completion" => said'[e.of] = said[e.of],
         \A r \in Raws : Completion(r) \in Sent => said'[r] = said[r]
  PROVE  /\ Contents' /\ BusInOrder' /\ MailInOrder'
         /\ \/ ~MailboxClosed /\ Sent' = Sent \cup {e}
            \/ MailboxClosed /\ Sent' = Sent
<1> DEFINE S == Told \cup {WorkerStarted}
<1>1. /\ bus' = bus /\ bus \in Seq(Told) /\ mailbox \in Seq(S) /\ MailboxClosed' = MailboxClosed
      /\ MailboxClosed => mailbox = <<>>
  BY DEF IInv, Contents, MailboxClosed
<1>2. ASSUME NEW x \in Told, NEW past, Rightful(x, past), x \in Sent \/ x = e
      PROVE  /\ x \notin past
             /\ x.kind = "response" =>
                  Raw(x.of) \in past /\ \A k \in 1 .. x.line - 1 : Line(x.of, k) \in past
             /\ x.kind = "completion" => \A k \in 1 .. said'[x.of] : Line(x.of, k) \in past
  <2>1. x.kind = "completion" => said'[x.of] = said[x.of]
    BY <1>2, ToldForm
  <2> QED BY <1>2, <2>1 DEF Rightful
<1>3. BusInOrder'
  <2> SUFFICES ASSUME NEW i \in 1 .. Len(bus) PROVE Rightful(bus[i], BusPast(i))'
    BY <1>1 DEF BusInOrder
  <2>1. /\ Rightful(bus[i], BusPast(i)) /\ bus[i] \in Told /\ bus[i] \in Sent
        /\ BusPast(i)' = BusPast(i)
    BY <1>1, ElementOfSeq DEF IInv, BusInOrder, Sent, AllOf, BusPast
  <2> QED BY <1>1, <1>2, <2>1 DEF Rightful
<1>4. CASE MailboxClosed
  <2>1. mailbox' = mailbox /\ mailbox = <<>>
    BY <1>1, <1>4 DEF Send
  <2>2. Contents' /\ Sent' = Sent
    BY <1>1, <2>1 DEF IInv, Contents, Sent, AllOf
  <2>3. MailInOrder'
    BY <2>1 DEF MailInOrder
  <2> QED BY <1>3, <1>4, <2>2, <2>3
<1>5. CASE ~MailboxClosed
  <2> HIDE DEF S
  <2>1. mailbox' = Append(mailbox, e) /\ e \in S
    BY <1>5 DEF Send, S
  <2>2. /\ mailbox' \in Seq(S) /\ Len(mailbox') = Len(mailbox) + 1 /\ Len(mailbox) \in Nat
        /\ \A i \in 1 .. Len(mailbox) : mailbox'[i] = mailbox[i]
        /\ mailbox'[Len(mailbox) + 1] = e /\ AllOf(mailbox') = AllOf(mailbox) \cup {e}
    BY <1>1, <2>1, Appended
  <2>3. Contents'
    BY <1>1, <1>5, <2>2 DEF Contents, S
  <2>4. Sent' = Sent \cup {e}
    <3>1. Sent' = AllOf(bus) \cup AllOf(mailbox')
      BY <1>1 DEF Sent, AllOf
    <3> QED BY <2>2, <3>1 DEF Sent
  <2>5. ASSUME NEW i \in 1 .. Len(mailbox')
        PROVE  MailPast(i)' = IF i = Len(mailbox) + 1 THEN Sent ELSE MailPast(i)
    <3>1. MailPast(i)' = AllOf(bus) \cup {Append(mailbox, e)[j] : j \in 1 .. i - 1}
      BY <1>1, <2>1 DEF MailPast, AllOf
    <3>2. CASE i = Len(mailbox) + 1
      <4>1. {Append(mailbox, e)[j] : j \in 1 .. i - 1} = AllOf(mailbox)
        BY <1>1, <2>1, <3>2, PastOfAppended
      <4> QED BY <3>1, <3>2, <4>1 DEF Sent
    <3>3. CASE i # Len(mailbox) + 1
      <4>1. i \in 1 .. Len(mailbox)
        BY <2>2, <3>3
      <4>2. {Append(mailbox, e)[j] : j \in 1 .. i - 1} = {mailbox[j] : j \in 1 .. i - 1}
        BY <1>1, <2>1, <4>1, PastOfAppended
      <4> QED BY <3>1, <3>3, <4>2 DEF MailPast
    <3> QED BY <3>2, <3>3
  <2>6. MailInOrder'
    <3> SUFFICES ASSUME NEW i \in 1 .. Len(mailbox'), mailbox'[i] \in Told
                 PROVE  Rightful(mailbox[i], MailPast(i))'
      BY DEF MailInOrder, Rightful
    <3>1. CASE i = Len(mailbox) + 1
      <4>1. mailbox'[i] = e /\ MailPast(i)' = Sent /\ Rightful(e, Sent)
        BY <1>5, <2>2, <2>5, <3>1
      <4> QED BY <1>2, <4>1 DEF Rightful
    <3>2. CASE i # Len(mailbox) + 1
      <4>1. i \in 1 .. Len(mailbox) /\ mailbox'[i] = mailbox[i] /\ MailPast(i)' = MailPast(i)
        BY <2>2, <2>5, <3>2
      <4>2. Rightful(mailbox[i], MailPast(i)) /\ mailbox[i] \in Sent
        BY <4>1 DEF IInv, MailInOrder, Sent, AllOf
      <4> QED BY <1>2, <4>1, <4>2 DEF Rightful
    <3> QED BY <3>1, <3>2
  <2> QED BY <1>3, <1>5, <2>3, <2>4, <2>6
<1> QED BY <1>4, <1>5

LEMMA StartWorkerKeeps == ASSUME IInv, StartWorker PROVE IInv'
<1>1. /\ Send(WorkerStarted) /\ UNCHANGED <<bus, coordinator, said, turn, arrival, cursor>>
      /\ MailboxClosed' = MailboxClosed
  BY DEF StartWorker, turnVars, MailboxClosed
<1>2. TypeOK'
  BY MainTyped DEF IInv, MainStep
<1>3. /\ Contents' /\ BusInOrder' /\ MailInOrder'
      /\ Sent' = Sent \/ Sent' = Sent \cup {WorkerStarted}
  BY <1>1, SendKeeps, WorkerStartedForm
<1>4. ASSUME NEW r \in Raws PROVE Turn(r)'
  <2>1. Turn(r)
    BY DEF IInv
  <2>2. \A e \in Told : e \in Sent' <=> e \in Sent
    BY <1>3, WorkerStartedForm
  <2> QED BY <1>1, <2>1, <2>2, RawForm, LineForm, CompletionForm DEF Turn
<1> QED BY <1>2, <1>3, <1>4 DEF IInv

LEMMA IngestKeeps == ASSUME IInv, NEW r \in Raws, Ingest(r) PROVE IInv'
<1>1. /\ Send(Raw(r)) /\ UNCHANGED <<bus, coordinator, said, turn, cursor>>
      /\ MailboxClosed' = MailboxClosed /\ arrival[r] = "sending"
      /\ arrival' = [arrival EXCEPT ![r] = "sent"]
  BY DEF Ingest, turnVars, workerVars, MailboxClosed
<1>2. TypeOK'
  BY TurnTyped DEF IInv, Turn
<1>3. Raw(r) \notin Sent
  BY <1>1 DEF IInv, Turn
<1>4. /\ Contents' /\ BusInOrder' /\ MailInOrder'
      /\ Sent' = Sent \/ Sent' = Sent \cup {Raw(r)}
  BY <1>1, <1>3, SendKeeps, RawForm DEF Rightful
<1>5. ASSUME NEW q \in Raws PROVE Turn(q)'
  <2>1. Turn(q)
    BY DEF IInv
  <2>2. arrival'[q] # "sent" => q # r /\ arrival[q] # "sent"
    BY <1>1 DEF IInv, TypeOK
  <2>3. \A e \in Told : e # Raw(r) => (e \in Sent' <=> e \in Sent)
    BY <1>4
  <2>4. Completion(q) # Raw(r) /\ \A k \in 1 .. MaxLines : Line(q, k) # Raw(r)
    BY RawForm, LineForm, CompletionForm
  <2>5. q # r => Raw(q) # Raw(r)
    BY RawForm
  <2> QED BY <1>1, <2>1, <2>2, <2>3, <2>4, <2>5, RawForm, LineForm, CompletionForm DEF Turn
<1> QED BY <1>2, <1>4, <1>5 DEF IInv

LEMMA SendLineKeeps == ASSUME IInv, NEW r \in Raws, SendLine(r) PROVE IInv'
<1> DEFINE k == said[r] + 1
<1>1. /\ Send(Line(r, k)) /\ UNCHANGED <<bus, coordinator, arrival, cursor>>
      /\ MailboxClosed' = MailboxClosed /\ turn[r] = "saying"
      /\ turn' = [turn EXCEPT ![r] = "answering"] /\ said' = [said EXCEPT ![r] = k]
  BY DEF SendLine, workerVars, MailboxClosed
<1>2. TypeOK' /\ Turn(r) /\ said[r] \in 0 .. MaxLines /\ MaxLines \in Nat
  <2>1. Turn(r) /\ TypeOK /\ said[r] \in 0 .. MaxLines /\ MaxLines \in Nat
    BY BoundsAssumption DEF IInv, TypeOK
  <2>2. turn[r] = "saying" => said[r] < MaxLines
    BY <2>1 DEF Turn
  <2> QED BY <2>1, <2>2, TurnTyped DEF TurnStep
<1>3. k \in 1 .. MaxLines /\ said[r] \in Nat /\ k - 1 = said[r]
  BY <1>1, <1>2 DEF Turn
<1>4. /\ Line(r, k) \in Told /\ Line(r, k).kind = "response" /\ Line(r, k).of = r /\ Line(r, k).line = k
  BY <1>3, LineForm
<1>5. Line(r, k) \notin Sent
  BY <1>2, <1>3 DEF Turn
<1>6. Raw(r) \in Sent
  <2>1. PICK i \in 1 .. cursor[Dialogue] : bus[i] = Raw(r)
    BY <1>1, <1>2 DEF Turn
  <2>2. i \in 1 .. Len(bus)
    BY <2>1, WorkersAssumption DEF IInv, TypeOK, Listeners
  <2> QED BY <2>1, <2>2 DEF Sent, AllOf
<1>7. ~MailboxClosed => \A j \in 1 .. k - 1 : Line(r, j) \in Sent
  BY <1>2, <1>3 DEF Turn
<1>8. ~MailboxClosed => Rightful(Line(r, k), Sent)
  BY <1>4, <1>5, <1>6, <1>7 DEF Rightful
<1>9. \A q \in Raws : Completion(q) \in Sent => said'[q] = said[q]
  BY <1>1 DEF IInv, Turn, TypeOK
<1> HIDE DEF k
<1>10. /\ Contents' /\ BusInOrder' /\ MailInOrder'
       /\ \/ ~MailboxClosed /\ Sent' = Sent \cup {Line(r, k)}
          \/ MailboxClosed /\ Sent' = Sent
  BY <1>1, <1>4, <1>8, <1>9, SendKeeps
<1>11. ASSUME NEW q \in Raws PROVE Turn(q)'
  <2>1. Turn(q) /\ said[q] \in 0 .. MaxLines
    BY DEF IInv, TypeOK
  <2>2. /\ Raw(q) # Line(r, k) /\ Completion(q) # Line(r, k)
        /\ \A j \in 1 .. MaxLines : Line(q, j) = Line(r, k) => q = r /\ j = k
    BY <1>3, <1>4, RawForm, LineForm, CompletionForm
  <2>3. CASE q # r
    <3>1. turn'[q] = turn[q] /\ said'[q] = said[q]
      BY <1>1, <2>3 DEF IInv, TypeOK
    <3>2. \A j \in 1 .. MaxLines : Line(q, j) \in Sent' <=> Line(q, j) \in Sent
      BY <1>10, <2>2, <2>3
    <3>3. (Raw(q) \in Sent' <=> Raw(q) \in Sent) /\ (Completion(q) \in Sent' <=> Completion(q) \in Sent)
      BY <1>10, <2>2
    <3> QED BY <1>1, <2>1, <3>1, <3>2, <3>3 DEF Turn
  <2>4. CASE q = r
    <3>1. turn'[r] = "answering" /\ said'[r] = k
      BY <1>1 DEF IInv, TypeOK
    <3>2. ASSUME NEW j \in 1 .. MaxLines
          PROVE  IF j <= k THEN MailboxClosed' \/ Line(r, j) \in Sent' ELSE Line(r, j) \notin Sent'
      <4>1. IF j <= said[r] THEN MailboxClosed \/ Line(r, j) \in Sent ELSE Line(r, j) \notin Sent
        BY <1>2 DEF Turn
      <4>2. j <= k <=> j <= said[r] \/ j = k
        BY <1>3
      <4>3. j = k => j > said[r]
        BY <1>3
      <4> QED BY <1>1, <1>10, <2>2, <2>4, <4>1, <4>2, <4>3
    <3>3. (Raw(r) \in Sent' <=> Raw(r) \in Sent) /\ (Completion(r) \in Sent' <=> Completion(r) \in Sent)
      BY <1>10, <2>2, <2>4
    <3> QED BY <1>1, <1>2, <2>4, <3>1, <3>2, <3>3 DEF Turn
  <2> QED BY <2>3, <2>4
<1> QED BY <1>2, <1>10, <1>11 DEF IInv

LEMMA CompleteKeeps == ASSUME IInv, NEW r \in Raws, Complete(r) PROVE IInv'
<1>1. /\ Send(Completion(r)) /\ UNCHANGED <<bus, coordinator, said, arrival, cursor>>
      /\ MailboxClosed' = MailboxClosed /\ turn[r] = "completing"
      /\ turn' = [turn EXCEPT ![r] = "done"]
  BY DEF Complete, workerVars, MailboxClosed
<1>2. TypeOK' /\ Turn(r) /\ said[r] \in 0 .. MaxLines /\ MaxLines \in Nat
  <2>1. Turn(r) /\ TypeOK /\ said[r] \in 0 .. MaxLines /\ MaxLines \in Nat
    BY BoundsAssumption DEF IInv, TypeOK
  <2>2. turn[r] = "saying" => said[r] < MaxLines
    BY <2>1 DEF Turn
  <2> QED BY <2>1, <2>2, TurnTyped DEF TurnStep
<1>3. /\ Completion(r) \in Told /\ Completion(r).kind = "completion" /\ Completion(r).of = r
  BY CompletionForm
<1>4. ~MailboxClosed => Rightful(Completion(r), Sent)
  <2>1. \A k \in 1 .. said[r] : k \in 1 .. MaxLines /\ k <= said[r]
    BY <1>2
  <2>2. ~MailboxClosed => \A k \in 1 .. said[r] : Line(r, k) \in Sent
    BY <1>2, <2>1 DEF Turn
  <2> QED BY <1>1, <1>2, <1>3, <2>2 DEF Rightful, Turn
<1>5. /\ Contents' /\ BusInOrder' /\ MailInOrder'
      /\ Sent' = Sent \/ Sent' = Sent \cup {Completion(r)}
  BY <1>1, <1>3, <1>4, SendKeeps
<1>6. ASSUME NEW q \in Raws PROVE Turn(q)'
  <2>1. Turn(q)
    BY DEF IInv
  <2>2. turn'[q] = IF q = r THEN "done" ELSE turn[q]
    BY <1>1 DEF IInv, TypeOK
  <2>3. /\ Raw(q) # Completion(r) /\ \A k \in 1 .. MaxLines : Line(q, k) # Completion(r)
        /\ Completion(q) = Completion(r) => q = r
    BY <1>3, RawForm, LineForm, CompletionForm
  <2>4. /\ Raw(q) \in Sent' <=> Raw(q) \in Sent
        /\ \A k \in 1 .. MaxLines : Line(q, k) \in Sent' <=> Line(q, k) \in Sent
        /\ q # r => (Completion(q) \in Sent' <=> Completion(q) \in Sent)
    BY <1>5, <2>3
  <2> QED BY <1>1, <1>2, <2>1, <2>2, <2>4 DEF Turn
<1> QED BY <1>2, <1>5, <1>6 DEF IInv

\* A mention is heard once: the dialogue engine's cursor has passed the questions
\* of all turns there are, and no question is told twice.
LEMMA HearKeeps == ASSUME IInv, NEW w \in Workers, Hear(w) PROVE IInv'
<1> DEFINE n == cursor[w] + 1
           e == bus[n]
<1>1. /\ UNCHANGED <<bus, mailbox, coordinator, said, arrival>> /\ cursor' = [cursor EXCEPT ![w] = n]
      /\ turn' = IF w = Dialogue /\ e.kind = "raw" /\ e.of \in Mentions
                 THEN [turn EXCEPT ![e.of] = "answering"] ELSE turn
      /\ cursor[w] < Len(bus)
  BY DEF Hear, Listening, coordVars
<1>2. /\ TypeOK' /\ cursor \in [Workers -> Nat] /\ Dialogue \in Workers /\ Len(bus) \in Nat
      /\ turn \in [Raws -> {"none", "answering", "saying", "completing", "done", "failed",
                            "cancelled"}]
  BY WorkerTyped, WorkersAssumption, LenProperties DEF IInv, Contents, TypeOK, WorkerStep, Listeners
<1>3. n \in 1 .. Len(bus) /\ cursor[Dialogue] <= cursor'[Dialogue] /\ (w = Dialogue => cursor'[Dialogue] = n)
  BY <1>1, <1>2
<1>4. e \in Told /\ Rightful(e, BusPast(n))
  BY <1>3, ElementOfSeq DEF IInv, Contents, BusInOrder
<1> HIDE DEF n, e
<1>5. ASSUME NEW r \in Raws, turn'[r] # turn[r]
      PROVE  /\ turn[r] # "done" /\ turn'[r] # "none"
             /\ turn'[r] = "saying" => said[r] < MaxLines
             /\ \E i \in 1 .. cursor'[Dialogue] : bus[i] = Raw(r)
  <2>1. w = Dialogue /\ e.kind = "raw" /\ r = e.of /\ turn'[r] = "answering"
    BY <1>1, <1>2, <1>5
  <2>2. e = Raw(r) /\ e \notin BusPast(n)
    BY <1>4, <2>1, ToldForm DEF Rightful
  <2>3. turn[r] = "none"
    <3>1. SUFFICES ASSUME turn[r] # "none" PROVE FALSE
      OBVIOUS
    <3>2. PICK i \in 1 .. cursor[Dialogue] : bus[i] = Raw(r)
      BY <3>1 DEF IInv, Turn
    <3>3. i \in 1 .. n - 1
      BY <1>2, <2>1, <3>2 DEF n
    <3> QED BY <2>2, <3>2, <3>3 DEF BusPast
  <2>4. n \in 1 .. cursor'[Dialogue] /\ bus[n] = Raw(r)
    BY <1>3, <2>1, <2>2 DEF e
  <2> QED BY <2>1, <2>3, <2>4
<1>6. MailboxClosed' = MailboxClosed /\ \A r \in Raws : arrival'[r] = "sent" <=> arrival[r] = "sent"
  BY <1>1 DEF MailboxClosed
<1> QED BY <1>1, <1>2, <1>3, <1>5, <1>6, Quiet

\* Steps that send nothing, start no turn and move no cursor back.
LEMMA OtherWorkerKeeps ==
  ASSUME IInv, NEW w \in Workers, StartFails(w) \/ Subscribe(w) \/ Lag(w) \/ Stop(w) PROVE IInv'
<1>1. UNCHANGED <<bus, mailbox, coordinator, said, turn, arrival>>
  BY DEF StartFails, Subscribe, Lag, Stop, coordVars, turnVars
<1>2. TypeOK' /\ cursor \in [Workers -> Nat] /\ Dialogue \in Workers /\ Len(bus) \in Nat
  BY WorkerTyped, WorkersAssumption, LenProperties DEF IInv, Contents, TypeOK, WorkerStep, Listeners
<1>3. cursor[Dialogue] <= cursor'[Dialogue]
  <2>1. CASE StartFails(w) \/ Stop(w)
    BY <1>2, <2>1 DEF StartFails, Stop
  <2>2. CASE Subscribe(w)
    <3>1. cursor' = [cursor EXCEPT ![w] = Len(bus)] /\ cursor[w] <= Len(bus)
      BY <2>2 DEF Subscribe, IInv, TypeOK
    <3> QED BY <1>2, <3>1
  <2>3. CASE Lag(w)
    <3>1. /\ cursor' = [cursor EXCEPT ![w] = Len(bus) - BroadcastCapacity]
          /\ Len(bus) - cursor[w] > BroadcastCapacity
      BY <2>3 DEF Lag
    <3>2. cursor[w] <= Len(bus) - BroadcastCapacity
      BY <1>2, <3>1, CapacityAssumption
    <3> QED BY <1>2, <3>1, <3>2
  <2> QED BY <2>1, <2>2, <2>3
<1> QED BY <1>1, <1>2, <1>3, Quiet DEF MailboxClosed

LEMMA OtherKeeps ==
  ASSUME IInv,
         \/ AllStarted \/ CtrlC \/ Exit \/ \E w \in Workers : Joined(w) \/ TimedOut(w)
         \/ CoordinatorStart
  PROVE  IInv'
<1>1. UNCHANGED <<bus, mailbox, said, turn, arrival, cursor>> /\ MailboxClosed' = MailboxClosed
  BY DEF AllStarted, CtrlC, Exit, Joined, TimedOut, CoordinatorStart, coordVars, workerVars, turnVars,
         MailboxClosed
<1>2. TypeOK' /\ cursor[Dialogue] \in Nat
  BY MainTyped, CoordinatorTyped, WorkersAssumption DEF IInv, MainStep, TypeOK, Listeners
<1> QED BY <1>1, <1>2, Quiet

LEMMA TurnKeeps ==
  ASSUME IInv, NEW r \in Raws,
         Arrive(r) \/ NextLine(r) \/ StreamEnds(r) \/ StreamFails(r) \/ Cancelled(r)
  PROVE  IInv'
<1>1. /\ UNCHANGED <<bus, mailbox, coordinator, said, cursor>>
      /\ \/ turn' = turn /\ arrival[r] = "none" /\ arrival' = [arrival EXCEPT ![r] = "sending"]
         \/ /\ arrival' = arrival /\ turn[r] \in {"answering", "saying", "completing"}
            /\ \/ said[r] < MaxLines /\ turn' = [turn EXCEPT ![r] = "saying"]
               \/ \E s \in {"done", "completing", "failed", "cancelled"} : turn' = [turn EXCEPT ![r] = s]
  BY DEF Arrive, NextLine, StreamEnds, StreamFails, Cancelled, coordVars, workerVars, turnVars
<1>2. /\ TypeOK' /\ cursor[Dialogue] \in Nat /\ Turn(r) /\ cursor' = cursor
      /\ turn \in [Raws -> {"none", "answering", "saying", "completing", "done", "failed",
                            "cancelled"}]
      /\ arrival \in [Raws -> {"none", "sending", "sent"}]
  BY <1>1, TurnTyped, WorkersAssumption DEF IInv, Turn, TurnStep, TypeOK, Listeners
<1>3. \A q \in Raws :
        /\ arrival'[q] = "sent" <=> arrival[q] = "sent"
        /\ turn'[q] # turn[q] =>
             /\ turn[q] # "done" /\ turn'[q] # "none"
             /\ turn'[q] = "saying" => said[q] < MaxLines
             /\ \E i \in 1 .. cursor'[Dialogue] : bus[i] = Raw(q)
  <2>1. turn[r] # "none" => \E i \in 1 .. cursor'[Dialogue] : bus[i] = Raw(r)
    BY <1>2 DEF Turn
  <2>2. \A q \in Raws : arrival'[q] = "sent" <=> arrival[q] = "sent"
    BY <1>1, <1>2
  <2>3. \A q \in Raws : turn'[q] # turn[q] =>
          /\ q = r /\ turn[r] # "none" /\ turn[q] # "done" /\ turn'[q] # "none"
          /\ turn'[q] = "saying" => said[q] < MaxLines
    BY <1>1, <1>2
  <2> QED BY <2>1, <2>2, <2>3
<1> QED BY <1>1, <1>2, <1>3, Quiet DEF MailboxClosed

-----------------------------------------------------------------------------
LEMMA InitHolds == ASSUME Init PROVE IInv
<1>1. Raws \in SUBSET Nat /\ MaxLines \in Nat /\ AllOf(<<>>) = {}
  BY BoundsAssumption DEF Raws, AllOf
<1>2. TypeOK
  <2>1. Len(Registered) \in Nat /\ <<>> \in Seq(Events) /\ Len(<<>>) = 0 /\ 0 <= MailboxCapacity
    BY WorkersAssumption, CapacityAssumption, LenProperties
  <2>2. /\ mailbox \in Seq(Events) /\ Len(mailbox) <= MailboxCapacity /\ bus \in Seq(Events)
        /\ started \in 0 .. Len(Registered) /\ waiting \subseteq Workers
        /\ \A w \in Workers : cursor[w] <= Len(bus)
    BY <2>1 DEF Init
  <2>3. /\ cursor \in [Workers -> Nat] /\ missed \in [Workers -> SUBSET Nat]
        /\ hears \in [Workers -> BOOLEAN] /\ said \in [Raws -> 0 .. MaxLines]
    BY <1>1 DEF Init
  <2> QED BY <2>2, <2>3 DEF Init, TypeOK
<1>3. Contents /\ BusInOrder /\ MailInOrder
  BY DEF Init, Contents, BusInOrder, MailInOrder
<1>4. Sent = {}
  BY <1>1 DEF Init, Sent
<1>5. ASSUME NEW r \in Raws PROVE Turn(r)
  BY <1>1, <1>4 DEF Init, Turn
<1> QED BY <1>2, <1>3, <1>5 DEF IInv

LEMMA StepKeeps == ASSUME IInv, [Next]_vars PROVE IInv'
<1>1. CASE UNCHANGED vars
  <2>1. UNCHANGED <<bus, mailbox, coordinator, said, turn, arrival, cursor>>
    BY <1>1 DEF vars, mainVars, coordVars, workerVars, turnVars
  <2>2. TypeOK' /\ cursor[Dialogue] \in Nat
    BY <1>1, WorkersAssumption
       DEF IInv, TypeOK, vars, mainVars, coordVars, workerVars, turnVars, Listeners
  <2> QED BY <2>1, <2>2, Quiet DEF MailboxClosed
<1>2. CASE Next
  <2>1. CASE MainStep \/ CtrlC \/ CoordinatorStart \/ HandleEvent \/ CoordinatorStop
    BY <2>1, StartWorkerKeeps, OtherKeeps, HandleEventKeeps, CoordinatorStopKeeps DEF MainStep
  <2>2. CASE \E w \in Workers : WorkerStep(w)
    BY <2>2, HearKeeps, OtherWorkerKeeps DEF WorkerStep
  <2>3. CASE \E r \in Raws : Arrive(r) \/ Ingest(r) \/ TurnStep(r)
    BY <2>3, IngestKeeps, SendLineKeeps, CompleteKeeps, TurnKeeps DEF TurnStep
  <2> QED BY <1>2, <2>1, <2>2, <2>3 DEF Next
<1> QED BY <1>1, <1>2

LEMMA Invariance == Spec => []IInv
BY InitHolds, StepKeeps, PTL DEF Spec

-----------------------------------------------------------------------------
(* The theorems *)

\* The mailbox keeps to its capacity, cursors to the bus, and every task is in a
\* state of its own.
THEOREM TypeCorrect == Spec => []TypeOK
<1>1. IInv => TypeOK
  BY DEF IInv
<1> QED BY <1>1, Invariance, PTL

\* Whatever turns overlap, however full the mailbox is and whenever turns are
\* aborted or the coordinator ends, the bus tells no answer before its question,
\* no line before the one it follows, no completion before the last line, and
\* nothing twice.
THEOREM BusTellsInOrder == Spec => []TurnsInOrder
<1>1. IInv => TurnsInOrder
  <2> SUFFICES ASSUME IInv, NEW i \in 1 .. Len(bus)
               PROVE  /\ ~Before(bus[i], i)
                      /\ bus[i].kind = "response" =>
                           /\ Before(Raw(bus[i].of), i)
                           /\ \A k \in 1 .. bus[i].line - 1 : Before(Line(bus[i].of, k), i)
                      /\ bus[i].kind = "completion" =>
                           \A k \in 1 .. said[bus[i].of] : Before(Line(bus[i].of, k), i)
    BY DEF TurnsInOrder
  <2>1. Rightful(bus[i], BusPast(i))
    BY DEF IInv, BusInOrder
  <2>2. \A e : Before(e, i) <=> e \in BusPast(i)
    BY DEF Before, BusPast
  <2> QED BY <2>1, <2>2 DEF Rightful
<1> QED BY <1>1, Invariance, PTL

-----------------------------------------------------------------------------
(* The MCP server, one of the workers: what it fetches for a tool *)

CONSTANTS Posts, Calls, Lines, Tools, Urls, Public, MaxRedirects, MaxBytes, MaxInput
VARIABLES transport, serving, listens, input, written, closed, session, initialized, output, post,
          call, fetch

\* The signal is the one main broadcasts.
Mcp == INSTANCE McpServer WITH worker <- serving, hears <- listens, MaxLines <- MaxInput

\* A page in hand: one request per redirect followed, and one for the present address.
PageOK(f) ==
  /\ DOMAIN f = {"stage", "url", "redirects", "requests", "bytes"}
  /\ f.stage \in {"send", "wait", "body"} /\ f.redirects \in Nat /\ f.bytes \in Nat
  /\ f.redirects <= MaxRedirects /\ f.bytes <= MaxBytes
  /\ f.requests = IF f.stage = "send" THEN f.redirects ELSE f.redirects + 1
  /\ f.stage # "send" => f.url \in Public
\* p's call is still waited for.
Awaited(p) == IF p = Mcp!Stdio THEN session.stage = "calling" ELSE post[p] = "waiting"
FetchInv ==
  /\ DOMAIN fetch = Mcp!Processes /\ DOMAIN call = Mcp!Processes /\ DOMAIN post = Posts
  /\ \A p \in Mcp!Processes : fetch[p] # <<>> =>
       PageOK(fetch[p][1]) /\ Mcp!Named(p, "web_fetch") /\ Awaited(p)

\* What a step leaves alone of one process.
SameCall(q) == fetch'[q] = fetch[q] /\ call'[q] = call[q]

LEMMA PageStays ==
  ASSUME FetchInv, NEW q \in Mcp!Processes, SameCall(q),
         fetch[q] # <<>> => Awaited(q)'
  PROVE  fetch'[q] # <<>> => PageOK(fetch'[q][1]) /\ Mcp!Named(q, "web_fetch")' /\ Awaited(q)'
BY DEF FetchInv, SameCall, PageOK, Mcp!Named, Mcp!Running

\* A call ends, and with it its page.
LEMMA FinishKeeps ==
  ASSUME FetchInv, Mcp!Stdio \notin Posts, NEW p \in Mcp!Processes, NEW o, Mcp!Finish(p, o)
  PROVE  FetchInv'
<1>1. /\ fetch' = [fetch EXCEPT ![p] = <<>>] /\ call' = [call EXCEPT ![p] = <<>>]
      /\ p = Mcp!Stdio => post' = post
      /\ p # Mcp!Stdio => post' = [post EXCEPT ![p] = o] /\ session' = session
  BY DEF Mcp!Finish, Mcp!Drop, Mcp!Conclude
<1>2. /\ DOMAIN fetch' = Mcp!Processes /\ DOMAIN call' = Mcp!Processes /\ DOMAIN post' = Posts
      /\ fetch'[p] = <<>>
  BY <1>1 DEF FetchInv
<1>3. ASSUME NEW q \in Mcp!Processes \ {p} PROVE SameCall(q) /\ (Awaited(q) => Awaited(q)')
  <2>1. SameCall(q)
    BY <1>1 DEF SameCall, FetchInv
  <2>2. q # Mcp!Stdio => q \in Posts
    BY DEF Mcp!Processes
  <2> QED BY <1>1, <2>1, <2>2 DEF Awaited, FetchInv
<1>4. ASSUME NEW q \in Mcp!Processes, fetch'[q] # <<>>
      PROVE  PageOK(fetch'[q][1]) /\ Mcp!Named(q, "web_fetch")' /\ Awaited(q)'
  <2>1. q # p
    BY <1>2, <1>4
  <2>2. SameCall(q) /\ (fetch[q] # <<>> => Awaited(q)')
    BY <1>3, <2>1 DEF FetchInv
  <2> QED BY <1>4, <2>2, PageStays
<1> QED BY <1>2, <1>4 DEF FetchInv, PageOK, Mcp!Named, Mcp!Running, Awaited

\* A page gets further.
LEMMA FetchKeeps ==
  ASSUME FetchInv, NEW p \in Mcp!Processes, fetch[p] # <<>>, NEW new, Mcp!Fetch(p, new),
         NEW f, f = [x \in DOMAIN fetch[p][1] |-> IF x \in DOMAIN new THEN new[x] ELSE fetch[p][1][x]],
         PageOK(f)
  PROVE  FetchInv'
<1>1. fetch' = [fetch EXCEPT ![p] = <<f>>] /\ UNCHANGED <<call, post, session>>
  BY DEF Mcp!Fetch, Mcp!sessionVars
<1>2. /\ DOMAIN fetch' = Mcp!Processes /\ fetch'[p] = <<f>> /\ fetch'[p][1] = f
      /\ \A q \in Mcp!Processes \ {p} : fetch'[q] = fetch[q]
  BY <1>1 DEF FetchInv
<1>3. ASSUME NEW q \in Mcp!Processes, fetch'[q] # <<>>
      PROVE  PageOK(fetch'[q][1]) /\ Mcp!Named(q, "web_fetch")' /\ Awaited(q)'
  <2>1. Awaited(q)' = Awaited(q) /\ Mcp!Named(q, "web_fetch")' = Mcp!Named(q, "web_fetch")
    BY <1>1 DEF Awaited, Mcp!Named, Mcp!Running
  <2>2. CASE q = p
    BY <1>2, <2>1, <2>2 DEF FetchInv
  <2>3. CASE q # p
    BY <1>2, <1>3, <2>1, <2>3 DEF FetchInv
  <2> QED BY <2>2, <2>3
<1> QED BY <1>1, <1>2, <1>3 DEF FetchInv, PageOK, Mcp!Named, Mcp!Running, Awaited

LEMMA FetchStepKeeps ==
  ASSUME FetchInv, Mcp!Stdio \notin Posts, MaxRedirects \in Nat, MaxBytes \in Nat,
         NEW p \in Mcp!Processes, Mcp!FetchStep(p)
  PROVE  FetchInv'
<1> DEFINE g == fetch[p][1]
           With(new) == [x \in DOMAIN g |-> IF x \in DOMAIN new THEN new[x] ELSE g[x]]
<1>1. fetch[p] # <<>> /\ PageOK(g)
  BY DEF Mcp!FetchStep, Mcp!Request, Mcp!Redirected, Mcp!PageBegins, Mcp!Chunk, Mcp!PageEnds,
     Mcp!FetchFails, Mcp!Fetching, FetchInv
<1>2. CASE \E o : Mcp!Finish(p, o)
  BY <1>2, FinishKeeps
<1>3. ASSUME NEW new, Mcp!Fetch(p, new), PageOK(With(new)) PROVE FetchInv'
  BY <1>1, <1>3, FetchKeeps
<1>4. CASE Mcp!Request(p) /\ g.url \in Public
  <2> DEFINE new == [stage |-> "wait", requests |-> g.requests + 1]
  <2>1. Mcp!Fetch(p, new) /\ g.stage = "send"
    BY <1>4 DEF Mcp!Request, Mcp!Fetching
  <2>2. PageOK(With(new))
    BY <1>1, <1>4, <2>1 DEF PageOK
  <2> QED BY <1>3, <2>1, <2>2
<1>5. ASSUME NEW next \in Public, Mcp!Fetching(p, "wait"), Mcp!MayRedirect(p),
             Mcp!Fetch(p, [stage |-> "send", url |-> next, redirects |-> g.redirects + 1])
      PROVE  FetchInv'
  <2> DEFINE new == [stage |-> "send", url |-> next, redirects |-> g.redirects + 1]
  <2>1. g.stage = "wait" /\ g.redirects < MaxRedirects
    BY <1>5 DEF Mcp!Fetching, Mcp!MayRedirect
  <2>2. PageOK(With(new))
    BY <1>1, <2>1 DEF PageOK
  <2> QED BY <1>3, <1>5, <2>2
<1>6. CASE Mcp!PageBegins(p)
  <2> DEFINE new == [stage |-> "body"]
  <2>1. Mcp!Fetch(p, new) /\ g.stage = "wait"
    BY <1>6 DEF Mcp!PageBegins, Mcp!Fetching
  <2>2. PageOK(With(new))
    BY <1>1, <2>1 DEF PageOK
  <2> QED BY <1>3, <2>1, <2>2
<1>7. CASE Mcp!Chunk(p) /\ g.bytes < MaxBytes
  <2> DEFINE new == [bytes |-> g.bytes + 1]
  <2>1. Mcp!Fetch(p, new) /\ g.stage = "body"
    BY <1>7 DEF Mcp!Chunk, Mcp!Fetching
  <2>2. PageOK(With(new))
    BY <1>1, <1>7, <2>1 DEF PageOK
  <2> QED BY <1>3, <2>1, <2>2
<1> HIDE DEF With
<1>8. CASE Mcp!Request(p)
  BY <1>2, <1>4, <1>8 DEF Mcp!Request
<1>9. CASE Mcp!Redirected(p)
  BY <1>2, <1>5, <1>9 DEF Mcp!Redirected
<1>10. CASE Mcp!Chunk(p)
  BY <1>2, <1>7, <1>10 DEF Mcp!Chunk
<1>11. CASE Mcp!PageEnds(p) \/ Mcp!FetchFails(p)
  BY <1>2, <1>11 DEF Mcp!PageEnds, Mcp!FetchFails
<1> QED BY <1>6, <1>8, <1>9, <1>10, <1>11 DEF Mcp!FetchStep

\* A call begins: its page, if it fetches one, has nothing yet.
LEMMA RunKeeps ==
  ASSUME FetchInv, MaxRedirects \in Nat, MaxBytes \in Nat, NEW p \in Mcp!Processes, NEW c,
         Mcp!Run(p, c), Awaited(p)', DOMAIN post' = Posts,
         \A q \in Mcp!Processes \ {p} : Awaited(q) => Awaited(q)'
  PROVE  FetchInv'
<1> DEFINE page == [stage |-> "send", url |-> c.url, redirects |-> 0, requests |-> 0, bytes |-> 0]
<1>1. PageOK(page)
  BY DEF PageOK
<1> HIDE DEF page
<1>2. /\ DOMAIN fetch' = Mcp!Processes /\ DOMAIN call' = Mcp!Processes /\ call'[p] = <<c>>
      /\ fetch'[p] # <<>> => fetch'[p] = <<page>> /\ c.name = "web_fetch"
      /\ \A q \in Mcp!Processes \ {p} : fetch'[q] = fetch[q] /\ call'[q] = call[q]
  BY DEF Mcp!Run, FetchInv, page
<1>3. ASSUME NEW q \in Mcp!Processes, fetch'[q] # <<>>
      PROVE  PageOK(fetch'[q][1]) /\ Mcp!Named(q, "web_fetch")' /\ Awaited(q)'
  <2>1. CASE q = p
    <3>1. fetch'[p][1] = page /\ call'[p] # <<>> /\ call'[p][1].name = "web_fetch"
      BY <1>2, <1>3, <2>1
    <3> QED BY <1>1, <2>1, <3>1 DEF Mcp!Named, Mcp!Running
  <2>2. CASE q # p
    <3>1. SameCall(q) /\ (fetch[q] # <<>> => Awaited(q)')
      BY <1>2, <2>2 DEF SameCall, FetchInv
    <3> QED BY <1>3, <3>1, PageStays
  <2> QED BY <2>1, <2>2
<1> QED BY <1>2, <1>3 DEF FetchInv, PageOK, Mcp!Named, Mcp!Running, Awaited

\* No call begins, ends or gets further.
LEMMA NoCallKeeps ==
  ASSUME FetchInv, UNCHANGED <<call, fetch>>, DOMAIN post' = Posts,
         \A q \in Mcp!Processes : Awaited(q) => Awaited(q)'
  PROVE  FetchInv'
<1>1. ASSUME NEW q \in Mcp!Processes, fetch'[q] # <<>>
      PROVE  PageOK(fetch'[q][1]) /\ Mcp!Named(q, "web_fetch")' /\ Awaited(q)'
  BY <1>1 DEF FetchInv, PageOK, Mcp!Named, Mcp!Running
<1> QED BY <1>1 DEF FetchInv, PageOK, Mcp!Named, Mcp!Running, Awaited

LEMMA PostKeeps ==
  ASSUME FetchInv, Mcp!Stdio \notin Posts, MaxRedirects \in Nat, MaxBytes \in Nat,
         NEW p \in Posts, Mcp!Post(p)
  PROVE  FetchInv'
<1>1. p \in Mcp!Processes /\ p # Mcp!Stdio /\ DOMAIN post = Posts /\ session' = session
  BY DEF Mcp!Processes, FetchInv, Mcp!Post, Mcp!sessionVars
<1>2. PICK c \in Calls :
        /\ post[p] = "new"
        /\ \/ post' = [post EXCEPT ![p] = "waiting"] /\ Mcp!Run(p, c)
           \/ post' = [post EXCEPT ![p] = Mcp!Refusal(c)] /\ UNCHANGED <<call, fetch>>
  BY DEF Mcp!Post, Mcp!callVars
<1>3. DOMAIN post' = Posts /\ \A q \in Posts \ {p} : post'[q] = post[q]
  BY <1>1, <1>2
<1>4. ASSUME NEW q \in Mcp!Processes, Awaited(q) PROVE q # p /\ Awaited(q)'
  <2>1. q # p
    BY <1>1, <1>2, <1>4 DEF Awaited
  <2>2. q = Mcp!Stdio \/ q \in Posts \ {p}
    BY <2>1 DEF Mcp!Processes
  <2> QED BY <1>1, <1>3, <1>4, <2>1, <2>2 DEF Awaited
<1>5. CASE post' = [post EXCEPT ![p] = "waiting"] /\ Mcp!Run(p, c)
  <2>1. Awaited(p)'
    BY <1>1, <1>5 DEF Awaited
  <2> QED BY <1>1, <1>3, <1>4, <1>5, <2>1, RunKeeps
<1>6. CASE UNCHANGED <<call, fetch>>
  BY <1>3, <1>4, <1>6, NoCallKeeps
<1> QED BY <1>2, <1>5, <1>6

LEMMA ReadKeeps ==
  ASSUME FetchInv, Mcp!Stdio \notin Posts, MaxRedirects \in Nat, MaxBytes \in Nat, Mcp!Read
  PROVE  FetchInv'
<1>1. /\ session.stage = "reading" /\ UNCHANGED post /\ DOMAIN post = Posts
      /\ \/ session'.stage = "calling" /\ Mcp!Run(Mcp!Stdio, Head(input).line.call)
         \/ UNCHANGED <<call, fetch>>
  <2>1. session.stage = "reading" /\ UNCHANGED post /\ DOMAIN post = Posts
    BY DEF Mcp!Read, FetchInv
  <2>2. \/ /\ session' = Mcp!Session("calling", <<Head(input)>>, "")
           /\ Mcp!Run(Mcp!Stdio, Head(input).line.call)
        \/ UNCHANGED <<call, fetch>>
    BY DEF Mcp!Read, Mcp!callVars
  <2>3. \A l : Mcp!Session("calling", l, "").stage = "calling"
    BY DEF Mcp!Session
  <2>4. session' = Mcp!Session("calling", <<Head(input)>>, "") => session'.stage = "calling"
    BY <2>3, Zenon
  <2> QED BY <2>1, <2>2, <2>4, Zenon
<1>2. \A q \in Mcp!Processes : Awaited(q) => q # Mcp!Stdio /\ Awaited(q)'
  BY <1>1 DEF Awaited
<1>3. CASE session'.stage = "calling" /\ Mcp!Run(Mcp!Stdio, Head(input).line.call)
  <2>1. Mcp!Stdio \in Mcp!Processes /\ Awaited(Mcp!Stdio)' /\ DOMAIN post' = Posts
    BY <1>1, <1>3 DEF Mcp!Processes, Awaited
  <2> QED BY <1>2, <1>3, <2>1, RunKeeps
<1>4. CASE UNCHANGED <<call, fetch>>
  BY <1>1, <1>2, <1>4, NoCallKeeps
<1> QED BY <1>1, <1>3, <1>4

LEMMA McpStarts == ASSUME Mcp!Init PROVE FetchInv
BY DEF Mcp!Init, FetchInv

LEMMA McpKeeps ==
  ASSUME Mcp!Stdio \notin Posts, MaxRedirects \in Nat, MaxBytes \in Nat,
         FetchInv, [Mcp!Next]_(Mcp!vars)
  PROVE  FetchInv'
<1> USE DEF Mcp!workerVars, Mcp!clientVars, Mcp!sessionVars, Mcp!callVars
<1>1. ASSUME UNCHANGED <<call, fetch, post>>,
             session' = session \/ session.stage \in {"reading", "writing"}
      PROVE  FetchInv'
  <2>1. \A q \in Mcp!Processes : Awaited(q) => Awaited(q)'
    BY <1>1 DEF Awaited
  <2> QED BY <1>1, <2>1, NoCallKeeps DEF FetchInv
<1>2. CASE Mcp!BindFails \/ Mcp!Serve \/ Mcp!Signal \/ Mcp!Drain \/ Mcp!Leave \/ Mcp!Close
  BY <1>1, <1>2 DEF Mcp!BindFails, Mcp!Serve, Mcp!Signal, Mcp!Drain, Mcp!Leave, Mcp!Close
<1>3. CASE Mcp!Respond \/ Mcp!EndOfInput \/ Mcp!ReadFails \/ Mcp!WriteFails
  BY <1>1, <1>3 DEF Mcp!Respond, Mcp!EndOfInput, Mcp!ReadFails, Mcp!WriteFails, Mcp!Ended
<1>4. ASSUME NEW line \in Lines, Mcp!Write(line) PROVE FetchInv'
  BY <1>1, <1>4 DEF Mcp!Write
<1>5. CASE UNCHANGED Mcp!vars
  BY <1>1, <1>5 DEF Mcp!vars
<1>6. ASSUME NEW p \in Mcp!Processes, Mcp!Executed(p) \/ Mcp!TimesOut(p) PROVE FetchInv'
  BY <1>6, FinishKeeps DEF Mcp!Executed, Mcp!TimesOut
\* No page outlives the process.
<1>7. CASE Mcp!ProcessEnds
  <2>1. /\ DOMAIN fetch' = Mcp!Processes /\ DOMAIN call' = Mcp!Processes /\ DOMAIN post' = Posts
        /\ \A q \in Mcp!Processes : fetch'[q] = <<>>
    BY <1>7 DEF Mcp!ProcessEnds
  <2> QED BY <2>1 DEF FetchInv
<1> QED
  BY <1>2, <1>3, <1>4, <1>5, <1>6, <1>7, FetchStepKeeps, PostKeeps, ReadKeeps DEF Mcp!Next, Mcp!SessionStep

\* Whatever a page, a redirect or the timer does, the server fetches only for a call
\* that is waited for, from addresses it accepts, within its limits.
THEOREM FetchesKeepToLimits ==
  ASSUME Mcp!Stdio \notin Posts, MaxRedirects \in Nat, MaxBytes \in Nat
  PROVE  Mcp!Spec => []Mcp!FetchIsBounded
<1>1. FetchInv => Mcp!FetchIsBounded
  <2> SUFFICES ASSUME FetchInv, NEW p \in Mcp!Processes, fetch[p] # <<>>
               PROVE  /\ Mcp!Named(p, "web_fetch")
                      /\ IF p = Mcp!Stdio THEN session.stage = "calling" ELSE post[p] = "waiting"
                      /\ fetch[p][1].requests <= MaxRedirects + 1 /\ fetch[p][1].bytes <= MaxBytes
                      /\ fetch[p][1].stage # "send" => fetch[p][1].url \in Public
    BY DEF Mcp!FetchIsBounded
  <2>1. PageOK(fetch[p][1]) /\ Mcp!Named(p, "web_fetch") /\ Awaited(p)
    BY DEF FetchInv
  <2> QED BY <2>1 DEF PageOK, Awaited
<1>2. Mcp!Init => FetchInv
  BY McpStarts
<1>3. FetchInv /\ [Mcp!Next]_(Mcp!vars) => FetchInv'
  BY McpKeeps
<1> QED BY <1>1, <1>2, <1>3, PTL DEF Mcp!Spec
=============================================================================
