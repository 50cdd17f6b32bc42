--------------------------- MODULE DialogueTurnProofs --------------------------
(***************************************************************************)
(* Theorems about DialogueTurn, for any messages, lifetimes and sizes of   *)
(* the cache, any replies of the model and any limits: what reasons about  *)
(* a message reasons from one context, and every prompt is whole.          *)
(*                                                                         *)
(* SameContext compares the contexts of two askers; CInv compares each     *)
(* with the slot it came from.  An asker's context is the slot's content   *)
(* or a lifetime older than it, because a slot is only computed again when *)
(* its content has expired, and by one asker at a time.                    *)
(*                                                                         *)
(* PromptWellFormed speaks of the prompt that is streamed; TInv says what  *)
(* a turn has at each stage before that.  The messages of the tool loop    *)
(* are those of a prompt but for the policy and the images, and only its    *)
(* last round may lack answers (LoopOK); the calls left are the end of that *)
(* round (Pending); and the prompt that a failed loop falls back to is      *)
(* still the one that was built before it.                                  *)
(***************************************************************************)
EXTENDS DialogueTurn, SequenceTheorems, FiniteSetTheorems, TLAPS

Context == [by : Askers, at : Nat, memory : BOOLEAN]
Contexts == {<<>>} \cup {<<c>> : c \in Context}
SlotRecord == [locked : BOOLEAN, content : Contexts]
AskerStages == {"new", "waiting", "computing", "given", "aborted"}
AskerRecord == [stage : AskerStages, slot : Nat, context : Contexts]

ContextShapes ==
  /\ clock \in Nat /\ slots \in Seq(SlotRecord) /\ asker \in [Askers -> AskerRecord]
  /\ \A a \in Askers :
       /\ asker[a].slot <= Len(slots)
       /\ asker[a].stage \in {"waiting", "computing", "given"} => asker[a].slot # 0
       /\ asker[a].stage = "new" => asker[a].slot = 0
       /\ asker[a].slot = 0 => asker[a].context = <<>>
\* The cache leads to slots, and while it keeps all, to that of every asker.
CacheOK ==
  /\ \A i \in DOMAIN cache : cache[i] \in 1 .. Len(slots)
  /\ ~clears => \A a \in Askers :
                  asker[a].slot # 0 => a[1] \in DOMAIN cache /\ cache[a[1]] = asker[a].slot

Content(n) == slots[n].content
Apart(x, y) == x = y \/ x.at - y.at >= ContextTTL \/ y.at - x.at >= ContextTTL
\* One asker computes for a slot at a time, while what is there is too old.
LocksOK ==
  \A a \in Askers : asker[a].stage = "computing" =>
    /\ slots[asker[a].slot].locked
    /\ \A b \in Askers : asker[b].stage = "computing" /\ asker[b].slot = asker[a].slot => b = a
    /\ Content(asker[a].slot) # <<>> => clock - Content(asker[a].slot)[1].at >= ContextTTL
\* The contexts of a slot are its content or a lifetime older, and so from each other.
ContextsOK ==
  /\ \A n \in 1 .. Len(slots) : Content(n) # <<>> => Content(n)[1].at <= clock
  /\ \A a \in Given :
       /\ Content(asker[a].slot) # <<>>
       /\ \/ asker[a].context = Content(asker[a].slot)
          \/ Content(asker[a].slot)[1].at - asker[a].context[1].at >= ContextTTL
  /\ \A a, b \in Given :
       asker[a].slot = asker[b].slot => Apart(asker[a].context[1], asker[b].context[1])

CInv == ContextShapes /\ CacheOK /\ LocksOK /\ ContextsOK

-----------------------------------------------------------------------------
(* Slots and contexts *)

LEMMA ContextTyped ==
  ASSUME NEW c \in Contexts, c # <<>>
  PROVE  c = <<c[1]>> /\ c[1].at \in Nat
BY DEF Contexts, Context

LEMMA AskerTyped ==
  ASSUME ContextShapes, NEW a \in Askers
  PROVE  /\ asker[a] \in AskerRecord /\ asker[a].slot \in 0 .. Len(slots) /\ Len(slots) \in Nat
         /\ asker[a].slot # 0 => slots[asker[a].slot] \in SlotRecord
         /\ asker[a].stage \in {"waiting", "computing", "given"} => asker[a].slot \in 1 .. Len(slots)
         /\ a \in Given => asker[a].slot \in 1 .. Len(slots)
<1>1. asker[a] \in AskerRecord /\ asker[a].slot <= Len(slots) /\ slots \in Seq(SlotRecord)
  BY DEF ContextShapes
<1>2. asker[a].slot \in Nat
  BY <1>1 DEF AskerRecord
<1>3. Len(slots) \in Nat
  BY <1>1
<1>4. asker[a].slot \in 0 .. Len(slots)
  BY <1>1, <1>2, <1>3
<1>5. asker[a].slot # 0 => asker[a].slot \in 1 .. Len(slots)
  BY <1>3, <1>4
<1>6. asker[a].slot # 0 => slots[asker[a].slot] \in SlotRecord
  BY <1>1, <1>5
<1> QED BY <1>1, <1>3, <1>4, <1>5, <1>6 DEF ContextShapes, Given

LEMMA InitContexts == Init => CInv
<1> SUFFICES ASSUME Init PROVE CInv
  OBVIOUS
<1>1. ContextShapes
  BY DEF Init, ContextShapes, AskerRecord, AskerStages, Contexts
<1>2. Given = {} /\ slots = <<>> /\ cache = <<>> /\ \A a \in Askers : asker[a].stage = "new" /\ asker[a].slot = 0
  BY DEF Init, Given
<1> QED BY <1>1, <1>2 DEF CInv, CacheOK, LocksOK, ContextsOK

\* What the turns do is nothing to the contexts, but for an abort.
LEMMA ContextsKept ==
  ASSUME CInv, UNCHANGED <<cache, slots, clears, asker>>, clock' \in Nat, clock <= clock'
  PROVE  CInv'
<1>1. ContextShapes' /\ CacheOK'
  BY DEF CInv, ContextShapes, CacheOK
<1>2. clock \in Nat /\ \A n \in 1 .. Len(slots) : slots[n].content \in Contexts
  <2>1. clock \in Nat /\ slots \in Seq(SlotRecord)
    BY DEF CInv, ContextShapes
  <2>2. \A n \in 1 .. Len(slots) : slots[n] \in SlotRecord
    BY <2>1
  <2> QED BY <2>1, <2>2 DEF SlotRecord
<1>3. ASSUME NEW n \in 1 .. Len(slots), Content(n) # <<>>
      PROVE  /\ Content(n)[1].at \in Nat /\ ContextTTL \in Nat
             /\ clock - Content(n)[1].at >= ContextTTL => clock' - Content(n)[1].at >= ContextTTL
             /\ Content(n)[1].at <= clock => Content(n)[1].at <= clock'
  <2>1. Content(n)[1].at \in Nat /\ ContextTTL \in Nat
    BY <1>2, <1>3, ContextTyped, ContextAssumption DEF Content
  <2> QED BY <1>2, <2>1
<1>4. LocksOK'
  <2> SUFFICES ASSUME NEW a \in Askers, asker[a].stage = "computing", Content(asker[a].slot) # <<>>
               PROVE  clock' - Content(asker[a].slot)[1].at >= ContextTTL
    BY DEF LocksOK, CInv, Content
  <2>1. asker[a].slot \in 1 .. Len(slots)
    BY AskerTyped DEF CInv
  <2> QED BY <1>3, <2>1 DEF CInv, LocksOK
<1>5. ContextsOK'
  BY <1>3 DEF CInv, ContextsOK, Given, Content, Apart
<1> QED BY <1>1, <1>4, <1>5 DEF CInv

LEMMA TakeSlotKept ==
  ASSUME CInv, NEW a \in Askers, TakeSlot(a)
  PROVE  CInv'
<1> DEFINE full == Cardinality(DOMAIN cache) > ContextCacheMax
           kept == IF full THEN <<>> ELSE cache
           new == Len(slots) + 1
           slot == IF a[1] \in DOMAIN kept THEN kept[a[1]] ELSE new
<1>1. /\ asker[a].stage = "new" /\ clock' = clock
      /\ cache' = [i \in DOMAIN kept \cup {a[1]} |-> IF i = a[1] THEN slot ELSE kept[i]]
      /\ slots' = IF slot = new THEN Append(slots, [locked |-> FALSE, content |-> <<>>]) ELSE slots
      /\ clears' = (clears \/ full)
      /\ asker' = [asker EXCEPT ![a].stage = "waiting", ![a].slot = slot]
  BY DEF TakeSlot
<1>2. /\ ContextShapes /\ Len(slots) \in Nat /\ slots \in Seq(SlotRecord)
      /\ asker[a].slot = 0 /\ asker[a].context = <<>> /\ asker[a] \in AskerRecord
  BY <1>1, AskerTyped DEF CInv, ContextShapes
<1>3. \A i \in DOMAIN kept : kept[i] \in 1 .. Len(slots)
  BY DEF CInv, CacheOK
<1>4. slot \in 1 .. Len(slots) + 1 /\ (slot = new \/ (slot \in 1 .. Len(slots) /\ slot # new))
  BY <1>2, <1>3
<1>5. ~clears' => kept = cache /\ ~clears
  BY <1>1
<1>6. slot = new => a[1] \notin DOMAIN kept
  BY <1>2, <1>3
<1>7. slot # new => a[1] \in DOMAIN kept /\ slot = kept[a[1]]
  OBVIOUS
<1> HIDE DEF slot, kept, full
<1>8. /\ slots' \in Seq(SlotRecord) /\ Len(slots') \in {Len(slots), Len(slots) + 1} /\ slot <= Len(slots')
      /\ \A n \in 1 .. Len(slots) : slots'[n] = slots[n]
      /\ \A n \in 1 .. Len(slots') : n \notin 1 .. Len(slots) => slots'[n].content = <<>>
  <2>1. CASE slot = new
    <3> DEFINE fresh == [locked |-> FALSE, content |-> <<>>]
    <3>1. fresh \in SlotRecord
      BY DEF SlotRecord, Contexts
    <3>2. slots' = Append(slots, fresh) /\ fresh.content = <<>>
      BY <1>1, <2>1
    <3> HIDE DEF fresh
    <3>3. /\ slots' \in Seq(SlotRecord) /\ Len(slots') = Len(slots) + 1
          /\ \A n \in 1 .. Len(slots) : slots'[n] = slots[n] /\ slots'[Len(slots) + 1] = fresh
      BY <1>2, <3>1, <3>2, AppendProperties
    <3>4. slots'[Len(slots) + 1] = fresh
      BY <1>2, <3>2, AppendProperties
    <3>5. \A n \in 1 .. Len(slots') : n \notin 1 .. Len(slots) => n = Len(slots) + 1
      BY <1>2, <3>3
    <3> QED BY <1>2, <1>4, <2>1, <3>2, <3>3, <3>4, <3>5
  <2>2. CASE slot # new
    BY <1>1, <1>2, <1>4, <2>2
  <2> QED BY <2>1, <2>2
<1>9. /\ asker' \in [Askers -> AskerRecord] /\ asker'[a].stage = "waiting" /\ asker'[a].slot = slot
      /\ asker'[a].context = <<>> /\ \A b \in Askers \ {a} : asker'[b] = asker[b]
  <2>1. slot \in Nat
    BY <1>2, <1>4
  <2>2. asker'[a] = [asker[a] EXCEPT !.stage = "waiting", !.slot = slot]
        /\ \A b \in Askers \ {a} : asker'[b] = asker[b] /\ DOMAIN asker' = Askers
    BY <1>1, <1>2 DEF ContextShapes
  <2>3. /\ asker'[a].stage = "waiting" /\ asker'[a].slot = slot /\ asker'[a].context = asker[a].context
        /\ asker'[a] \in AskerRecord
    BY <1>2, <2>1, <2>2 DEF AskerRecord, AskerStages
  <2>4. asker' \in [Askers -> AskerRecord]
    BY <1>1, <1>2, <2>2, <2>3 DEF ContextShapes
  <2> QED BY <1>2, <2>2, <2>3, <2>4
<1>10. ContextShapes'
  <2>1. slot # 0 /\ slot <= Len(slots') /\ Len(slots) <= Len(slots') /\ Len(slots') \in Nat
    BY <1>2, <1>4, <1>8
  <2>2. \A b \in Askers \ {a} : asker[b].slot <= Len(slots')
    <3> SUFFICES ASSUME NEW b \in Askers PROVE asker[b].slot <= Len(slots')
      OBVIOUS
    <3>1. asker[b].slot \in 0 .. Len(slots)
      BY <1>2, AskerTyped
    <3> QED BY <1>2, <2>1, <3>1
  <2> QED BY <1>1, <1>2, <1>8, <1>9, <2>1, <2>2 DEF ContextShapes
<1>11. CacheOK'
  <2>1. DOMAIN cache' = DOMAIN kept \cup {a[1]} /\ cache'[a[1]] = slot
        /\ \A i \in DOMAIN kept : i # a[1] => cache'[i] = kept[i]
    BY <1>1
  <2>2. \A i \in DOMAIN cache' : cache'[i] \in 1 .. Len(slots')
    BY <1>2, <1>3, <1>4, <1>8, <2>1
  <2>3. ASSUME ~clears', NEW b \in Askers \ {a}, asker[b].slot # 0
        PROVE  b[1] \in DOMAIN cache' /\ cache'[b[1]] = asker[b].slot
    <3>1. b[1] \in DOMAIN kept /\ kept[b[1]] = asker[b].slot
      BY <1>5, <2>3 DEF CInv, CacheOK
    <3>2. CASE b[1] = a[1]
      BY <1>6, <1>7, <2>1, <3>1, <3>2
    <3>3. CASE b[1] # a[1]
      BY <2>1, <3>1, <3>3
    <3> QED BY <3>2, <3>3
  <2> QED BY <1>9, <2>1, <2>2, <2>3 DEF CacheOK
\* The slots of the others are as they were.
<1>12. \A b \in Askers : asker[b].slot # 0 => /\ asker[b].slot \in 1 .. Len(slots)
                                              /\ slots'[asker[b].slot] = slots[asker[b].slot]
  <2> SUFFICES ASSUME NEW b \in Askers, asker[b].slot # 0 PROVE asker[b].slot \in 1 .. Len(slots)
    BY <1>8
  <2>1. asker[b].slot \in 0 .. Len(slots)
    BY <1>2, AskerTyped
  <2> QED BY <1>2, <2>1
<1>13. LocksOK'
  <2>1. \A b \in Askers : asker'[b].stage = "computing" =>
          b # a /\ asker'[b] = asker[b] /\ asker[b].slot # 0
    BY <1>2, <1>9 DEF ContextShapes
  <2>2. ASSUME NEW b \in Askers, asker'[b].stage = "computing"
        PROVE  /\ slots'[asker'[b].slot].locked
               /\ \A e \in Askers : asker'[e].stage = "computing" /\ asker'[e].slot = asker'[b].slot => e = b
               /\ slots'[asker'[b].slot].content # <<>> =>
                    clock' - slots'[asker'[b].slot].content[1].at >= ContextTTL
    <3>1. asker'[b] = asker[b] /\ slots'[asker[b].slot] = slots[asker[b].slot] /\ asker[b].stage = "computing"
      BY <1>12, <2>1, <2>2
    <3>2. slots[asker[b].slot].locked
      BY <3>1 DEF CInv, LocksOK
    <3>3. slots'[asker'[b].slot].locked
      BY <3>1, <3>2
    <3>4. \A e \in Askers : asker'[e].stage = "computing" /\ asker'[e].slot = asker'[b].slot => e = b
      BY <2>1, <3>1 DEF CInv, LocksOK
    <3>5. slots'[asker'[b].slot].content # <<>> =>
            clock' - slots'[asker'[b].slot].content[1].at >= ContextTTL
      BY <1>1, <3>1 DEF CInv, LocksOK, Content
    <3> QED BY <3>3, <3>4, <3>5
  <2> QED BY <2>2 DEF LocksOK, Content
<1>14. ContextsOK'
  <2>1. \A b \in Given' : b \in Given /\ b # a /\ asker'[b] = asker[b] /\ asker[b].slot # 0
    BY <1>2, <1>9 DEF Given, ContextShapes
  <2>2. \A n \in 1 .. Len(slots') : slots'[n].content # <<>> => slots'[n].content[1].at <= clock'
    BY <1>1, <1>8 DEF CInv, ContextsOK, Content
  <2>3. ASSUME NEW b \in Given'
        PROVE  /\ slots'[asker'[b].slot].content # <<>>
               /\ \/ asker'[b].context = slots'[asker'[b].slot].content
                  \/ slots'[asker'[b].slot].content[1].at - asker'[b].context[1].at >= ContextTTL
    <3>1. asker'[b] = asker[b] /\ slots'[asker[b].slot] = slots[asker[b].slot] /\ b \in Given
      BY <1>12, <2>1 DEF Given
    <3>2. /\ slots[asker[b].slot].content # <<>>
          /\ \/ asker[b].context = slots[asker[b].slot].content
             \/ slots[asker[b].slot].content[1].at - asker[b].context[1].at >= ContextTTL
      BY <3>1 DEF CInv, ContextsOK, Content
    <3> QED BY <3>1, <3>2
  <2>4. \A b, e \in Given' :
          asker'[b].slot = asker'[e].slot => Apart(asker'[b].context[1], asker'[e].context[1])
    BY <2>1 DEF CInv, ContextsOK
  <2> QED BY <2>2, <2>3, <2>4 DEF ContextsOK, Content
<1> QED BY <1>10, <1>11, <1>13, <1>14 DEF CInv

\* An asker that has its slot goes on; nothing is cached anew.
LEMMA AskerMoved ==
  ASSUME CInv, NEW a \in Askers, UNCHANGED <<clock, cache, clears>>,
         slots' \in Seq(SlotRecord), Len(slots') = Len(slots),
         asker' \in [Askers -> AskerRecord], \A b \in Askers \ {a} : asker'[b] = asker[b],
         asker'[a].slot = asker[a].slot, asker'[a].stage # "new",
         asker'[a].stage # "aborted" => asker[a].slot # 0,
         asker[a].slot = 0 => asker'[a].context = <<>>
  PROVE  ContextShapes' /\ CacheOK'
<1>1. \A b \in Askers : asker'[b].slot = asker[b].slot
  OBVIOUS
<1>2. ContextShapes'
  BY <1>1 DEF CInv, ContextShapes
<1>3. CacheOK'
  BY <1>1 DEF CInv, CacheOK
<1> QED BY <1>2, <1>3

\* A context as old as it is, or older by a lifetime, stays apart from the others.
LEMMA HitKept ==
  ASSUME CInv, NEW a \in Askers, Hit(a)
  PROVE  CInv'
<1> DEFINE context == slots[asker[a].slot].content
<1>1. /\ asker[a].stage = "waiting" /\ context # <<>> /\ UNCHANGED <<clock, cache, slots, clears>>
      /\ asker' = [asker EXCEPT ![a].stage = "given", ![a].context = context]
  BY DEF Hit, Enters, Fresh, SlotOf
<1>2. asker[a].slot \in 1 .. Len(slots) /\ slots[asker[a].slot] \in SlotRecord /\ slots \in Seq(SlotRecord)
      /\ asker[a].slot # 0
  BY <1>1, AskerTyped DEF CInv, ContextShapes
<1>3. context \in Contexts
  BY <1>2 DEF SlotRecord
<1> HIDE DEF context
<1>4. /\ ContextShapes' /\ CacheOK' /\ asker'[a].stage = "given" /\ asker'[a].slot = asker[a].slot
      /\ asker'[a].context = context /\ \A b \in Askers \ {a} : asker'[b] = asker[b]
  <2> DEFINE new == [asker[a] EXCEPT !.stage = "given", !.context = context]
  <2>1. new \in AskerRecord /\ new.stage = "given" /\ new.slot = asker[a].slot /\ new.context = context
    <3>1. asker[a] \in AskerRecord /\ "given" \in AskerStages
      BY AskerTyped DEF CInv, AskerStages
    <3> QED BY <1>3, <3>1 DEF AskerRecord
  <2>2. asker' = [asker EXCEPT ![a] = new] /\ asker \in [Askers -> AskerRecord]
    BY <1>1 DEF CInv, ContextShapes
  <2> HIDE DEF new
  <2>3. /\ asker' \in [Askers -> AskerRecord] /\ \A b \in Askers \ {a} : asker'[b] = asker[b]
        /\ asker'[a] = new
    BY <2>1, <2>2
  <2>4. ContextShapes' /\ CacheOK'
    BY <1>1, <1>2, <2>1, <2>3, AskerMoved
  <2> QED BY <2>1, <2>3, <2>4
<1>5. LocksOK'
  <2>1. \A b \in Askers : asker'[b].stage = "computing" => b # a /\ asker'[b] = asker[b]
    BY <1>4
  <2>2. ASSUME NEW b \in Askers, asker'[b].stage = "computing"
        PROVE  /\ slots'[asker'[b].slot].locked
               /\ \A e \in Askers : asker'[e].stage = "computing" /\ asker'[e].slot = asker'[b].slot => e = b
               /\ slots'[asker'[b].slot].content # <<>> =>
                    clock' - slots'[asker'[b].slot].content[1].at >= ContextTTL
    <3>1. asker'[b] = asker[b] /\ slots' = slots /\ clock' = clock /\ asker[b].stage = "computing"
      BY <1>1, <2>1, <2>2
    <3>2. slots[asker[b].slot].locked
      BY <3>1 DEF CInv, LocksOK
    <3>3. slots'[asker'[b].slot].locked
      BY <3>1, <3>2
    <3>4. \A e \in Askers : asker'[e].stage = "computing" /\ asker'[e].slot = asker'[b].slot => e = b
      BY <2>1, <3>1 DEF CInv, LocksOK
    <3>5. slots'[asker'[b].slot].content # <<>> =>
            clock' - slots'[asker'[b].slot].content[1].at >= ContextTTL
      BY <3>1 DEF CInv, LocksOK, Content
    <3> QED BY <3>3, <3>4, <3>5
  <2> QED BY <2>2 DEF LocksOK, Content
<1>6. \A b \in Given : /\ slots[asker[b].slot].content # <<>>
                       /\ \/ asker[b].context = slots[asker[b].slot].content
                          \/ slots[asker[b].slot].content[1].at - asker[b].context[1].at >= ContextTTL
  BY DEF CInv, ContextsOK, Content
<1>7. \A b \in Given' : b = a \/ (b # a /\ b \in Given /\ asker'[b] = asker[b])
  BY <1>4 DEF Given
<1>8. \A b \in Given : asker[b].slot = asker[a].slot => Apart(context[1], asker[b].context[1])
                                                         /\ Apart(asker[b].context[1], context[1])
  BY <1>6 DEF Apart, context
<1>9. Apart(context[1], context[1])
  BY DEF Apart
<1>10. ASSUME NEW b \in Given', NEW e \in Given', asker'[b].slot = asker'[e].slot
       PROVE  Apart(asker'[b].context[1], asker'[e].context[1])
  <2>1. \A x, y \in Given : asker[x].slot = asker[y].slot => Apart(asker[x].context[1], asker[y].context[1])
    BY DEF CInv, ContextsOK
  <2> QED BY <1>4, <1>7, <1>8, <1>9, <1>10, <2>1
<1>11. \A b \in Given' : /\ slots[asker'[b].slot].content # <<>>
                         /\ \/ asker'[b].context = slots[asker'[b].slot].content
                            \/ slots[asker'[b].slot].content[1].at - asker'[b].context[1].at >= ContextTTL
  BY <1>1, <1>4, <1>6, <1>7 DEF context
<1>12. ContextsOK'
  BY <1>1, <1>10, <1>11 DEF CInv, ContextsOK, Content
<1> QED BY <1>4, <1>5, <1>12 DEF CInv

\* A slot that an asker locks has nothing recent, and nobody else computes for it.
LEMMA MissKept ==
  ASSUME CInv, NEW a \in Askers, Miss(a)
  PROVE  CInv'
<1> DEFINE n == asker[a].slot
<1>1. /\ asker[a].stage = "waiting" /\ ~slots[n].locked /\ UNCHANGED <<clock, cache, clears>>
      /\ slots' = [slots EXCEPT ![n].locked = TRUE] /\ asker' = [asker EXCEPT ![a].stage = "computing"]
      /\ slots[n].content # <<>> => ~(clock - slots[n].content[1].at < ContextTTL)
  BY DEF Miss, Enters, Fresh, SlotOf
<1>2. n \in 1 .. Len(slots) /\ slots[n] \in SlotRecord /\ slots \in Seq(SlotRecord) /\ n # 0
      /\ Len(slots) \in Nat /\ clock \in Nat
  BY <1>1, AskerTyped DEF CInv, ContextShapes
<1> HIDE DEF n
<1>3. /\ slots' \in Seq(SlotRecord) /\ Len(slots') = Len(slots) /\ slots'[n].locked
      /\ \A i \in 1 .. Len(slots) : slots'[i].content = slots[i].content
      /\ \A i \in 1 .. Len(slots) : i # n => slots'[i] = slots[i]
  <2> DEFINE new == [slots[n] EXCEPT !.locked = TRUE]
  <2>1. new \in SlotRecord /\ new.locked /\ new.content = slots[n].content
    BY <1>2 DEF SlotRecord
  <2>2. slots' = [slots EXCEPT ![n] = new]
    BY <1>1
  <2> HIDE DEF new
  <2>3. slots' \in Seq(SlotRecord) /\ Len(slots') = Len(slots) /\ slots'[n] = new
        /\ \A i \in 1 .. Len(slots) : i # n => slots'[i] = slots[i]
    BY <1>2, <2>1, <2>2, ExceptSeq
  <2> QED BY <2>1, <2>3
<1>4. /\ ContextShapes' /\ CacheOK' /\ asker'[a].stage = "computing" /\ asker'[a].slot = n
      /\ asker'[a].context = asker[a].context /\ \A b \in Askers \ {a} : asker'[b] = asker[b]
  <2> DEFINE new == [asker[a] EXCEPT !.stage = "computing"]
  <2>1. new \in AskerRecord /\ new.stage = "computing" /\ new.slot = asker[a].slot /\ new.context = asker[a].context
    <3>1. asker[a] \in AskerRecord /\ "computing" \in AskerStages
      BY AskerTyped DEF CInv, AskerStages
    <3> QED BY <3>1 DEF AskerRecord
  <2>2. asker' = [asker EXCEPT ![a] = new] /\ asker \in [Askers -> AskerRecord]
    BY <1>1 DEF CInv, ContextShapes
  <2> HIDE DEF new
  <2>3. /\ asker' \in [Askers -> AskerRecord] /\ \A b \in Askers \ {a} : asker'[b] = asker[b]
        /\ asker'[a] = new
    BY <2>1, <2>2
  <2>4. ContextShapes' /\ CacheOK'
    BY <1>1, <1>2, <1>3, <2>1, <2>3, AskerMoved DEF n
  <2> QED BY <2>1, <2>3, <2>4 DEF n
<1>5. \A b \in Askers : asker[b].slot # 0 => asker[b].slot \in 1 .. Len(slots)
  BY AskerTyped DEF CInv
<1>6. LocksOK'
  <2>1. \A b \in Askers : asker[b].stage = "computing" => asker[b].slot # n /\ asker[b].slot \in 1 .. Len(slots)
    <3>1. \A b \in Askers : asker[b].stage = "computing" => slots[asker[b].slot].locked /\ asker[b].slot # 0
      BY DEF CInv, LocksOK, ContextShapes
    <3> QED BY <1>1, <1>5, <3>1
  <2>2. ASSUME NEW b \in Askers, asker'[b].stage = "computing"
        PROVE  slots'[asker'[b].slot].locked
    <3>1. CASE b = a
      BY <1>3, <1>4, <3>1
    <3>2. CASE b # a
      <4>1. slots'[asker'[b].slot] = slots[asker[b].slot] /\ asker[b].stage = "computing"
        BY <1>3, <1>4, <2>1, <2>2, <3>2
      <4>2. slots[asker[b].slot].locked
        BY <4>1 DEF CInv, LocksOK
      <4> QED BY <4>1, <4>2
    <3> QED BY <3>1, <3>2
  <2>3. \A b, e \in Askers : asker'[b].stage = "computing" /\ asker'[e].stage = "computing"
          /\ asker'[e].slot = asker'[b].slot => e = b
    BY <1>4, <2>1 DEF CInv, LocksOK
  <2>4. ASSUME NEW b \in Askers, asker'[b].stage = "computing", slots'[asker'[b].slot].content # <<>>
        PROVE  clock' - slots'[asker'[b].slot].content[1].at >= ContextTTL
    <3>1. CASE b = a
      <4>1. slots'[asker'[b].slot].content = slots[n].content
        BY <1>2, <1>3, <1>4, <3>1
      <4>2. slots[n].content[1].at \in Nat
        BY <1>2, <2>4, <4>1, ContextTyped DEF SlotRecord
      <4>3. slots[n].content # <<>> /\ ~(clock - slots[n].content[1].at < ContextTTL) /\ clock' = clock
        BY <1>1, <2>4, <4>1
      <4>4. clock - slots[n].content[1].at >= ContextTTL
        BY <1>2, <4>2, <4>3, ContextAssumption
      <4> QED BY <4>1, <4>3, <4>4
    <3>2. CASE b # a
      <4>1. slots'[asker'[b].slot] = slots[asker[b].slot] /\ asker[b].stage = "computing"
        BY <1>3, <1>4, <2>1, <2>4, <3>2
      <4> QED BY <1>1, <2>4, <4>1 DEF CInv, LocksOK, Content
    <3> QED BY <3>1, <3>2
  <2> QED BY <2>2, <2>3, <2>4 DEF LocksOK, Content
<1>7. ContextsOK'
  <2>1. \A b \in Askers : asker'[b].slot = asker[b].slot /\ asker'[b].context = asker[b].context
    BY <1>4 DEF n
  <2>2. Given' = Given /\ \A b \in Given : slots'[asker[b].slot].content = slots[asker[b].slot].content
    <3>1. \A b \in Given : asker[b].slot \in 1 .. Len(slots)
      BY AskerTyped DEF CInv, Given
    <3>2. \A b \in Given : slots'[asker[b].slot].content = slots[asker[b].slot].content
      BY <1>3, <3>1
    <3> QED BY <2>1, <3>2 DEF Given
  <2>3. \A b \in Given : /\ slots'[asker'[b].slot].content # <<>>
                         /\ \/ asker'[b].context = slots'[asker'[b].slot].content
                            \/ slots'[asker'[b].slot].content[1].at - asker'[b].context[1].at >= ContextTTL
    BY <2>1, <2>2 DEF CInv, ContextsOK, Content, Given
  <2>4. \A b, e \in Given : asker'[b].slot = asker'[e].slot =>
          Apart(asker'[b].context[1], asker'[e].context[1])
    BY <2>1 DEF CInv, ContextsOK, Given
  <2>5. \A i \in 1 .. Len(slots') : slots'[i].content # <<>> => slots'[i].content[1].at <= clock'
    BY <1>1, <1>3 DEF CInv, ContextsOK, Content
  <2> QED BY <2>2, <2>3, <2>4, <2>5 DEF ContextsOK, Content
<1> QED BY <1>4, <1>6, <1>7 DEF CInv

\* A new context is a lifetime younger than the slot's old one, and so than all.
LEMMA ComputedKept ==
  ASSUME CInv, NEW a \in Askers, Computed(a)
  PROVE  CInv'
<1> DEFINE n == asker[a].slot
<1>1. PICK memory \in BOOLEAN :
        /\ asker[a].stage = "computing" /\ UNCHANGED <<clock, cache, clears>>
        /\ slots' = [slots EXCEPT ![n] = [locked |-> FALSE,
                       content |-> <<[by |-> a, at |-> clock, memory |-> memory]>>]]
        /\ asker' = [asker EXCEPT ![a].stage = "given",
                       ![a].context = <<[by |-> a, at |-> clock, memory |-> memory]>>]
  BY DEF Computed
<1> DEFINE context == <<[by |-> a, at |-> clock, memory |-> memory]>>
           fresh == [locked |-> FALSE, content |-> context]
<1>2. n \in 1 .. Len(slots) /\ slots[n] \in SlotRecord /\ slots \in Seq(SlotRecord) /\ n # 0
      /\ Len(slots) \in Nat /\ clock \in Nat /\ ContextTTL \in Nat
  BY <1>1, AskerTyped, ContextAssumption DEF CInv, ContextShapes
<1>3. /\ context \in Contexts /\ context # <<>> /\ context[1].at = clock
      /\ fresh \in SlotRecord /\ fresh.content = context
  <2>1. [by |-> a, at |-> clock, memory |-> memory] \in Context
    BY <1>2 DEF Context
  <2>2. context \in Contexts /\ context # <<>> /\ context[1].at = clock
    BY <2>1 DEF Contexts
  <2> QED BY <2>2 DEF SlotRecord
<1>4. slots' = [slots EXCEPT ![n] = fresh]
      /\ asker' = [asker EXCEPT ![a].stage = "given", ![a].context = context]
  BY <1>1
<1>5. /\ \A b \in Askers : asker[b].stage = "computing" /\ asker[b].slot = n => b = a
      /\ slots[n].content # <<>> => clock - slots[n].content[1].at >= ContextTTL
  BY <1>1 DEF CInv, LocksOK, Content
<1> HIDE DEF n, context, fresh
<1>6. /\ slots' \in Seq(SlotRecord) /\ Len(slots') = Len(slots) /\ slots'[n].content = context
      /\ \A i \in 1 .. Len(slots) : i # n => slots'[i] = slots[i]
  BY <1>2, <1>3, <1>4, ExceptSeq
<1>7. /\ ContextShapes' /\ CacheOK' /\ asker'[a].stage = "given" /\ asker'[a].slot = n
      /\ asker'[a].context = context /\ \A b \in Askers \ {a} : asker'[b] = asker[b]
  <2> DEFINE new == [asker[a] EXCEPT !.stage = "given", !.context = context]
  <2>1. new \in AskerRecord /\ new.stage = "given" /\ new.slot = asker[a].slot /\ new.context = context
    <3>1. asker[a] \in AskerRecord /\ "given" \in AskerStages
      BY AskerTyped DEF CInv, AskerStages
    <3> QED BY <1>3, <3>1 DEF AskerRecord
  <2>2. asker' = [asker EXCEPT ![a] = new] /\ asker \in [Askers -> AskerRecord]
    BY <1>4 DEF CInv, ContextShapes
  <2> HIDE DEF new
  <2>3. /\ asker' \in [Askers -> AskerRecord] /\ \A b \in Askers \ {a} : asker'[b] = asker[b]
        /\ asker'[a] = new
    BY <2>1, <2>2
  <2>4. ContextShapes' /\ CacheOK'
    BY <1>1, <1>2, <1>6, <2>1, <2>3, AskerMoved DEF n
  <2> QED BY <2>1, <2>3, <2>4 DEF n
<1>8. \A b \in Given : asker[b].slot \in 1 .. Len(slots)
  BY AskerTyped DEF CInv, Given
<1>9. LocksOK'
  <2>1. \A b \in Askers : asker'[b].stage = "computing" =>
          /\ b # a /\ asker'[b] = asker[b] /\ asker[b].stage = "computing"
          /\ slots'[asker[b].slot] = slots[asker[b].slot]
    <3> SUFFICES ASSUME NEW b \in Askers, asker'[b].stage = "computing"
                 PROVE  /\ b # a /\ asker'[b] = asker[b] /\ asker[b].stage = "computing"
                        /\ slots'[asker[b].slot] = slots[asker[b].slot]
      OBVIOUS
    <3>1. b # a /\ asker'[b] = asker[b] /\ asker[b].stage = "computing"
      BY <1>7
    <3>2. asker[b].slot # n /\ asker[b].slot \in 1 .. Len(slots)
      BY <1>5, <3>1, AskerTyped DEF CInv
    <3> QED BY <1>6, <3>1, <3>2
  <2>2. ASSUME NEW b \in Askers, asker'[b].stage = "computing"
        PROVE  /\ slots'[asker'[b].slot].locked
               /\ \A e \in Askers : asker'[e].stage = "computing" /\ asker'[e].slot = asker'[b].slot => e = b
               /\ slots'[asker'[b].slot].content # <<>> =>
                    clock' - slots'[asker'[b].slot].content[1].at >= ContextTTL
    <3>1. /\ asker'[b] = asker[b] /\ slots'[asker[b].slot] = slots[asker[b].slot]
          /\ clock' = clock /\ asker[b].stage = "computing"
      BY <1>1, <2>1, <2>2
    <3>2. slots[asker[b].slot].locked
      BY <3>1 DEF CInv, LocksOK
    <3>3. slots'[asker'[b].slot].locked
      BY <3>1, <3>2
    <3>4. \A e \in Askers : asker'[e].stage = "computing" /\ asker'[e].slot = asker'[b].slot => e = b
      BY <2>1, <3>1 DEF CInv, LocksOK
    <3>5. slots'[asker'[b].slot].content # <<>> =>
            clock' - slots'[asker'[b].slot].content[1].at >= ContextTTL
      BY <3>1 DEF CInv, LocksOK, Content
    <3> QED BY <3>3, <3>4, <3>5
  <2> QED BY <2>2 DEF LocksOK, Content
<1>10. \A b \in Given : /\ slots[asker[b].slot].content # <<>>
                        /\ \/ asker[b].context = slots[asker[b].slot].content
                           \/ slots[asker[b].slot].content[1].at - asker[b].context[1].at >= ContextTTL
  BY DEF CInv, ContextsOK, Content
\* Who has a context of the slot has one that is a lifetime older than the new one.
<1>11. ASSUME NEW b \in Given, asker[b].slot = n
       PROVE  clock - asker[b].context[1].at >= ContextTTL
  <2>1. slots[n].content # <<>> /\ clock - slots[n].content[1].at >= ContextTTL
    BY <1>5, <1>10, <1>11
  <2>2. slots[n].content[1].at \in Nat
    BY <1>2, <2>1, ContextTyped DEF SlotRecord
  <2>3. asker[b].context[1].at \in Nat
    <3>1. asker[b].context \in Contexts /\ asker[b].context # <<>>
      BY AskerTyped DEF CInv, AskerRecord, Given
    <3> QED BY <3>1, ContextTyped
  <2>4. CASE asker[b].context = slots[n].content
    BY <2>1, <2>4
  <2>5. CASE slots[n].content[1].at - asker[b].context[1].at >= ContextTTL
    BY <1>2, <2>1, <2>2, <2>3, <2>5
  <2> QED BY <1>10, <1>11, <2>4, <2>5
<1>12. \A b \in Given' : b = a \/ (b # a /\ b \in Given /\ asker'[b] = asker[b])
  BY <1>7 DEF Given
<1>13. ASSUME NEW b \in Given'
       PROVE  /\ slots'[asker'[b].slot].content # <<>>
              /\ \/ asker'[b].context = slots'[asker'[b].slot].content
                 \/ slots'[asker'[b].slot].content[1].at - asker'[b].context[1].at >= ContextTTL
  <2>1. CASE b = a
    BY <1>3, <1>6, <1>7, <2>1
  <2>2. CASE b # a /\ asker[b].slot = n
    <3>1. b \in Given /\ asker'[b] = asker[b]
      BY <1>12, <2>2
    <3>2. clock - asker[b].context[1].at >= ContextTTL
      BY <1>11, <2>2, <3>1
    <3> QED BY <1>3, <1>6, <2>2, <3>1, <3>2
  <2>3. CASE b # a /\ asker[b].slot # n
    <3>1. b \in Given /\ asker'[b] = asker[b] /\ slots'[asker[b].slot] = slots[asker[b].slot]
      BY <1>6, <1>8, <1>12, <2>3
    <3> QED BY <1>10, <3>1
  <2> QED BY <2>1, <2>2, <2>3
<1>14. ASSUME NEW b \in Given', NEW e \in Given', asker'[b].slot = asker'[e].slot
       PROVE  Apart(asker'[b].context[1], asker'[e].context[1])
  <2>1. \A x, y \in Given : asker[x].slot = asker[y].slot => Apart(asker[x].context[1], asker[y].context[1])
    BY DEF CInv, ContextsOK
  <2>2. CASE b = a /\ e = a
    BY <2>2 DEF Apart
  <2>3. CASE b = a /\ e # a
    <3>1. clock - asker'[e].context[1].at >= ContextTTL /\ asker'[b].context[1].at = clock
      BY <1>3, <1>7, <1>11, <1>12, <1>14, <2>3
    <3> QED BY <3>1 DEF Apart
  <2>4. CASE b # a /\ e = a
    <3>1. clock - asker'[b].context[1].at >= ContextTTL /\ asker'[e].context[1].at = clock
      BY <1>3, <1>7, <1>11, <1>12, <1>14, <2>4
    <3> QED BY <3>1 DEF Apart
  <2>5. CASE b # a /\ e # a
    BY <1>12, <1>14, <2>1, <2>5
  <2> QED BY <2>2, <2>3, <2>4, <2>5
<1>15. \A i \in 1 .. Len(slots') : slots'[i].content # <<>> => slots'[i].content[1].at <= clock'
  <2> SUFFICES ASSUME NEW i \in 1 .. Len(slots'), slots'[i].content # <<>>
               PROVE  slots'[i].content[1].at <= clock'
    OBVIOUS
  <2>1. CASE i = n
    BY <1>1, <1>2, <1>3, <1>6, <2>1
  <2>2. CASE i # n
    BY <1>1, <1>6, <2>2 DEF CInv, ContextsOK, Content
  <2> QED BY <2>1, <2>2
<1>16. ContextsOK'
  BY <1>13, <1>14, <1>15 DEF ContextsOK, Content
<1> QED BY <1>7, <1>9, <1>16 DEF CInv

\* Who is aborted computes no more, and unlocks what only it had locked.
LEMMA AbortKept ==
  ASSUME CInv, NEW a \in Turns, Abort(a)
  PROVE  CInv'
<1> DEFINE n == asker[a].slot
<1>1. /\ asker' = [asker EXCEPT ![a].stage = "aborted"] /\ UNCHANGED <<clock, cache, clears>>
      /\ slots' = IF asker[a].stage = "computing"
                  THEN [slots EXCEPT ![asker[a].slot].locked = FALSE] ELSE slots
      /\ a \in Askers
  BY DEF Abort, Turns
<1>2. ContextShapes /\ slots \in Seq(SlotRecord) /\ Len(slots) \in Nat /\ clock \in Nat
  BY DEF CInv, ContextShapes
<1>3. /\ slots' \in Seq(SlotRecord) /\ Len(slots') = Len(slots)
      /\ \A i \in 1 .. Len(slots) : slots'[i].content = slots[i].content
      /\ \A i \in 1 .. Len(slots) : i # n \/ asker[a].stage # "computing" => slots'[i] = slots[i]
  <2>1. CASE asker[a].stage = "computing"
    <3> DEFINE new == [slots[n] EXCEPT !.locked = FALSE]
    <3>1. n \in 1 .. Len(slots) /\ slots[n] \in SlotRecord
      BY <1>1, <1>2, <2>1, AskerTyped
    <3>2. new \in SlotRecord /\ new.content = slots[n].content
      BY <3>1 DEF SlotRecord
    <3>3. slots' = [slots EXCEPT ![n] = new]
      BY <1>1, <2>1
    <3> HIDE DEF new
    <3>4. slots' \in Seq(SlotRecord) /\ Len(slots') = Len(slots) /\ slots'[n] = new
          /\ \A i \in 1 .. Len(slots) : i # n => slots'[i] = slots[i]
      BY <1>2, <3>1, <3>2, <3>3, ExceptSeq
    <3> QED BY <2>1, <3>2, <3>4
  <2>2. CASE asker[a].stage # "computing"
    BY <1>1, <1>2, <2>2
  <2> QED BY <2>1, <2>2
<1>4. /\ ContextShapes' /\ CacheOK' /\ asker'[a].stage = "aborted" /\ asker'[a].slot = asker[a].slot
      /\ asker'[a].context = asker[a].context /\ \A b \in Askers \ {a} : asker'[b] = asker[b]
  <2> DEFINE new == [asker[a] EXCEPT !.stage = "aborted"]
  <2>1. new \in AskerRecord /\ new.stage = "aborted" /\ new.slot = asker[a].slot /\ new.context = asker[a].context
    <3>1. asker[a] \in AskerRecord /\ "aborted" \in AskerStages
      BY <1>1, AskerTyped DEF CInv, AskerStages
    <3> QED BY <3>1 DEF AskerRecord
  <2>2. asker' = [asker EXCEPT ![a] = new] /\ asker \in [Askers -> AskerRecord]
    BY <1>1 DEF CInv, ContextShapes
  <2> HIDE DEF new
  <2>3. /\ asker' \in [Askers -> AskerRecord] /\ \A b \in Askers \ {a} : asker'[b] = asker[b]
        /\ asker'[a] = new
    BY <1>1, <2>1, <2>2
  <2>4. asker[a].slot = 0 => new.context = <<>>
    BY <1>1, <1>2, <2>1 DEF ContextShapes
  <2>5. ContextShapes' /\ CacheOK'
    BY <1>1, <1>2, <1>3, <2>1, <2>3, <2>4, AskerMoved
  <2> QED BY <2>1, <2>3, <2>5 DEF n
<1>5. LocksOK'
  <2>1. \A b \in Askers : asker'[b].stage = "computing" =>
          /\ b # a /\ asker'[b] = asker[b] /\ asker[b].stage = "computing"
          /\ slots'[asker[b].slot] = slots[asker[b].slot]
    <3> SUFFICES ASSUME NEW b \in Askers, asker'[b].stage = "computing"
                 PROVE  /\ b # a /\ asker'[b] = asker[b] /\ asker[b].stage = "computing"
                        /\ slots'[asker[b].slot] = slots[asker[b].slot]
      OBVIOUS
    <3>1. b # a /\ asker'[b] = asker[b] /\ asker[b].stage = "computing"
      BY <1>4
    <3>2. asker[b].slot \in 1 .. Len(slots)
      BY <1>2, <3>1, AskerTyped
    <3>3. asker[a].stage = "computing" => asker[b].slot # n
      BY <1>1, <3>1 DEF CInv, LocksOK
    <3> QED BY <1>3, <3>1, <3>2, <3>3
  <2>2. ASSUME NEW b \in Askers, asker'[b].stage = "computing"
        PROVE  /\ slots'[asker'[b].slot].locked
               /\ \A e \in Askers : asker'[e].stage = "computing" /\ asker'[e].slot = asker'[b].slot => e = b
               /\ slots'[asker'[b].slot].content # <<>> =>
                    clock' - slots'[asker'[b].slot].content[1].at >= ContextTTL
    <3>1. /\ asker'[b] = asker[b] /\ slots'[asker[b].slot] = slots[asker[b].slot]
          /\ clock' = clock /\ asker[b].stage = "computing"
      BY <1>1, <2>1, <2>2
    <3>2. slots[asker[b].slot].locked
      BY <3>1 DEF CInv, LocksOK
    <3>3. slots'[asker'[b].slot].locked
      BY <3>1, <3>2
    <3>4. \A e \in Askers : asker'[e].stage = "computing" /\ asker'[e].slot = asker'[b].slot => e = b
      BY <2>1, <3>1 DEF CInv, LocksOK
    <3>5. slots'[asker'[b].slot].content # <<>> =>
            clock' - slots'[asker'[b].slot].content[1].at >= ContextTTL
      BY <3>1 DEF CInv, LocksOK, Content
    <3> QED BY <3>3, <3>4, <3>5
  <2> QED BY <2>2 DEF LocksOK, Content
<1>6. ContextsOK'
  <2>1. \A b \in Askers : asker'[b].slot = asker[b].slot /\ asker'[b].context = asker[b].context
    BY <1>4
  <2>2. Given' = Given /\ \A b \in Given : slots'[asker[b].slot].content = slots[asker[b].slot].content
    <3>1. \A b \in Given : asker[b].slot \in 1 .. Len(slots)
      BY AskerTyped DEF CInv, Given
    <3>2. \A b \in Given : slots'[asker[b].slot].content = slots[asker[b].slot].content
      BY <1>3, <3>1
    <3> QED BY <2>1, <3>2 DEF Given
  <2>3. \A b \in Given : /\ slots'[asker'[b].slot].content # <<>>
                         /\ \/ asker'[b].context = slots'[asker'[b].slot].content
                            \/ slots'[asker'[b].slot].content[1].at - asker'[b].context[1].at >= ContextTTL
    BY <2>1, <2>2 DEF CInv, ContextsOK, Content, Given
  <2>4. \A b, e \in Given : asker'[b].slot = asker'[e].slot =>
          Apart(asker'[b].context[1], asker'[e].context[1])
    BY <2>1 DEF CInv, ContextsOK, Given
  <2>5. \A i \in 1 .. Len(slots') : slots'[i].content # <<>> => slots'[i].content[1].at <= clock'
    BY <1>1, <1>3 DEF CInv, ContextsOK, Content
  <2> QED BY <2>2, <2>3, <2>4, <2>5 DEF ContextsOK, Content
<1> QED BY <1>4, <1>5, <1>6 DEF CInv

-----------------------------------------------------------------------------
(* What follows from the contexts' invariant *)

LEMMA ContextsInvariant == Spec => []CInv
<1>1. Init => CInv
  BY InitContexts
<1>2. CInv /\ [Next]_vars => CInv'
  <2> SUFFICES ASSUME CInv, [Next]_vars PROVE CInv'
    OBVIOUS
  <2>1. clock \in Nat
    BY DEF CInv, ContextShapes
  <2>2. ASSUME NEW a \in Askers, AskerStep(a) PROVE CInv'
    BY <2>2, TakeSlotKept, HitKept, MissKept, ComputedKept DEF AskerStep
  <2>3. ASSUME NEW t \in Turns, TurnStep(t) PROVE CInv'
    <3>1. UNCHANGED <<clock, cache, slots, clears, asker>>
      BY <2>3 DEF TurnStep, Begin, LoadSummary, ReadState, Replied, ReplyFails, Execute, CallFails,
                  NoGraph, Fallback, Requested, Rest, contextVars
    <3> QED BY <2>1, <3>1, ContextsKept
  <2>4. ASSUME NEW t \in Turns, Abort(t) PROVE CInv'
    BY <2>4, AbortKept
  <2>5. CASE Tick
    <3>1. UNCHANGED <<cache, slots, clears, asker>> /\ clock' = clock + 1
      BY <2>5 DEF Tick, contextVars
    <3> QED BY <2>1, <3>1, ContextsKept
  <2>6. CASE UNCHANGED vars
    BY <2>1, <2>6, ContextsKept DEF vars, contextVars
  <2> QED BY <2>2, <2>3, <2>4, <2>5, <2>6 DEF Next
<1> QED BY <1>1, <1>2, PTL DEF Spec

\* One message has one slot unless the cache was cleared, and one slot gives what
\* asks within a lifetime one context: get_or_build_shared_cognitive_context
\* computes under the slot's lock.
THEOREM OneContextPerMessage == Spec => []SameContext
<1>1. CInv => SameContext
  <2> SUFFICES ASSUME CInv, NEW a \in Given, NEW b \in Given, a[1] = b[1], ~clears
               PROVE  Apart(asker[a].context[1], asker[b].context[1])
    BY DEF SameContext, Apart
  <2>1. asker[a].slot # 0 /\ asker[b].slot # 0 /\ a \in Askers /\ b \in Askers
    BY DEF CInv, ContextShapes, Given
  <2>2. asker[a].slot = asker[b].slot
    BY <2>1 DEF CInv, CacheOK
  <2> QED BY <2>2 DEF CInv, ContextsOK
<1> QED BY <1>1, ContextsInvariant, PTL

-------------------------------------------------------------------------------
(* The prompts: what a turn has at each of its stages *)

Opening(memory, summary) == <<"persona">> \o If(memory, "memory") \o If(summary, "summary")
IsSeq(s) == s \in Seq(ToSet(s))
Said(p) == {p[i] : i \in {k \in DOMAIN p : p[k].role = "user"}}
\* PromptWellFormed, of a prompt p in a turn as s sets it up, with images or not.
Whole(p, s, images) ==
  /\ p[1].role = "system" /\ Direct(s, p[1].blocks)
  /\ Cardinality(Results(p)) <= MaxCalls
  /\ \A i \in Results(p) : AnswersItsCall(s, p, i)
  /\ Results(p) # {} => "summary" \notin ToSet(p[1].blocks)
  /\ AllAnswered(p) \/ Cardinality(Results(p)) = MaxCalls
  /\ Said(p) = {User(images)}
\* What is demanded of the images.
Images(T, s) == s.images /\ (Loops(s) => T.degraded)

\* No message but results follows the j-th.
IsLast(p, j) == \A k \in j + 1 .. Len(p) : p[k].role = "tool"
\* The messages of a loop that has executed so many calls: all are answered but
\* perhaps those of the last round ...
LoopOK(messages, s, executed) ==
  /\ IsSeq(messages) /\ Len(messages) >= 1 /\ messages[1].role = "system"
  /\ IsFiniteSet(Results(messages)) /\ Cardinality(Results(messages)) = executed
  /\ \A i \in Results(messages) : AnswersItsCall(s, messages, i)
  /\ Said(messages) = {User(FALSE)}
  /\ \A j \in DOMAIN messages : messages[j].role = "assistant" =>
       IsLast(messages, j) \/ \A k \in DOMAIN messages[j].calls : j + k \in Results(messages)
\* ... of which it has these left.
Pending(messages, calls) ==
  \E j \in 1 .. Len(messages) :
    LET done == Len(messages) - j IN
    /\ messages[j].role = "assistant" /\ IsLast(messages, j)
    /\ DOMAIN messages[j].calls = 1 .. done + Len(calls)
    /\ \A k \in 1 .. Len(calls) : messages[j].calls[done + k] = Numbered(calls[k], done + k)

BeforeLoop == {"context", "summary", "state"}
InLoop == {"asking", "running"}
\* A turn, as s sets it up, at each of its stages.
TurnOK(T, s) ==
  /\ DOMAIN T = DOMAIN NoTurn
  /\ T.executed \in Nat /\ T.requests \in Nat /\ T.requests <= MaxCalls
  /\ T.stage \in BeforeLoop => T.executed = 0 /\ T.requests = 0 /\ T.degraded = FALSE
  /\ T.stage = "summary" =>
       ~Loops(s) /\ \E memory \in BOOLEAN : T.blocks = <<"persona">> \o If(memory, "memory")
  /\ T.stage = "state" =>
       \E memory, summary \in BOOLEAN :
         T.blocks = Opening(memory, summary) /\ (summary => ~Loops(s))
  /\ T.stage \in InLoop \cup {"ready", "fallback"} =>
       /\ T.prompt = Final(s, T.blocks)
       /\ \E memory \in BOOLEAN : /\ T.blocks = DirectBlocks(s, memory, FALSE)
                                  /\ T.social = Len(Opening(memory, FALSE))
  /\ T.stage = "fallback" => T.degraded = TRUE
  /\ T.stage \in InLoop => /\ LoopOK(T.loop, s, T.executed) /\ T.executed < MaxCalls
                           /\ Loops(s) /\ T.degraded = FALSE
  /\ T.stage = "asking" => T.requests <= T.executed /\ AllAnswered(T.loop)
  /\ T.stage = "running" =>
       /\ T.requests <= T.executed + 1 /\ Pending(T.loop, T.calls)
       /\ T.calls \in Seq(Call) /\ T.calls # <<>>
  /\ T.stage \in {"request", "streaming"} => Whole(T.prompt, s, Images(T, s))
TInv ==
  /\ turn = [t \in Turns |-> turn[t]] /\ setup \in [Turns -> Setup]
  /\ \A t \in Turns : TurnOK(turn[t], setup[t])

-----------------------------------------------------------------------------
(* Sequences of messages and of blocks *)

LEMMA OwnSeq ==
  ASSUME NEW S, NEW s \in Seq(S)
  PROVE  IsSeq(s)
BY SeqOfRange DEF IsSeq, ToSet, Range

LEMMA SeqParts ==
  ASSUME NEW s, IsSeq(s)
  PROVE  Len(s) \in Nat /\ DOMAIN s = 1 .. Len(s)
BY LenProperties DEF IsSeq

LEMMA OneOf ==
  ASSUME NEW S, NEW x \in S
  PROVE  /\ <<x>> \in Seq(S) /\ Len(<<x>>) = 1 /\ <<x>>[1] = x
         /\ <<>> \in Seq(S) /\ Len(<<>>) = 0
OBVIOUS

LEMMA Appended ==
  ASSUME NEW s, IsSeq(s), NEW x
  PROVE  /\ IsSeq(Append(s, x)) /\ Len(Append(s, x)) = Len(s) + 1
         /\ \A i \in 1 .. Len(s) : Append(s, x)[i] = s[i]
         /\ Append(s, x)[Len(s) + 1] = x
<1> DEFINE S == ToSet(s) \cup {x}
<1>1. s \in Seq(S) /\ x \in S
  BY SeqMonotonic DEF IsSeq
<1> HIDE DEF S
<1>2. /\ Append(s, x) \in Seq(S) /\ Len(Append(s, x)) = Len(s) + 1
      /\ \A i \in 1 .. Len(s) : Append(s, x)[i] = s[i]
      /\ Append(s, x)[Len(s) + 1] = x
  BY <1>1, AppendProperties
<1>3. IsSeq(Append(s, x))
  BY <1>2, OwnSeq
<1> QED BY <1>2, <1>3

\* The same messages after another first one.
LEMMA Retitled ==
  ASSUME NEW s, IsSeq(s), Len(s) >= 1, NEW x
  PROVE  /\ IsSeq(<<x>> \o Tail(s)) /\ Len(<<x>> \o Tail(s)) = Len(s)
         /\ (<<x>> \o Tail(s))[1] = x
         /\ \A i \in 2 .. Len(s) : (<<x>> \o Tail(s))[i] = s[i]
<1> DEFINE S == ToSet(s) \cup {x}
           t == Tail(s)
           p == <<x>> \o t
<1>1. s \in Seq(S) /\ <<x>> \in Seq(S) /\ Len(<<x>>) = 1 /\ <<x>>[1] = x
  BY SeqMonotonic DEF IsSeq
<1> HIDE DEF S
<1>2. s # <<>> /\ Len(s) \in Nat
  BY <1>1, EmptySeq, LenProperties
<1>3. t \in Seq(S) /\ Len(t) = Len(s) - 1 /\ \A i \in 1 .. Len(t) : t[i] = s[i + 1]
  BY <1>1, <1>2, HeadTailProperties
<1> HIDE DEF t
<1>4. /\ p \in Seq(S) /\ Len(p) = 1 + Len(t)
      /\ \A i \in 1 .. 1 + Len(t) : p[i] = IF i <= 1 THEN <<x>>[i] ELSE t[i - 1]
  BY <1>1, <1>3, ConcatProperties
<1> HIDE DEF p
<1>5. p[1] = x /\ Len(p) = Len(s)
  BY <1>1, <1>2, <1>3, <1>4
<1>6. ASSUME NEW i \in 2 .. Len(s) PROVE p[i] = s[i]
  <2>1. i \in 1 .. 1 + Len(t) /\ ~(i <= 1) /\ i - 1 \in 1 .. Len(t) /\ (i - 1) + 1 = i
    BY <1>2, <1>3
  <2> QED BY <1>3, <1>4, <2>1
<1>7. IsSeq(p)
  BY <1>4, OwnSeq
<1> QED BY <1>5, <1>6, <1>7 DEF p, t

\* build_final_messages and build_tool_planning_messages: a system message, then
\* at most the history, and the user's message.
LEMMA PromptParts ==
  ASSUME NEW x, NEW s, NEW u
  PROVE  LET p == <<x>> \o History(s) \o <<u>>
         IN  /\ IsSeq(p) /\ Len(p) >= 2 /\ p[1] = x /\ p[Len(p)] = u
             /\ \A i \in 2 .. Len(p) : p[i] \in {[role |-> "history"], u}
<1> DEFINE h == [role |-> "history"]
           S == {x, h, u}
           a == <<x>>
           b == History(s)
           c == <<u>>
           p == a \o b \o c
<1>1. /\ a \in Seq(S) /\ Len(a) = 1 /\ a[1] = x /\ c \in Seq(S) /\ Len(c) = 1 /\ c[1] = u
      /\ b \in Seq(S) /\ Len(b) \in {0, 1} /\ \A i \in 1 .. Len(b) : b[i] = h
  <2>1. x \in S /\ h \in S /\ u \in S
    OBVIOUS
  <2>2. b = <<>> \/ b = <<h>>
    BY DEF History
  <2> HIDE DEF h, S, b
  <2>3. /\ <<x>> \in Seq(S) /\ Len(<<x>>) = 1 /\ <<x>>[1] = x
        /\ <<u>> \in Seq(S) /\ Len(<<u>>) = 1 /\ <<u>>[1] = u
    BY <2>1, OneOf
  <2>4. /\ <<h>> \in Seq(S) /\ Len(<<h>>) = 1 /\ <<h>>[1] = h
        /\ <<>> \in Seq(S) /\ Len(<<>>) = 0
    BY <2>1, OneOf
  <2>5. b \in Seq(S) /\ Len(b) \in {0, 1} /\ \A i \in 1 .. Len(b) : b[i] = h
    <3>1. CASE b = <<>>
      BY <2>4, <3>1
    <3>2. CASE b = <<h>>
      <4>1. \A i \in 1 .. Len(b) : i = 1
        BY <2>4, <3>2
      <4> QED BY <2>4, <3>2, <4>1
    <3> QED BY <2>2, <3>1, <3>2
  <2> QED BY <2>3, <2>5
<1> HIDE DEF a, b, c, S
<1>2. /\ a \o b \in Seq(S) /\ Len(a \o b) = 1 + Len(b)
      /\ \A i \in 1 .. 1 + Len(b) : (a \o b)[i] = IF i <= 1 THEN a[i] ELSE b[i - 1]
  BY <1>1, ConcatProperties
<1> DEFINE ab == a \o b
<1>3. ab \in Seq(S) /\ Len(ab) = 1 + Len(b)
  BY <1>2
<1>4. ab[1] = x /\ \A i \in 2 .. 1 + Len(b) : ab[i] = h
  <2>1. ASSUME NEW i \in 2 .. 1 + Len(b) PROVE ab[i] = h
    <3>1. i \in 1 .. 1 + Len(b) /\ ~(i <= 1) /\ i - 1 \in 1 .. Len(b)
      BY <1>1
    <3> QED BY <1>1, <1>2, <3>1
  <2> QED BY <1>1, <1>2, <2>1
<1> HIDE DEF ab
<1>5. /\ ab \o c \in Seq(S) /\ Len(ab \o c) = 2 + Len(b)
      /\ \A i \in 1 .. 2 + Len(b) : (ab \o c)[i] = IF i <= 1 + Len(b) THEN ab[i] ELSE c[i - (1 + Len(b))]
  <2>1. /\ ab \o c \in Seq(S) /\ Len(ab \o c) = Len(ab) + Len(c)
        /\ \A i \in 1 .. Len(ab) + Len(c) : (ab \o c)[i] = IF i <= Len(ab) THEN ab[i] ELSE c[i - Len(ab)]
    BY <1>1, <1>3, ConcatProperties
  <2>2. Len(ab) = 1 + Len(b) /\ Len(ab) + Len(c) = 2 + Len(b)
    BY <1>1, <1>3
  <2> QED BY <2>1, <2>2
<1>6. p = ab \o c
  BY DEF ab
<1> HIDE DEF p
<1>7. p[1] = x
  BY <1>1, <1>4, <1>5, <1>6
<1>8. ASSUME NEW i \in 2 .. Len(p) PROVE p[i] \in {h, u}
  <2>1. Len(b) \in Nat /\ i \in 1 .. 2 + Len(b) /\ i >= 2
    BY <1>1, <1>5, <1>6, <1>8
  <2>2. CASE i <= 1 + Len(b)
    BY <1>4, <1>5, <1>6, <2>1, <2>2
  <2>3. CASE i > 1 + Len(b)
    <3>1. i - (1 + Len(b)) = 1 /\ ~(i <= 1 + Len(b))
      BY <2>1, <2>3
    <3> QED BY <1>1, <1>5, <1>6, <2>1, <3>1
  <2> QED BY <2>1, <2>2, <2>3
<1>9. IsSeq(p) /\ Len(p) >= 2
  <2>1. p \in Seq(S) /\ Len(p) = 2 + Len(b)
    BY <1>5, <1>6
  <2> QED BY <1>1, <2>1, OwnSeq
<1>10. p[Len(p)] = u
  <2>1. Len(p) = 2 + Len(b) /\ Len(b) \in Nat
    BY <1>1, <1>5, <1>6
  <2>2. Len(p) \in 1 .. 2 + Len(b) /\ ~(Len(p) <= 1 + Len(b)) /\ Len(p) - (1 + Len(b)) = 1
    BY <2>1
  <2> QED BY <1>1, <1>5, <1>6, <2>2
<1>11. p = <<x>> \o History(s) \o <<u>>
  BY DEF p, a, b, c
<1> QED BY <1>7, <1>8, <1>9, <1>10, <1>11

BlockNames == {"persona", "memory", "summary", "legend", "state", "time"}
LEMMA OneBlock ==
  ASSUME NEW b \in BlockNames
  PROVE  /\ <<b>> \in Seq(BlockNames) /\ Len(<<b>>) = 1 /\ <<b>>[1] = b
         /\ <<>> \in Seq(BlockNames) /\ Len(<<>>) = 0
BY OneOf

LEMMA OpeningPlain ==
  ASSUME NEW memory \in BOOLEAN
  PROVE  /\ Opening(memory, FALSE) = <<"persona">> \o If(memory, "memory")
         /\ Opening(memory, FALSE) \in Seq(BlockNames)
         /\ Len(Opening(memory, FALSE)) >= 1
         /\ "summary" \notin ToSet(Opening(memory, FALSE))
<1> DEFINE a == <<"persona">>
           b == If(memory, "memory")
           c == a \o b
<1>1. /\ a \in Seq(BlockNames) /\ Len(a) = 1 /\ a[1] = "persona"
      /\ b \in Seq(BlockNames) /\ Len(b) \in {0, 1} /\ \A i \in 1 .. Len(b) : b[i] = "memory"
  <2> DEFINE x == "memory"
             y == "persona"
  <2>1. (b = <<>> \/ b = <<x>>) /\ a = <<y>> /\ x \in BlockNames /\ y \in BlockNames
    BY DEF If, BlockNames
  <2>2. x = "memory" /\ y = "persona"
    OBVIOUS
  <2> HIDE DEF a, b, x, y
  <2>3. /\ <<x>> \in Seq(BlockNames) /\ Len(<<x>>) = 1 /\ <<x>>[1] = x
        /\ <<>> \in Seq(BlockNames) /\ Len(<<>>) = 0
    BY <2>1, OneBlock
  <2>4. <<y>> \in Seq(BlockNames) /\ Len(<<y>>) = 1 /\ <<y>>[1] = y
    BY <2>1, OneBlock
  <2>5. b \in Seq(BlockNames) /\ Len(b) \in {0, 1} /\ \A i \in 1 .. Len(b) : b[i] = x
    <3>1. CASE b = <<>>
      BY <2>3, <3>1
    <3>2. CASE b = <<x>>
      <4>1. \A i \in 1 .. Len(b) : i = 1
        BY <2>3, <3>2
      <4> QED BY <2>3, <3>2, <4>1
    <3> QED BY <2>1, <3>1, <3>2
  <2> QED BY <2>1, <2>2, <2>4, <2>5
<1> HIDE DEF a, b
<1>2. /\ c \in Seq(BlockNames) /\ Len(c) = 1 + Len(b)
      /\ \A i \in 1 .. 1 + Len(b) : c[i] = IF i <= 1 THEN a[i] ELSE b[i - 1]
  BY <1>1, ConcatProperties
<1>3. c = <<"persona">> \o If(memory, "memory")
  BY DEF a, b
<1> HIDE DEF c
<1>4. \A i \in 1 .. Len(c) : c[i] # "summary"
  <2> SUFFICES ASSUME NEW i \in 1 .. Len(c) PROVE c[i] # "summary"
    OBVIOUS
  <2>1. CASE i = 1
    BY <1>1, <1>2, <2>1
  <2>2. CASE i # 1
    <3>1. i - 1 \in 1 .. Len(b) /\ i \in 1 .. 1 + Len(b) /\ ~(i <= 1)
      BY <1>1, <1>2, <2>2
    <3> QED BY <1>1, <1>2, <3>1
  <2> QED BY <2>1, <2>2
<1>5. "summary" \notin ToSet(c)
  BY <1>2, <1>4, LenProperties DEF ToSet
<1>6. Opening(memory, FALSE) = c \o <<>>
  BY <1>3 DEF Opening, If
<1>7. c \o <<>> = c
  BY <1>2, ConcatEmptySeq
<1>8. Len(c) >= 1
  BY <1>1, <1>2
<1> QED BY <1>2, <1>3, <1>5, <1>6, <1>7, <1>8

LEMMA NotInConcat ==
  ASSUME NEW S, NEW s \in Seq(S), NEW t \in Seq(S), NEW x, x \notin ToSet(s), x \notin ToSet(t)
  PROVE  x \notin ToSet(s \o t)
<1> DEFINE p == s \o t
<1>1. /\ p \in Seq(S) /\ Len(p) = Len(s) + Len(t) /\ Len(s) \in Nat /\ Len(t) \in Nat
      /\ \A i \in 1 .. Len(s) + Len(t) : p[i] = IF i <= Len(s) THEN s[i] ELSE t[i - Len(s)]
  BY ConcatProperties, LenProperties
<1>2. DOMAIN p = 1 .. Len(p) /\ DOMAIN s = 1 .. Len(s) /\ DOMAIN t = 1 .. Len(t)
  BY <1>1, LenProperties
<1> HIDE DEF p
<1>3. ASSUME NEW i \in 1 .. Len(p) PROVE p[i] # x
  <2>1. CASE i <= Len(s)
    BY <1>1, <1>2, <2>1 DEF ToSet
  <2>2. CASE i > Len(s)
    <3>1. i - Len(s) \in DOMAIN t /\ ~(i <= Len(s)) /\ i \in 1 .. Len(s) + Len(t)
      BY <1>1, <1>2, <2>2
    <3> QED BY <1>1, <3>1 DEF ToSet
  <2> QED BY <1>1, <2>1, <2>2
<1>4. x \notin ToSet(p)
  BY <1>2, <1>3 DEF ToSet
<1> QED BY <1>4 DEF p

LEMMA IfParts ==
  ASSUME NEW condition, NEW b \in BlockNames, b # "summary"
  PROVE  If(condition, b) \in Seq(BlockNames) /\ "summary" \notin ToSet(If(condition, b))
<1>1. If(condition, b) = <<>> \/ If(condition, b) = <<b>>
  BY DEF If
<1>2. /\ <<b>> \in Seq(BlockNames) /\ Len(<<b>>) = 1 /\ <<b>>[1] = b
      /\ <<>> \in Seq(BlockNames) /\ Len(<<>>) = 0
  BY OneBlock
<1> DEFINE one == <<b>>
           none == <<>>
<1>3. "summary" \notin ToSet(one)
  <2>1. DOMAIN one = 1 .. 1 /\ \A i \in 1 .. 1 : one[i] = b
    BY <1>2, LenProperties
  <2> HIDE DEF one
  <2> QED BY <2>1 DEF ToSet
<1>4. "summary" \notin ToSet(none)
  <2>1. DOMAIN none = 1 .. 0
    BY <1>2, LenProperties
  <2> HIDE DEF none
  <2> QED BY <2>1 DEF ToSet
<1> QED BY <1>1, <1>2, <1>3, <1>4

\* Everything that comes after the summary's place.
Ending(s) == StateParts(s) \o <<"time">>
LEMMA EndingParts ==
  ASSUME NEW s
  PROVE  /\ StateParts(s) \in Seq(BlockNames)
         /\ Ending(s) \in Seq(BlockNames) /\ Len(Ending(s)) >= 1
         /\ "summary" \notin ToSet(Ending(s))
<1> DEFINE a == If(s.state /\ s.legend, "legend")
           b == If(s.state, "state")
           c == If(TRUE, "time")
<1>1. "legend" \in BlockNames /\ "state" \in BlockNames /\ "time" \in BlockNames
  BY DEF BlockNames
<1>2. /\ a \in Seq(BlockNames) /\ "summary" \notin ToSet(a)
      /\ b \in Seq(BlockNames) /\ "summary" \notin ToSet(b)
      /\ c \in Seq(BlockNames) /\ "summary" \notin ToSet(c)
  BY <1>1, IfParts
<1>3. c = <<"time">> /\ Len(c) = 1 /\ StateParts(s) = a \o b
  BY DEF If, StateParts
<1> HIDE DEF a, b, c
<1> DEFINE d == a \o b
<1>4. d \in Seq(BlockNames) /\ "summary" \notin ToSet(d)
  BY <1>2, ConcatProperties, NotInConcat
<1>5. Ending(s) = d \o c
  BY <1>3 DEF Ending
<1> HIDE DEF d
<1>6. d \o c \in Seq(BlockNames) /\ Len(d \o c) = Len(d) + Len(c)
  BY <1>2, <1>4, ConcatProperties
<1>7. "summary" \notin ToSet(d \o c)
  BY <1>2, <1>4, NotInConcat
<1>8. Len(d) \in Nat
  BY <1>4, LenProperties
<1>9. Len(d \o c) >= 1
  BY <1>3, <1>6, <1>8
<1> QED BY <1>3, <1>4, <1>5, <1>6, <1>7, <1>9 DEF d

-------------------------------------------------------------------------------
(* The blocks of a system message *)

LEMMA InsertedBetween ==
  ASSUME NEW S, NEW p \in Seq(S), NEW e \in Seq(S), NEW x, Len(p) >= 1, Len(e) >= 1
  PROVE  InsertAt(p \o e, Len(p) + 1, x) = p \o <<x>> \o e
<1>1. /\ Len(p) \in Nat /\ Len(e) \in Nat /\ p \o e \in Seq(S) /\ Len(p \o e) = Len(p) + Len(e)
  BY LenProperties, ConcatProperties
<1>2. SubSeq(p \o e, 1, Len(p)) = p
  <2>1. SubSeq(p \o e, 1, Len(p)) = SubSeq(p, 1, Len(p))
    BY <1>1, SubSeqOfConcat1
  <2> QED BY <2>1, SubSeqFull
<1>3. SubSeq(p \o e, Len(p) + 1, Len(p \o e)) = e
  <2> DEFINE m == Len(p) + 1
             n == Len(p) + Len(e)
  <2>1. m \in Len(p) + 1 .. Len(p) + Len(e) /\ n \in Len(p) + 1 .. Len(p) + Len(e)
        /\ m - Len(p) = 1 /\ n - Len(p) = Len(e) /\ n = Len(p \o e)
    BY <1>1
  <2>2. m = Len(p) + 1
    OBVIOUS
  <2> HIDE DEF m, n
  <2>3. SubSeq(p \o e, m, n) = SubSeq(e, m - Len(p), n - Len(p))
    BY <2>1, SubSeqOfConcat2
  <2>4. SubSeq(p \o e, m, n) = SubSeq(e, 1, Len(e))
    BY <2>1, <2>3
  <2> QED BY <2>1, <2>2, <2>4, SubSeqFull
<1>4. (Len(p) + 1) - 1 = Len(p)
  BY <1>1
<1> QED BY <1>2, <1>3, <1>4 DEF InsertAt

\* What the fallback inserts is where the direct path has it.
LEMMA BlocksParts ==
  ASSUME NEW memory \in BOOLEAN, NEW s
  PROVE  /\ "summary" \notin ToSet(DirectBlocks(s, memory, FALSE))
         /\ InsertAt(DirectBlocks(s, memory, FALSE), Len(Opening(memory, FALSE)) + 1, "summary")
              = DirectBlocks(s, memory, TRUE)
<1> DEFINE p == Opening(memory, FALSE)
           d == StateParts(s)
           e == Ending(s)
           z == <<"time">>
           x == "summary"
<1>1. /\ p \in Seq(BlockNames) /\ Len(p) >= 1 /\ x \notin ToSet(p)
      /\ d \in Seq(BlockNames) /\ e \in Seq(BlockNames) /\ Len(e) >= 1 /\ x \notin ToSet(e)
  BY OpeningPlain, EndingParts
<1>2. z \in Seq(BlockNames) /\ <<x>> \in Seq(BlockNames)
  BY OneBlock DEF BlockNames
<1>3. e = d \o z
  BY DEF Ending
<1>4. DirectBlocks(s, memory, FALSE) = (p \o d) \o z
  BY DEF DirectBlocks, Opening
<1>5. DirectBlocks(s, memory, TRUE) = ((p \o <<x>>) \o d) \o z
  <2>1. p = <<"persona">> \o If(memory, "memory")
    BY OpeningPlain
  <2>2. If(TRUE, "summary") = <<x>>
    BY DEF If
  <2> QED BY <2>1, <2>2 DEF DirectBlocks
<1> HIDE DEF p, d, e, z, x
<1>6. DirectBlocks(s, memory, FALSE) = p \o e
  <2>1. p \in Seq(BlockNames) /\ d \in Seq(BlockNames) /\ z \in Seq(BlockNames)
    BY <1>1, <1>2
  <2>2. (p \o d) \o z = p \o (d \o z)
    BY ONLY <2>1, ConcatAssociative
  <2> QED BY <1>3, <1>4, <2>2
<1>7. p \o <<x>> \in Seq(BlockNames)
  BY <1>1, <1>2, ConcatProperties
<1> DEFINE px == p \o <<x>>
<1>8. DirectBlocks(s, memory, TRUE) = px \o e
  <2>1. px \in Seq(BlockNames) /\ DirectBlocks(s, memory, TRUE) = (px \o d) \o z
    BY <1>5, <1>7
  <2> HIDE DEF px
  <2>2. px \in Seq(BlockNames) /\ d \in Seq(BlockNames) /\ z \in Seq(BlockNames)
    BY <1>1, <1>2, <2>1
  <2>3. (px \o d) \o z = px \o (d \o z)
    BY ONLY <2>2, ConcatAssociative
  <2> QED BY <1>3, <2>1, <2>3
<1>9. InsertAt(p \o e, Len(p) + 1, x) = p \o <<x>> \o e
  <2>1. Len(p) >= 1 /\ Len(e) >= 1
    BY <1>1
  <2> QED BY <1>1, <2>1, InsertedBetween
<1>10. x \notin ToSet(p \o e)
  BY <1>1, NotInConcat
<1>11. InsertAt(DirectBlocks(s, memory, FALSE), Len(p) + 1, x) = DirectBlocks(s, memory, TRUE)
  BY <1>6, <1>8, <1>9
<1> QED BY <1>6, <1>10, <1>11 DEF p, x

-----------------------------------------------------------------------------
(* What is whole, and what becomes of a loop's messages *)

\* A prompt that only the user's message and the history follow.
Prompted(x, s, images) == <<x>> \o History(s) \o <<User(images)>>

LEMMA PromptSaid ==
  ASSUME NEW x, x.role = "system", NEW s, NEW images, NEW p, p = Prompted(x, s, images)
  PROVE  /\ IsSeq(p) /\ Len(p) >= 2 /\ p[1] = x
         /\ Said(p) = {User(images)} /\ Results(p) = {}
         /\ \A i \in DOMAIN p : p[i].role # "assistant"
<1> DEFINE u == User(images)
<1>1. u.role = "user"
  BY DEF User
<1> HIDE DEF u
<1>2. /\ IsSeq(p) /\ Len(p) >= 2 /\ p[1] = x /\ p[Len(p)] = u
      /\ \A i \in 2 .. Len(p) : p[i] \in {[role |-> "history"], u}
  <2> DEFINE q == <<x>> \o History(s) \o <<u>>
  <2>1. /\ IsSeq(q) /\ Len(q) >= 2 /\ q[1] = x /\ q[Len(q)] = u
        /\ \A i \in 2 .. Len(q) : q[i] \in {[role |-> "history"], u}
    BY PromptParts
  <2>2. p = q
    BY DEF u, Prompted
  <2> HIDE DEF q
  <2> QED BY <2>1, <2>2
<1>3. DOMAIN p = 1 .. Len(p) /\ Len(p) \in Nat
  BY <1>2, SeqParts
<1>4. ASSUME NEW i \in DOMAIN p
      PROVE  p[i].role \notin {"tool", "assistant"} /\ (p[i].role = "user" => p[i] = u)
  <2>1. CASE i = 1
    BY <1>2, <2>1
  <2>2. CASE p[i] = [role |-> "history"]
    BY <2>2
  <2>3. CASE p[i] = u
    BY <1>1, <2>3
  <2>4. i = 1 \/ i \in 2 .. Len(p)
    BY <1>3
  <2> QED BY <1>2, <2>1, <2>2, <2>3, <2>4
<1>5. Len(p) \in DOMAIN p
  BY <1>2, <1>3
<1>6. Said(p) = {u}
  BY <1>1, <1>2, <1>4, <1>5 DEF Said
<1>7. Results(p) = {}
  BY <1>4 DEF Results
<1> QED BY <1>2, <1>4, <1>6, <1>7 DEF u

LEMMA FinalWhole ==
  ASSUME NEW s, NEW blocks, Direct(s, blocks)
  PROVE  Whole(Final(s, blocks), s, s.images)
<1> DEFINE x == System(blocks)
           p == Final(s, blocks)
<1>1. x.role = "system" /\ x.blocks = blocks
  BY DEF System
<1>2. p = Prompted(x, s, s.images)
  BY DEF Final, Prompted
<1> HIDE DEF p, x
<1>3. p[1] = x
  BY <1>1, <1>2, PromptSaid
<1>4. Said(p) = {User(s.images)} /\ Results(p) = {} /\ \A i \in DOMAIN p : p[i].role # "assistant"
  BY <1>1, <1>2, PromptSaid
<1>5. Cardinality({}) = 0 /\ 0 <= MaxCalls
  BY FS_EmptySet, LimitsAssumption
<1> QED BY <1>1, <1>3, <1>4, <1>5 DEF Whole, AllAnswered, p

LEMMA PlanningOK ==
  ASSUME NEW s, NEW blocks
  PROVE  LoopOK(Planning(s, blocks), s, 0) /\ AllAnswered(Planning(s, blocks))
<1> DEFINE x == System(Append(blocks, "policy"))
           p == Planning(s, blocks)
           images == FALSE
<1>1. x.role = "system"
  BY DEF System
<1>2. p = Prompted(x, s, images)
  BY DEF Planning, Prompted
<1> HIDE DEF p, x, images
<1>3. IsSeq(p) /\ Len(p) >= 2 /\ p[1] = x
  BY <1>1, <1>2, PromptSaid
<1>4. Said(p) = {User(images)} /\ Results(p) = {} /\ \A i \in DOMAIN p : p[i].role # "assistant"
  BY <1>1, <1>2, PromptSaid
<1>5. Len(p) >= 1 /\ IsFiniteSet({}) /\ Cardinality({}) = 0
  BY <1>3, SeqParts, FS_EmptySet
<1> QED BY <1>1, <1>3, <1>4, <1>5 DEF LoopOK, AllAnswered, p, images

\* What holds of some messages holds when only the system message changes, or
\* messages follow that the user has not written.
LEMMA Grown ==
  ASSUME NEW p, NEW q, IsSeq(p), IsSeq(q), Len(p) >= 1, Len(p) <= Len(q),
         p[1].role = "system", q[1].role = "system", \A i \in 2 .. Len(p) : q[i] = p[i],
         \A i \in Len(p) + 1 .. Len(q) : q[i].role # "user"
  PROVE  /\ Said(q) = Said(p) /\ Results(p) = {k \in Results(q) : k <= Len(p)}
         /\ \A j \in DOMAIN p : q[j].role = "assistant" => q[j] = p[j]
         /\ \A s, i : i \in Results(p) /\ AnswersItsCall(s, p, i) => AnswersItsCall(s, q, i)
<1>1. /\ DOMAIN p = 1 .. Len(p) /\ DOMAIN q = 1 .. Len(q) /\ Len(p) \in Nat /\ Len(q) \in Nat
  BY SeqParts
<1>2. ASSUME NEW i \in DOMAIN q
      PROVE  \/ i = 1 /\ i \in DOMAIN p
             \/ i \in 2 .. Len(p) /\ i \in DOMAIN p /\ q[i] = p[i]
             \/ i \notin DOMAIN p /\ ~(i <= Len(p)) /\ q[i].role # "user"
  <2>1. CASE i = 1
    BY <1>1, <2>1
  <2>2. CASE i \in 2 .. Len(p)
    BY <1>1, <2>2
  <2>3. CASE i \in Len(p) + 1 .. Len(q)
    BY <1>1, <2>3
  <2> QED BY <1>1, <2>1, <2>2, <2>3
<1>3. \A i \in DOMAIN p : i \in DOMAIN q /\ i <= Len(p) /\ i \in Nat
  BY <1>1
<1>4. Said(q) = Said(p)
  <2>1. \A i \in DOMAIN q : q[i].role = "user" => i \in DOMAIN p /\ p[i].role = "user" /\ q[i] = p[i]
    BY <1>2
  <2>2. \A i \in DOMAIN p : p[i].role = "user" => i \in DOMAIN q /\ q[i].role = "user" /\ q[i] = p[i]
    BY <1>2, <1>3
  <2> QED BY <2>1, <2>2 DEF Said
<1>5. \A i : i \in Results(p) <=> i \in Results(q) /\ i <= Len(p)
  BY <1>2, <1>3 DEF Results
<1>6. Results(p) = {k \in Results(q) : k <= Len(p)}
  BY <1>5
<1>7. \A j \in DOMAIN p : q[j].role = "assistant" => q[j] = p[j]
  BY <1>2, <1>3
<1>8. ASSUME NEW s, NEW i \in Results(p), AnswersItsCall(s, p, i)
      PROVE  AnswersItsCall(s, q, i)
  <2>1. i \in DOMAIN p /\ i \in Nat /\ i <= Len(p)
    BY <1>3 DEF Results
  <2>2. PICK j \in 1 .. i - 1 :
          /\ p[j].role = "assistant" /\ i - j \in DOMAIN p[j].calls
          /\ \A k \in j + 1 .. i : p[k].role = "tool"
          /\ p[i].user = p[j].calls[i - j].user /\ p[i].user \in Candidates(s)
          /\ \/ p[i].id = p[j].calls[i - j].id
             \/ /\ p[j].calls[i - j].id = <<i - j>>
                /\ p[i].id = <<Cardinality({k \in Results(p) : k <= i})>>
    BY <1>8 DEF AnswersItsCall
  <2>3. j # 1
    BY <2>2
  <2>4. j \in 2 .. Len(p) /\ i \in 2 .. Len(p) /\ \A k \in j + 1 .. i : k \in 2 .. Len(p)
    BY <1>1, <2>1, <2>3
  <2>5. q[j] = p[j] /\ q[i] = p[i] /\ \A k \in j + 1 .. i : q[k] = p[k]
    BY <2>4
  <2>6. {k \in Results(q) : k <= i} = {k \in Results(p) : k <= i}
    <3>1. \A k \in Results(q) : k \in Nat
      BY <1>1 DEF Results
    <3>2. \A k \in Results(q) : k <= i => k <= Len(p)
      BY <1>1, <2>1, <3>1
    <3> QED BY <1>5, <3>2
  <2> QED BY <2>2, <2>5, <2>6 DEF AnswersItsCall
<1> QED BY <1>4, <1>6, <1>7, <1>8

\* The loop's messages with the system message that has no policy are a whole prompt.
LEMMA LoopEndsWhole ==
  ASSUME NEW m, NEW s, NEW n \in Nat, LoopOK(m, s, n), n <= MaxCalls,
         AllAnswered(m) \/ n = MaxCalls,
         NEW blocks, Direct(s, blocks), "summary" \notin ToSet(blocks)
  PROVE  Whole(<<System(blocks)>> \o Tail(m), s, FALSE)
<1> DEFINE p == <<System(blocks)>> \o Tail(m)
<1>1. /\ IsSeq(p) /\ Len(p) = Len(m) /\ p[1] = System(blocks)
      /\ \A i \in 2 .. Len(m) : p[i] = m[i]
  BY Retitled DEF LoopOK
<1> HIDE DEF p
<1>2. DOMAIN p = 1 .. Len(m) /\ DOMAIN m = 1 .. Len(m) /\ Len(m) \in Nat
  BY <1>1, SeqParts DEF LoopOK
<1>3. p[1].role = "system" /\ p[1].blocks = blocks
  BY <1>1 DEF System
<1>4. /\ Said(p) = Said(m) /\ Results(m) = {k \in Results(p) : k <= Len(m)}
      /\ \A j \in DOMAIN m : p[j].role = "assistant" => p[j] = m[j]
      /\ \A i : i \in Results(m) /\ AnswersItsCall(s, m, i) => AnswersItsCall(s, p, i)
  <2>1. IsSeq(m) /\ Len(m) >= 1 /\ m[1].role = "system"
    BY DEF LoopOK
  <2>2. Len(m) <= Len(p) /\ \A i \in Len(m) + 1 .. Len(p) : p[i].role # "user"
    BY <1>1, <1>2
  <2> QED BY <1>1, <1>3, <2>1, <2>2, Grown
<1>5. Results(p) = Results(m)
  <2>1. \A k \in Results(p) : k <= Len(m)
    BY <1>2 DEF Results
  <2> QED BY <1>4, <2>1
<1>6. Cardinality(Results(p)) = n /\ \A i \in Results(p) : AnswersItsCall(s, p, i)
  BY <1>4, <1>5 DEF LoopOK
<1>7. AllAnswered(m) => AllAnswered(p)
  BY <1>2, <1>4, <1>5 DEF AllAnswered
<1>8. Said(p) = {User(FALSE)}
  BY <1>4 DEF LoopOK
<1> QED BY <1>3, <1>6, <1>7, <1>8 DEF Whole, p

\* The model's message with its calls: none of them is answered yet.
LEMMA AskedOK ==
  ASSUME NEW m, NEW s, NEW n \in Nat, LoopOK(m, s, n), AllAnswered(m), NEW calls \in Seq(Call)
  PROVE  LET p == Append(m, Assistant(calls)) IN LoopOK(p, s, n) /\ Pending(p, calls)
<1> DEFINE x == Assistant(calls)
           p == Append(m, x)
<1>1. /\ IsSeq(p) /\ Len(p) = Len(m) + 1 /\ p[Len(m) + 1] = x
      /\ \A i \in 1 .. Len(m) : p[i] = m[i]
  BY Appended DEF LoopOK
<1>2. /\ x.role = "assistant" /\ DOMAIN x.calls = 1 .. Len(calls) /\ Len(calls) \in Nat
      /\ \A k \in 1 .. Len(calls) : x.calls[k] = Numbered(calls[k], k)
  <2>1. DOMAIN calls = 1 .. Len(calls) /\ Len(calls) \in Nat
    BY LenProperties
  <2> QED BY <2>1 DEF Assistant
<1> HIDE DEF p, x
<1>3. DOMAIN p = 1 .. Len(m) + 1 /\ DOMAIN m = 1 .. Len(m) /\ Len(m) \in Nat /\ Len(m) >= 1
  BY <1>1, SeqParts DEF LoopOK
<1>4. p[1].role = "system"
  BY <1>1, <1>3 DEF LoopOK
<1>5. /\ Said(p) = Said(m) /\ Results(m) = {k \in Results(p) : k <= Len(m)}
      /\ \A i : i \in Results(m) /\ AnswersItsCall(s, m, i) => AnswersItsCall(s, p, i)
  <2>1. IsSeq(m) /\ Len(m) >= 1 /\ m[1].role = "system"
    BY DEF LoopOK
  <2>2. Len(m) <= Len(p) /\ \A i \in 2 .. Len(m) : p[i] = m[i]
    BY <1>1, <1>3
  <2>3. \A i \in Len(m) + 1 .. Len(p) : p[i].role # "user"
    <3>1. \A i \in Len(m) + 1 .. Len(p) : i = Len(m) + 1
      BY <1>1, <1>3
    <3> QED BY <1>1, <1>2, <3>1
  <2> QED BY <1>1, <1>4, <2>1, <2>2, <2>3, Grown
<1>6. Results(p) = Results(m)
  <2>1. \A k \in Results(p) : k \in 1 .. Len(m) + 1 /\ k # Len(m) + 1
    BY <1>1, <1>2, <1>3 DEF Results
  <2>2. \A k \in Results(p) : k <= Len(m)
    BY <1>3, <2>1
  <2> QED BY <1>5, <2>2
<1>7. ASSUME NEW j \in DOMAIN p, p[j].role = "assistant"
      PROVE  IsLast(p, j) \/ \A k \in DOMAIN p[j].calls : j + k \in Results(p)
  <2>1. CASE j \in 1 .. Len(m)
    <3>1. p[j] = m[j] /\ j \in DOMAIN m
      BY <1>1, <1>3, <2>1
    <3> QED BY <1>6, <1>7, <3>1 DEF AllAnswered
  <2>2. CASE j = Len(m) + 1
    <3>1. \A k \in j + 1 .. Len(p) : FALSE
      BY <1>1, <1>3, <2>2
    <3> QED BY <3>1 DEF IsLast
  <2> QED BY <1>3, <2>1, <2>2
<1>8. LoopOK(p, s, n)
  <2>1. Len(p) >= 1
    BY <1>1, <1>3
  <2> QED BY <1>1, <1>4, <1>5, <1>6, <1>7, <2>1 DEF LoopOK
<1>9. Pending(p, calls)
  <2> DEFINE j == Len(m) + 1
  <2>1. j \in 1 .. Len(p) /\ Len(p) - j = 0 /\ p[j] = x /\ \A k \in j + 1 .. Len(p) : FALSE
    BY <1>1, <1>3
  <2> HIDE DEF j
  <2>2. p[j].role = "assistant" /\ IsLast(p, j)
    BY <1>2, <2>1 DEF IsLast
  <2>3. DOMAIN p[j].calls = 1 .. (Len(p) - j) + Len(calls)
    BY <1>2, <2>1
  <2>4. \A k \in 1 .. Len(calls) :
          p[j].calls[(Len(p) - j) + k] = Numbered(calls[k], (Len(p) - j) + k)
    BY <1>2, <2>1
  <2> QED BY <2>1, <2>2, <2>3, <2>4 DEF Pending
<1> QED BY <1>8, <1>9 DEF p, x

LEMMA NumberedParts ==
  ASSUME NEW call \in Call, NEW n
  PROVE  /\ Numbered(call, n).user = call.user
         /\ Numbered(call, n).id = IF call.id = <<>> THEN <<n>> ELSE call.id
BY DEF Numbered, Call

\* A result answers the first call that is left.
LEMMA ExecutedOK ==
  ASSUME NEW m, NEW s, NEW n \in Nat, LoopOK(m, s, n),
         NEW calls \in Seq(Call), calls # <<>>, Pending(m, calls),
         Head(calls).user \in Candidates(s), NEW ok
  PROVE  LET p == Append(m, Tool(Numbered(Head(calls), n + 1).id, Head(calls).user, ok))
         IN  /\ LoopOK(p, s, n + 1) /\ Pending(p, Tail(calls))
             /\ Tail(calls) = <<>> => AllAnswered(p)
<1> DEFINE call == Head(calls)
           id == Numbered(call, n + 1).id
           x == Tool(id, call.user, ok)
           p == Append(m, x)
<1>1. /\ IsSeq(p) /\ Len(p) = Len(m) + 1 /\ p[Len(m) + 1] = x
      /\ \A i \in 1 .. Len(m) : p[i] = m[i]
  BY Appended DEF LoopOK
<1>2. x.role = "tool" /\ x.user = call.user /\ x.id = id
  BY DEF Tool
<1> HIDE DEF p, x
<1>3. DOMAIN p = 1 .. Len(m) + 1 /\ DOMAIN m = 1 .. Len(m) /\ Len(m) \in Nat /\ Len(m) >= 1
  BY <1>1, SeqParts DEF LoopOK
<1>4. p[1].role = "system" /\ m[1].role = "system"
  BY <1>1, <1>3 DEF LoopOK
<1>5. Len(calls) \in Nat \ {0} /\ call = calls[1] /\ call \in Call /\ Tail(calls) \in Seq(Call)
      /\ Len(Tail(calls)) = Len(calls) - 1 /\ \A k \in 1 .. Len(Tail(calls)) : Tail(calls)[k] = calls[k + 1]
  <2>1. Len(calls) \in Nat \ {0}
    BY EmptySeq
  <2>2. call = calls[1] /\ calls[1] \in Call
    BY <2>1
  <2> QED BY <2>1, <2>2, HeadTailProperties
<1>6. PICK j \in 1 .. Len(m) :
        /\ m[j].role = "assistant" /\ IsLast(m, j)
        /\ DOMAIN m[j].calls = 1 .. (Len(m) - j) + Len(calls)
        /\ \A k \in 1 .. Len(calls) : m[j].calls[(Len(m) - j) + k] = Numbered(calls[k], (Len(m) - j) + k)
  BY DEF Pending
<1> HIDE DEF call, id
<1>7. /\ Said(p) = Said(m) /\ Results(m) = {k \in Results(p) : k <= Len(m)}
      /\ \A h : h \in Results(m) /\ AnswersItsCall(s, m, h) => AnswersItsCall(s, p, h)
  <2>1. IsSeq(m)
    BY DEF LoopOK
  <2>2. Len(m) <= Len(p) /\ \A h \in 2 .. Len(m) : p[h] = m[h]
    BY <1>1, <1>3
  <2>3. \A h \in Len(m) + 1 .. Len(p) : p[h].role # "user"
    <3>1. \A h \in Len(m) + 1 .. Len(p) : h = Len(m) + 1
      BY <1>1, <1>3
    <3> QED BY <1>1, <1>2, <3>1
  <2> QED BY <1>1, <1>3, <1>4, <2>1, <2>2, <2>3, Grown
<1> DEFINE i == Len(m) + 1
<1>8. i \in Nat /\ Results(p) = Results(m) \cup {i} /\ i \notin Results(m)
      /\ \A k \in Results(p) : k <= i
  <2>1. i \in Nat /\ i \in DOMAIN p /\ p[i].role = "tool" /\ ~(i <= Len(m))
    BY <1>1, <1>2, <1>3
  <2>2. \A k \in DOMAIN p : (k <= Len(m) \/ k = i) /\ k <= i
    BY <1>3
  <2> HIDE DEF i
  <2> QED BY <1>7, <2>1, <2>2 DEF Results
<1>9. IsFiniteSet(Results(p)) /\ Cardinality(Results(p)) = n + 1
  <2>1. IsFiniteSet(Results(m)) /\ Cardinality(Results(m)) = n
    BY DEF LoopOK
  <2> HIDE DEF i
  <2>2. IsFiniteSet(Results(m) \cup {i})
        /\ Cardinality(Results(m) \cup {i}) = Cardinality(Results(m)) + 1
    BY <1>8, <2>1, FS_AddElement
  <2> QED BY <1>8, <2>1, <2>2
<1>10. p[j] = m[j] /\ j \in 1 .. i - 1 /\ i - j = (Len(m) - j) + 1 /\ i - j \in Nat \ {0}
       /\ Len(p) - j = i - j
  BY <1>1, <1>3, <1>6
<1>11. IsLast(p, j) /\ \A k \in j + 1 .. i : p[k].role = "tool"
  <2>1. Len(p) = i
    BY <1>1
  <2> SUFFICES ASSUME NEW k \in j + 1 .. i PROVE p[k].role = "tool"
    BY <2>1 DEF IsLast
  <2>2. CASE k = i
    BY <1>1, <1>2, <2>2
  <2>3. CASE k # i
    <3>1. k \in j + 1 .. Len(m) /\ k \in 1 .. Len(m)
      BY <1>3, <2>3
    <3> QED BY <1>1, <1>6, <3>1 DEF IsLast
  <2> QED BY <2>2, <2>3
<1>12. AnswersItsCall(s, p, i)
  <2> DEFINE asked == p[j].calls[i - j]
  <2>1. asked = Numbered(call, i - j) /\ i - j \in DOMAIN p[j].calls
    <3>1. 1 \in 1 .. Len(calls) /\ i - j \in 1 .. (Len(m) - j) + Len(calls)
      BY <1>3, <1>5, <1>6, <1>10
    <3>2. m[j].calls[(Len(m) - j) + 1] = Numbered(calls[1], (Len(m) - j) + 1)
      BY <1>6, <3>1
    <3> QED BY <1>5, <1>6, <1>10, <3>1, <3>2
  <2> HIDE DEF asked
  <2>2. asked.user = call.user /\ asked.id = IF call.id = <<>> THEN <<i - j>> ELSE call.id
    BY <1>5, <2>1, NumberedParts
  <2>3. p[i].user = call.user /\ p[i].id = id /\ call.user \in Candidates(s)
    BY <1>1, <1>2 DEF call
  <2>4. id = IF call.id = <<>> THEN <<n + 1>> ELSE call.id
    BY <1>5, NumberedParts DEF id
  <2>5. n + 1 = Cardinality({k \in Results(p) : k <= i})
    <3>1. {k \in Results(p) : k <= i} = Results(p)
      BY <1>8
    <3> QED BY <1>9, <3>1
  <2>6. \/ p[i].id = asked.id
        \/ asked.id = <<i - j>> /\ p[i].id = <<Cardinality({k \in Results(p) : k <= i})>>
    BY <2>2, <2>3, <2>4, <2>5
  <2>7. p[j].role = "assistant"
    BY <1>6, <1>10
  <2>8. p[i].user = asked.user /\ p[i].user \in Candidates(s)
    BY <2>2, <2>3
  <2> HIDE DEF i
  <2> QED BY <1>10, <1>11, <2>1, <2>6, <2>7, <2>8 DEF AnswersItsCall, asked
<1>13. \A h \in Results(p) : AnswersItsCall(s, p, h)
  <2>1. \A h \in Results(m) : AnswersItsCall(s, m, h)
    BY DEF LoopOK
  <2> HIDE DEF i
  <2> QED BY <1>7, <1>8, <1>12, <2>1
\* The other rounds were over before the last.
<1>14. ASSUME NEW h \in DOMAIN p, p[h].role = "assistant", h # j
       PROVE  \A k \in DOMAIN p[h].calls : h + k \in Results(p)
  <2>1. h # Len(m) + 1
    BY <1>1, <1>2, <1>14
  <2>2. h \in 1 .. Len(m)
    BY <1>3, <2>1
  <2>3. p[h] = m[h] /\ h \in DOMAIN m /\ m[h].role = "assistant"
    BY <1>1, <1>3, <1>14, <2>2
  <2>4. ~IsLast(m, h)
    <3>1. CASE h < j
      <4>1. j \in h + 1 .. Len(m)
        BY <1>3, <2>2, <3>1
      <4> QED BY <1>6, <4>1 DEF IsLast
    <3>2. CASE h > j
      <4>1. h \in j + 1 .. Len(m)
        BY <1>3, <2>2, <3>2
      <4> QED BY <1>6, <2>3, <4>1 DEF IsLast
    <3> QED BY <1>14, <2>2, <3>1, <3>2
  <2>5. \A k \in DOMAIN m[h].calls : h + k \in Results(m)
    BY <2>3, <2>4 DEF LoopOK
  <2> HIDE DEF i
  <2> QED BY <1>8, <2>3, <2>5
<1>15. LoopOK(p, s, n + 1)
  <2>1. Len(p) >= 1
    BY <1>1, <1>3
  <2>2. Said(p) = {User(FALSE)}
    BY <1>7 DEF LoopOK
  <2>3. \A h \in DOMAIN p : p[h].role = "assistant" =>
          IsLast(p, h) \/ \A k \in DOMAIN p[h].calls : h + k \in Results(p)
    BY <1>11, <1>14
  <2> QED BY <1>1, <1>4, <1>9, <1>13, <2>1, <2>2, <2>3 DEF LoopOK
<1>16. DOMAIN p[j].calls = 1 .. (i - j) + Len(Tail(calls))
  <2>1. (Len(m) - j) + Len(calls) = (i - j) + Len(Tail(calls))
    BY <1>3, <1>5, <1>6
  <2> QED BY <1>6, <1>10, <2>1
<1>17. Pending(p, Tail(calls))
  <2>1. j \in 1 .. Len(p) /\ p[j].role = "assistant"
    BY <1>1, <1>3, <1>6, <1>10
  <2>2. ASSUME NEW k \in 1 .. Len(Tail(calls))
        PROVE  p[j].calls[(Len(p) - j) + k] = Numbered(Tail(calls)[k], (Len(p) - j) + k)
    <3>1. k + 1 \in 1 .. Len(calls) /\ (Len(m) - j) + (k + 1) = (Len(p) - j) + k
      BY <1>3, <1>5, <1>10
    <3>2. m[j].calls[(Len(m) - j) + (k + 1)] = Numbered(calls[k + 1], (Len(m) - j) + (k + 1))
      BY <1>6, <3>1
    <3> QED BY <1>5, <1>10, <3>1, <3>2
  <2>3. DOMAIN p[j].calls = 1 .. (Len(p) - j) + Len(Tail(calls))
    BY <1>10, <1>16
  <2> QED BY <1>11, <2>1, <2>2, <2>3 DEF Pending
<1>18. ASSUME Tail(calls) = <<>> PROVE AllAnswered(p)
  <2>1. Len(Tail(calls)) = 0
    BY <1>5, <1>18, EmptySeq
  <2>2. DOMAIN p[j].calls = 1 .. i - j
    <3>1. (i - j) + 0 = i - j
      BY <1>10
    <3> QED BY <1>16, <2>1, <3>1
  <2>3. ASSUME NEW k \in DOMAIN p[j].calls PROVE j + k \in Results(p)
    <3>1. j + k \in j + 1 .. i /\ j + k \in DOMAIN p
      BY <1>3, <1>6, <1>10, <2>2
    <3> QED BY <1>11, <3>1 DEF Results
  <2> QED BY <1>14, <2>3 DEF AllAnswered
<1> QED BY <1>15, <1>17, <1>18 DEF p, x, call, id

-----------------------------------------------------------------------------
(* Every step of a turn leaves it whole *)

LEMMA TurnFields ==
  DOMAIN NoTurn = {"stage", "blocks", "social", "loop", "calls", "executed", "requests", "degraded", "prompt"}
BY DEF NoTurn

LEMMA InitTurns == Init => TInv
<1> SUFFICES ASSUME Init PROVE TInv
  OBVIOUS
<1>1. turn = [t \in Turns |-> NoTurn] /\ setup \in [Turns -> Setup]
  <2>1. setup \in [Turns -> Setups] /\ \A s \in Setups : s \in Setup
    BY TurnsAssumption DEF Init
  <2> QED BY <2>1 DEF Init
<1>2. /\ NoTurn.stage = "context" /\ NoTurn.executed = 0 /\ NoTurn.requests = 0
      /\ NoTurn.degraded = FALSE
  BY DEF NoTurn
<1>3. ASSUME NEW s PROVE TurnOK(NoTurn, s)
  BY <1>2, LimitsAssumption DEF TurnOK, BeforeLoop, InLoop
<1> QED BY <1>1, <1>3 DEF TInv

\* What a turn is after a step that sets some of its fields.
LEMMA Became ==
  ASSUME TInv, NEW t \in Turns, NEW new, Becomes(t, new)
  PROVE  /\ turn'[t] = [f \in DOMAIN NoTurn |-> IF f \in DOMAIN new THEN new[f] ELSE turn[t][f]]
         /\ turn' = [u \in Turns |-> turn'[u]]
         /\ \A u \in Turns \ {t} : turn'[u] = turn[u]
BY DEF TInv, Becomes

LEMMA OneTurnMoves ==
  ASSUME TInv, NEW t \in Turns, turn' = [u \in Turns |-> turn'[u]],
         \A u \in Turns \ {t} : turn'[u] = turn[u],
         TurnOK(turn'[t], setup[t]), setup' = setup
  PROVE  TInv'
<1>1. \A u \in Turns : TurnOK(turn'[u], setup[u])
  BY DEF TInv
<1> QED BY <1>1 DEF TInv

LEMMA IfTwice == \A c, b : \E d \in BOOLEAN : If(c, b) = If(d, b)
BY DEF If

LEMMA BeginKept ==
  ASSUME TInv, NEW t \in Turns, Begin(t)
  PROVE  TInv'
<1> DEFINE s == setup[t]
           b == <<"persona">> \o If(asker[t].context[1].memory, "memory")
           new == [stage |-> IF Legacy(s) /\ s.graph THEN "summary" ELSE "state", blocks |-> b]
           T == turn[t]
           U == turn'[t]
<1>1. Becomes(t, new) /\ T.stage = "context" /\ setup' = setup /\ TurnOK(T, s) /\ s \in Setup
  BY DEF Begin, At, Rest, TInv
<1> HIDE DEF new
<1>2. /\ U = [f \in DOMAIN NoTurn |-> IF f \in DOMAIN new THEN new[f] ELSE T[f]]
      /\ turn' = [u \in Turns |-> turn'[u]] /\ \A u \in Turns \ {t} : turn'[u] = turn[u]
  BY <1>1, Became
<1>3. /\ DOMAIN U = DOMAIN NoTurn /\ U.blocks = b /\ U.executed = T.executed /\ U.requests = T.requests
      /\ U.degraded = T.degraded
      /\ U.stage \in {"summary", "state"} /\ (U.stage = "summary" => Legacy(s))
  BY <1>2, TurnFields DEF new
<1>4. PICK memory \in BOOLEAN : b = <<"persona">> \o If(memory, "memory")
  BY IfTwice
<1>5. b = Opening(memory, FALSE)
  BY <1>4, OpeningPlain
<1>6. Legacy(s) => ~Loops(s)
  BY DEF Legacy, Loops
<1> HIDE DEF s, b, new, T, U
<1>7. T.executed = 0 /\ T.requests = 0 /\ T.degraded = FALSE /\ T.requests <= MaxCalls
  BY <1>1 DEF TurnOK, BeforeLoop
<1>8. U.blocks = <<"persona">> \o If(memory, "memory") /\ U.blocks = Opening(memory, FALSE)
  BY <1>3, <1>4, <1>5
<1>9. U.executed = 0 /\ U.requests = 0 /\ U.degraded = FALSE
  BY <1>3, <1>7
<1>10. U.stage = "summary" => TurnOK(U, s)
  BY <1>3, <1>6, <1>7, <1>8, <1>9 DEF TurnOK, BeforeLoop, InLoop
<1>11. U.stage = "state" => TurnOK(U, s)
  <2>1. \E m, found \in BOOLEAN : U.blocks = Opening(m, found) /\ (found => ~Loops(s))
    BY <1>8
  <2> QED BY <1>3, <1>7, <1>9, <2>1 DEF TurnOK, BeforeLoop, InLoop
<1>12. TurnOK(U, s)
  BY <1>3, <1>10, <1>11
<1> QED BY <1>1, <1>2, <1>12, OneTurnMoves DEF s, U

LEMMA LoadSummaryKept ==
  ASSUME TInv, NEW t \in Turns, LoadSummary(t)
  PROVE  TInv'
<1> DEFINE s == setup[t]
           T == turn[t]
           U == turn'[t]
<1>1. PICK found \in BOOLEAN :
        /\ T.stage = "summary" /\ setup' = setup
        /\ Becomes(t, [stage |-> "state", blocks |-> T.blocks \o If(found, "summary")])
  BY DEF LoadSummary, At, Rest
<1> DEFINE new == [stage |-> "state", blocks |-> T.blocks \o If(found, "summary")]
<1>2. /\ U = [f \in DOMAIN NoTurn |-> IF f \in DOMAIN new THEN new[f] ELSE T[f]]
      /\ turn' = [u \in Turns |-> turn'[u]] /\ \A u \in Turns \ {t} : turn'[u] = turn[u]
  BY <1>1, Became
<1>3. /\ DOMAIN U = DOMAIN NoTurn /\ U.blocks = T.blocks \o If(found, "summary")
      /\ U.executed = T.executed /\ U.requests = T.requests /\ U.degraded = T.degraded /\ U.stage = "state"
  BY <1>2, TurnFields
<1>4. TurnOK(T, s)
  BY DEF TInv
<1> HIDE DEF s, T, U
<1>5. PICK memory \in BOOLEAN : T.blocks = <<"persona">> \o If(memory, "memory")
  BY <1>1, <1>4 DEF TurnOK
<1>6. U.blocks = Opening(memory, found) /\ ~Loops(s)
  BY <1>1, <1>3, <1>4, <1>5 DEF Opening, TurnOK
<1>7. T.executed = 0 /\ T.requests = 0 /\ T.degraded = FALSE /\ T.requests <= MaxCalls
  BY <1>1, <1>4 DEF TurnOK, BeforeLoop
<1>8. TurnOK(U, s)
  BY <1>3, <1>6, <1>7 DEF TurnOK, BeforeLoop, InLoop
<1> QED BY <1>1, <1>2, <1>8, OneTurnMoves DEF s, U

LEMMA ReadStateKept ==
  ASSUME TInv, NEW t \in Turns, ReadState(t)
  PROVE  TInv'
<1> DEFINE s == setup[t]
           T == turn[t]
           U == turn'[t]
           b == T.blocks \o StateParts(s) \o <<"time">>
           next == IF ~Loops(s) THEN "request" ELSE IF s.graph THEN "asking" ELSE "ready"
           new == [stage |-> next, blocks |-> b, social |-> Len(T.blocks), prompt |-> Final(s, b),
                   loop |-> IF Loops(s) THEN Planning(s, b) ELSE <<>>]
<1>1. T.stage = "state" /\ setup' = setup /\ Becomes(t, new) /\ TurnOK(T, s) /\ s \in Setup
  BY DEF ReadState, At, Rest, TInv
<1> HIDE DEF new
<1>2. /\ U = [f \in DOMAIN NoTurn |-> IF f \in DOMAIN new THEN new[f] ELSE T[f]]
      /\ turn' = [u \in Turns |-> turn'[u]] /\ \A u \in Turns \ {t} : turn'[u] = turn[u]
  BY <1>1, Became
<1> HIDE DEF b, next
<1>3. /\ DOMAIN U = DOMAIN NoTurn /\ U.blocks = b /\ U.prompt = Final(s, b) /\ U.social = Len(T.blocks)
      /\ U.executed = T.executed /\ U.requests = T.requests /\ U.degraded = T.degraded /\ U.stage = next
      /\ U.loop = IF Loops(s) THEN Planning(s, b) ELSE <<>>
  BY <1>2, TurnFields DEF new
<1>4. next \in {"request", "asking", "ready"} /\ (next = "request" <=> ~Loops(s))
  BY DEF next
<1>5. s.images \in BOOLEAN
  BY <1>1 DEF Setup
<1>6. b = T.blocks \o StateParts(s) \o <<"time">>
  BY DEF b
<1> HIDE DEF s, T, U
<1>7. PICK memory \in BOOLEAN, summary \in BOOLEAN :
        T.blocks = Opening(memory, summary) /\ (summary => ~Loops(s))
  BY <1>1 DEF TurnOK
<1>8. b = DirectBlocks(s, memory, summary)
  BY <1>6, <1>7 DEF Opening, DirectBlocks
<1>9. Direct(s, b)
  BY <1>8 DEF Direct
<1>10. T.executed = 0 /\ T.requests = 0 /\ T.degraded = FALSE /\ T.requests <= MaxCalls /\ 0 < MaxCalls
  BY <1>1, LimitsAssumption DEF TurnOK, BeforeLoop
<1>11. CASE ~Loops(s)
  <2>1. Whole(U.prompt, s, Images(U, s)) /\ U.stage = "request"
    <3>1. Images(U, s) = s.images
      BY <1>5, <1>11 DEF Images
    <3> QED BY <1>3, <1>4, <1>9, <1>11, <3>1, FinalWhole
  <2>2. TurnOK(U, s)
    BY <1>3, <1>10, <2>1 DEF TurnOK, BeforeLoop, InLoop
  <2> QED BY <1>1, <1>2, <2>2, OneTurnMoves DEF s, U
<1>12. CASE Loops(s)
  <2>1. U.stage \in {"asking", "ready"} /\ summary = FALSE /\ U.loop = Planning(s, b)
    BY <1>3, <1>4, <1>7, <1>12
  <2>2. U.blocks = DirectBlocks(s, memory, FALSE) /\ U.social = Len(Opening(memory, FALSE))
    BY <1>3, <1>7, <1>8, <2>1
  <2>3. LoopOK(U.loop, s, 0) /\ AllAnswered(U.loop)
    BY <2>1, PlanningOK
  <2>4. U.executed = 0 /\ U.requests = 0 /\ U.degraded = FALSE /\ U.prompt = Final(s, U.blocks) /\ DOMAIN U = DOMAIN NoTurn
    BY <1>3, <1>10
  <2>5. \E m \in BOOLEAN : /\ U.blocks = DirectBlocks(s, m, FALSE)
                           /\ U.social = Len(Opening(m, FALSE))
    BY <2>2
  <2>6. LoopOK(U.loop, s, U.executed) /\ U.executed < MaxCalls /\ U.requests <= MaxCalls
    BY <1>10, <2>3, <2>4
  <2>7. U.stage # "summary" /\ U.stage # "state" /\ U.stage \notin BeforeLoop \cup {"running", "fallback", "request", "streaming"}
    BY <2>1 DEF BeforeLoop
  <2>8. U.prompt = Final(s, U.blocks) /\ U.requests <= U.executed
    BY <2>4
  <2>9. U.executed \in Nat /\ U.requests \in Nat /\ DOMAIN U = DOMAIN NoTurn
    BY <2>4
  <2> HIDE DEF next
  <2>10. TurnOK(U, s)
    BY <1>12, <2>3, <2>4, <2>5, <2>6, <2>7, <2>8, <2>9 DEF TurnOK
  <2> QED BY <1>1, <1>2, <2>10, OneTurnMoves DEF s, U
<1> QED BY <1>11, <1>12

\* What goes wrong in the loop leaves the prompt as it was before it.
LEMMA DegradeKept ==
  ASSUME TInv, NEW t \in Turns, turn[t].stage \in InLoop \cup {"ready"}, Degrade(t), setup' = setup
  PROVE  TInv'
<1> DEFINE s == setup[t]
           T == turn[t]
           U == turn'[t]
           new == [stage |-> "fallback", degraded |-> TRUE, calls |-> <<>>, loop |-> <<>>]
<1>1. Becomes(t, new) /\ TurnOK(T, s)
  BY DEF Degrade, TInv
<1>2. /\ U = [f \in DOMAIN NoTurn |-> IF f \in DOMAIN new THEN new[f] ELSE T[f]]
      /\ turn' = [u \in Turns |-> turn'[u]] /\ \A u \in Turns \ {t} : turn'[u] = turn[u]
  BY <1>1, Became
<1>3. /\ DOMAIN U = DOMAIN NoTurn /\ U.blocks = T.blocks /\ U.prompt = T.prompt /\ U.social = T.social
      /\ U.executed = T.executed /\ U.requests = T.requests /\ U.stage = "fallback"
      /\ U.degraded = TRUE
  BY <1>2, TurnFields
<1>4. T.stage \in InLoop \cup {"ready", "fallback"}
  OBVIOUS
<1> HIDE DEF s, T, U
<1>5. /\ T.prompt = Final(s, T.blocks) /\ T.executed \in Nat /\ T.requests \in Nat /\ T.requests <= MaxCalls
      /\ \E memory \in BOOLEAN : /\ T.blocks = DirectBlocks(s, memory, FALSE)
                                 /\ T.social = Len(Opening(memory, FALSE))
  BY <1>1, <1>4 DEF TurnOK
<1>6. TurnOK(U, s)
  BY <1>3, <1>5 DEF TurnOK, BeforeLoop, InLoop
<1> QED BY <1>2, <1>6, OneTurnMoves DEF s, U

\* When the loop ends, with n calls executed in all.
LEMMA EndingWhole ==
  ASSUME NEW s \in Setup, NEW T, NEW memory \in BOOLEAN, T.blocks = DirectBlocks(s, memory, FALSE),
         NEW messages, NEW n \in Nat, LoopOK(messages, s, n), n <= MaxCalls,
         AllAnswered(messages) \/ n = MaxCalls, NEW U, U.degraded = FALSE, Loops(s)
  PROVE  Whole(<<System(T.blocks)>> \o Tail(messages), s, Images(U, s))
<1>1. Images(U, s) = FALSE
  BY DEF Images
<1>2. Direct(s, T.blocks) /\ "summary" \notin ToSet(T.blocks)
  BY BlocksParts DEF Direct
<1> QED BY <1>1, <1>2, LoopEndsWhole

LEMMA RepliedKept ==
  ASSUME TInv, NEW t \in Turns, Replied(t)
  PROVE  TInv'
<1> DEFINE s == setup[t]
           T == turn[t]
           U == turn'[t]
<1>1. PICK calls \in Replies :
        /\ T.stage = "asking" /\ setup' = setup
        /\ Becomes(t, IF calls = <<>> THEN LoopEnds(t, T.loop)
                      ELSE [requests |-> T.requests + 1, stage |-> "running", calls |-> calls,
                            loop |-> Append(T.loop, Assistant(calls))])
  BY DEF Replied, At, Rest
<1>2. calls \in Seq(Call) /\ TurnOK(T, s) /\ s \in Setup /\ MaxCalls \in Nat
  BY TurnsAssumption, LimitsAssumption DEF TInv
<1>3. /\ T.prompt = Final(s, T.blocks) /\ LoopOK(T.loop, s, T.executed)
      /\ T.executed \in Nat /\ T.requests \in Nat /\ T.executed < MaxCalls /\ T.requests <= T.executed
      /\ AllAnswered(T.loop) /\ Loops(s) /\ T.degraded = FALSE
      /\ \E memory \in BOOLEAN : /\ T.blocks = DirectBlocks(s, memory, FALSE)
                                 /\ T.social = Len(Opening(memory, FALSE))
  <2> HIDE DEF T, s
  <2> QED BY <1>1, <1>2 DEF TurnOK, InLoop
<1>4. CASE calls = <<>>
  <2> DEFINE q == <<System(T.blocks)>> \o Tail(T.loop)
             new == [stage |-> "request", calls |-> <<>>, loop |-> <<>>, prompt |-> q]
  <2>1. Becomes(t, new)
    BY <1>1, <1>4 DEF LoopEnds
  <2>2. /\ U = [f \in DOMAIN NoTurn |-> IF f \in DOMAIN new THEN new[f] ELSE T[f]]
        /\ turn' = [u \in Turns |-> turn'[u]] /\ \A u \in Turns \ {t} : turn'[u] = turn[u]
    BY <2>1, Became
  <2> HIDE DEF q
  <2>3. /\ DOMAIN U = DOMAIN NoTurn /\ U.prompt = q /\ U.stage = "request"
        /\ U.executed = T.executed /\ U.requests = T.requests /\ U.degraded = T.degraded
    BY <2>2, TurnFields
  <2> HIDE DEF T, U, s
  <2>4. PICK memory \in BOOLEAN : T.blocks = DirectBlocks(s, memory, FALSE)
    BY <1>3
  <2>5. T.executed <= MaxCalls
    BY <1>2, <1>3
  <2>6. Whole(q, s, Images(U, s))
    BY <1>2, <1>3, <2>3, <2>4, <2>5, EndingWhole DEF q
  <2>7. TurnOK(U, s)
    BY <1>2, <1>3, <2>3, <2>6 DEF TurnOK, BeforeLoop, InLoop
  <2> QED BY <1>1, <2>2, <2>7, OneTurnMoves DEF s, U
<1>5. CASE calls # <<>>
  <2> DEFINE loop == Append(T.loop, Assistant(calls))
             n == T.requests + 1
             new == [requests |-> n, stage |-> "running", calls |-> calls, loop |-> loop]
  <2>1. Becomes(t, new)
    BY <1>1, <1>5
  <2>2. /\ U = [f \in DOMAIN NoTurn |-> IF f \in DOMAIN new THEN new[f] ELSE T[f]]
        /\ turn' = [u \in Turns |-> turn'[u]] /\ \A u \in Turns \ {t} : turn'[u] = turn[u]
    BY <2>1, Became
  <2>3. n = T.requests + 1
    OBVIOUS
  <2> HIDE DEF loop, n
  <2>4. /\ DOMAIN U = DOMAIN NoTurn /\ U.prompt = T.prompt /\ U.stage = "running" /\ U.calls = calls
        /\ U.loop = loop /\ U.executed = T.executed /\ U.requests = n
        /\ U.degraded = T.degraded
        /\ U.blocks = T.blocks /\ U.social = T.social
    BY <2>2, TurnFields
  <2> HIDE DEF T, U, s
  <2>5. LoopOK(loop, s, T.executed) /\ Pending(loop, calls)
    BY <1>2, <1>3, AskedOK DEF loop
  <2>6. n \in Nat /\ n <= MaxCalls /\ n <= T.executed + 1
    BY <1>2, <1>3, <2>3
  <2>7. TurnOK(U, s)
    BY <1>2, <1>3, <1>5, <2>4, <2>5, <2>6 DEF TurnOK, BeforeLoop, InLoop
  <2> QED BY <1>1, <2>2, <2>7, OneTurnMoves DEF s, U
<1> QED BY <1>4, <1>5

LEMMA ExecuteKept ==
  ASSUME TInv, NEW t \in Turns, Execute(t)
  PROVE  TInv'
<1> DEFINE s == setup[t]
           T == turn[t]
           U == turn'[t]
           call == Head(T.calls)
           executed == T.executed + 1
           id == Numbered(call, executed).id
<1>1. PICK ok \in BOOLEAN :
        LET loop == Append(T.loop, Tool(id, call.user, ok))
            left == IF executed >= MaxCalls THEN <<>> ELSE Tail(T.calls)
            next == IF left # <<>> THEN [stage |-> "running", calls |-> left, loop |-> loop]
                    ELSE IF executed < MaxCalls
                    THEN [stage |-> "asking", calls |-> <<>>, loop |-> loop]
                    ELSE LoopEnds(t, loop)
        IN  /\ T.stage = "running" /\ Supported(t, call) /\ setup' = setup
            /\ turn' = [turn EXCEPT ![t] =
                 [f \in DOMAIN NoTurn |-> CASE f = "executed" -> executed
                                            [] f \in DOMAIN next -> next[f] [] OTHER -> T[f]]]
  BY DEF Execute, At, Rest
<1> DEFINE loop == Append(T.loop, Tool(id, call.user, ok))
           left == IF executed >= MaxCalls THEN <<>> ELSE Tail(T.calls)
           next == IF left # <<>> THEN [stage |-> "running", calls |-> left, loop |-> loop]
                   ELSE IF executed < MaxCalls
                   THEN [stage |-> "asking", calls |-> <<>>, loop |-> loop]
                   ELSE LoopEnds(t, loop)
<1>2. /\ T.stage = "running" /\ Supported(t, call) /\ setup' = setup
      /\ turn' = [turn EXCEPT ![t] =
                 [f \in DOMAIN NoTurn |-> CASE f = "executed" -> executed
                                            [] f \in DOMAIN next -> next[f] [] OTHER -> T[f]]]
  BY <1>1
<1>3. TurnOK(T, s) /\ s \in Setup /\ MaxCalls \in Nat \ {0} /\ call.user \in Candidates(s)
  BY <1>2, LimitsAssumption DEF TInv, Supported
<1> HIDE DEF next
<1>4. /\ U = [f \in DOMAIN NoTurn |-> CASE f = "executed" -> executed
                                        [] f \in DOMAIN next -> next[f] [] OTHER -> T[f]]
      /\ turn' = [u \in Turns |-> turn'[u]] /\ \A u \in Turns \ {t} : turn'[u] = turn[u]
  BY <1>2 DEF TInv
<1>5. /\ T.prompt = Final(s, T.blocks) /\ LoopOK(T.loop, s, T.executed)
      /\ T.executed \in Nat /\ T.requests \in Nat /\ T.executed < MaxCalls /\ T.requests <= T.executed + 1
      /\ T.requests <= MaxCalls /\ Loops(s) /\ T.degraded = FALSE
      /\ Pending(T.loop, T.calls) /\ T.calls \in Seq(Call) /\ T.calls # <<>>
      /\ \E memory \in BOOLEAN : /\ T.blocks = DirectBlocks(s, memory, FALSE)
                                 /\ T.social = Len(Opening(memory, FALSE))
  <2> HIDE DEF T, s
  <2> QED BY <1>2, <1>3 DEF TurnOK, InLoop
<1>6. executed = T.executed + 1 /\ executed \in Nat /\ executed <= MaxCalls /\ T.requests <= executed
     
      /\ (executed >= MaxCalls \/ executed < MaxCalls)
  BY <1>3, <1>5
<1>7. /\ LoopOK(loop, s, executed) /\ Pending(loop, Tail(T.calls))
      /\ Tail(T.calls) = <<>> => AllAnswered(loop)
  <2> HIDE DEF T, s
  <2>1. LET p == Append(T.loop, Tool(Numbered(Head(T.calls), T.executed + 1).id, Head(T.calls).user, ok))
        IN  /\ LoopOK(p, s, T.executed + 1) /\ Pending(p, Tail(T.calls))
            /\ Tail(T.calls) = <<>> => AllAnswered(p)
    BY <1>3, <1>5, ExecutedOK
  <2> QED BY <2>1
<1>8. /\ left # <<>> => left = Tail(T.calls) /\ executed < MaxCalls /\ left \in Seq(Call)
      /\ left = <<>> /\ executed < MaxCalls => Tail(T.calls) = <<>>
  <2> HIDE DEF T, executed
  <2>1. Tail(T.calls) \in Seq(Call)
    BY <1>5, HeadTailProperties
  <2>2. CASE executed >= MaxCalls
    BY <1>3, <1>6, <2>2
  <2>3. CASE ~(executed >= MaxCalls)
    BY <1>6, <2>1, <2>3
  <2> QED BY <2>2, <2>3
<1>9. next = IF left # <<>> THEN [stage |-> "running", calls |-> left, loop |-> loop]
             ELSE IF executed < MaxCalls
             THEN [stage |-> "asking", calls |-> <<>>, loop |-> loop]
             ELSE [stage |-> "request", calls |-> <<>>, loop |-> <<>>,
                   prompt |-> <<System(T.blocks)>> \o Tail(loop)]
  BY DEF next, LoopEnds
<1> HIDE DEF left, loop, executed, id
<1>10. CASE left # <<>>
  <2>1. next = [stage |-> "running", calls |-> left, loop |-> loop]
    BY <1>9, <1>10
  <2>2. /\ DOMAIN U = DOMAIN NoTurn /\ U.prompt = T.prompt /\ U.stage = "running" /\ U.calls = left
        /\ U.loop = loop /\ U.executed = executed /\ U.requests = T.requests
        /\ U.degraded = T.degraded
        /\ U.blocks = T.blocks /\ U.social = T.social
    BY <1>4, <2>1, TurnFields
  <2> HIDE DEF T, U, s
  <2>3. executed < MaxCalls /\ T.requests <= executed + 1
    BY <1>5, <1>6, <1>8, <1>10
  <2>4. Pending(loop, left) /\ left \in Seq(Call)
    BY <1>7, <1>8, <1>10
  <2>5. TurnOK(U, s)
    BY <1>5, <1>6, <1>7, <1>10, <2>2, <2>3, <2>4 DEF TurnOK, BeforeLoop, InLoop
  <2> QED BY <1>2, <1>4, <2>5, OneTurnMoves DEF s, U
<1>11. CASE left = <<>> /\ executed < MaxCalls
  <2>1. next = [stage |-> "asking", calls |-> <<>>, loop |-> loop]
    BY <1>9, <1>11
  <2>2. /\ DOMAIN U = DOMAIN NoTurn /\ U.prompt = T.prompt /\ U.stage = "asking"
        /\ U.loop = loop /\ U.executed = executed /\ U.requests = T.requests
        /\ U.degraded = T.degraded
        /\ U.blocks = T.blocks /\ U.social = T.social
    BY <1>4, <2>1, TurnFields
  <2> HIDE DEF T, U, s
  <2>3. TurnOK(U, s)
    BY <1>5, <1>6, <1>7, <1>8, <1>11, <2>2 DEF TurnOK, BeforeLoop, InLoop
  <2> QED BY <1>2, <1>4, <2>3, OneTurnMoves DEF s, U
<1>12. CASE left = <<>> /\ ~(executed < MaxCalls)
  <2> DEFINE q == <<System(T.blocks)>> \o Tail(loop)
  <2>1. next = [stage |-> "request", calls |-> <<>>, loop |-> <<>>, prompt |-> q]
    BY <1>9, <1>12
  <2> HIDE DEF q
  <2>2. /\ DOMAIN U = DOMAIN NoTurn /\ U.prompt = q /\ U.stage = "request"
        /\ U.executed = executed /\ U.requests = T.requests
        /\ U.degraded = T.degraded
    BY <1>4, <2>1, TurnFields
  <2> HIDE DEF T, U, s
  <2>3. Whole(q, s, Images(U, s))
    <3>1. executed = MaxCalls
      BY <1>3, <1>6, <1>12
    <3> QED BY <1>3, <1>5, <1>6, <1>7, <2>2, <3>1, EndingWhole DEF q
  <2>4. TurnOK(U, s)
    BY <1>5, <1>6, <2>2, <2>3 DEF TurnOK, BeforeLoop, InLoop
  <2> QED BY <1>2, <1>4, <2>4, OneTurnMoves DEF s, U
<1> QED BY <1>10, <1>11, <1>12

LEMMA FallbackKept ==
  ASSUME TInv, NEW t \in Turns, Fallback(t)
  PROVE  TInv'
<1> DEFINE s == setup[t]
           T == turn[t]
           U == turn'[t]
           b == InsertAt(T.blocks, T.social + 1, "summary")
<1>1. PICK found \in BOOLEAN :
        /\ T.stage = "fallback" /\ setup' = setup
        /\ Becomes(t, IF found THEN [stage |-> "request", blocks |-> b, prompt |-> Final(s, b)]
                      ELSE [stage |-> "request"])
  BY DEF Fallback, At, Rest
<1>2. TurnOK(T, s) /\ s \in Setup
  BY DEF TInv
<1>3. s.images \in BOOLEAN
  BY <1>2 DEF Setup
<1>4. /\ T.prompt = Final(s, T.blocks) /\ T.degraded = TRUE /\ T.executed \in Nat /\ T.requests \in Nat /\ T.requests <= MaxCalls
      /\ \E memory \in BOOLEAN : /\ T.blocks = DirectBlocks(s, memory, FALSE)
                                 /\ T.social = Len(Opening(memory, FALSE))
  <2> HIDE DEF T, s
  <2> QED BY <1>1, <1>2 DEF TurnOK
<1>5. PICK memory \in BOOLEAN : /\ T.blocks = DirectBlocks(s, memory, FALSE)
                                /\ T.social = Len(Opening(memory, FALSE))
  BY <1>4
<1>6. b = DirectBlocks(s, memory, TRUE)
  BY <1>5, BlocksParts
<1>7. Direct(s, b) /\ Direct(s, T.blocks)
  BY <1>5, <1>6 DEF Direct
<1> HIDE DEF b
<1>8. CASE found
  <2> DEFINE new == [stage |-> "request", blocks |-> b, prompt |-> Final(s, b)]
  <2>1. Becomes(t, new)
    BY <1>1, <1>8
  <2>2. /\ U = [f \in DOMAIN NoTurn |-> IF f \in DOMAIN new THEN new[f] ELSE T[f]]
        /\ turn' = [u \in Turns |-> turn'[u]] /\ \A u \in Turns \ {t} : turn'[u] = turn[u]
    BY <2>1, Became
  <2>3. /\ DOMAIN U = DOMAIN NoTurn /\ U.prompt = Final(s, b) /\ U.stage = "request"
        /\ U.executed = T.executed /\ U.requests = T.requests /\ U.degraded = T.degraded
    BY <2>2, TurnFields
  <2> HIDE DEF T, U, s
  <2>4. Whole(U.prompt, s, Images(U, s))
    <3>1. Images(U, s) = s.images
      BY <1>3, <1>4, <2>3 DEF Images
    <3> QED BY <1>7, <2>3, <3>1, FinalWhole
  <2>5. TurnOK(U, s)
    BY <1>4, <2>3, <2>4 DEF TurnOK, BeforeLoop, InLoop
  <2> QED BY <1>1, <2>2, <2>5, OneTurnMoves DEF s, U
<1>9. CASE ~found
  <2> DEFINE new == [stage |-> "request"]
  <2>1. Becomes(t, new)
    BY <1>1, <1>9
  <2>2. /\ U = [f \in DOMAIN NoTurn |-> IF f \in DOMAIN new THEN new[f] ELSE T[f]]
        /\ turn' = [u \in Turns |-> turn'[u]] /\ \A u \in Turns \ {t} : turn'[u] = turn[u]
    BY <2>1, Became
  <2>3. /\ DOMAIN U = DOMAIN NoTurn /\ U.prompt = T.prompt /\ U.stage = "request"
        /\ U.executed = T.executed /\ U.requests = T.requests /\ U.degraded = T.degraded
    BY <2>2, TurnFields
  <2> HIDE DEF T, U, s
  <2>4. Whole(U.prompt, s, Images(U, s))
    <3>1. Images(U, s) = s.images
      BY <1>3, <1>4, <2>3 DEF Images
    <3> QED BY <1>4, <1>7, <2>3, <3>1, FinalWhole
  <2>5. TurnOK(U, s)
    BY <1>4, <2>3, <2>4 DEF TurnOK, BeforeLoop, InLoop
  <2> QED BY <1>1, <2>2, <2>5, OneTurnMoves DEF s, U
<1> QED BY <1>8, <1>9

\* A turn that is over, however, has nothing that could be wrong.
LEMMA EndedKept ==
  ASSUME TInv, NEW t \in Turns, NEW stage \in {"failed", "aborted"},
         turn' = [turn EXCEPT ![t] = Ended(stage)], setup' = setup
  PROVE  TInv'
<1> DEFINE U == turn'[t]
<1>1. /\ U = [NoTurn EXCEPT !.stage = stage]
      /\ turn' = [u \in Turns |-> turn'[u]] /\ \A u \in Turns \ {t} : turn'[u] = turn[u]
  BY DEF TInv, Ended
<1>2. DOMAIN U = DOMAIN NoTurn /\ U.stage = stage /\ U.executed = 0 /\ U.requests = 0
  BY <1>1 DEF NoTurn
<1> HIDE DEF U
<1>3. 0 \in Nat /\ 0 <= MaxCalls
  BY LimitsAssumption
<1>4. U.stage \notin BeforeLoop \cup InLoop \cup {"ready", "fallback", "request", "streaming"}
  BY <1>2 DEF BeforeLoop, InLoop
<1>5. TurnOK(U, setup[t])
  BY <1>2, <1>3, <1>4 DEF TurnOK, BeforeLoop, InLoop
<1> QED BY <1>1, <1>5, OneTurnMoves DEF U

LEMMA RequestedKept ==
  ASSUME TInv, NEW t \in Turns, Requested(t)
  PROVE  TInv'
<1> DEFINE s == setup[t]
           T == turn[t]
           U == turn'[t]
           new == [stage |-> "streaming"]
<1>1. T.stage = "request" /\ setup' = setup /\ TurnOK(T, s)
  BY DEF Requested, At, Rest, TInv
<1>2. CASE turn' = [turn EXCEPT ![t] = Ended("failed")]
  BY <1>1, <1>2, EndedKept
<1>3. CASE Becomes(t, new)
  <2>1. /\ U = [f \in DOMAIN NoTurn |-> IF f \in DOMAIN new THEN new[f] ELSE T[f]]
        /\ turn' = [u \in Turns |-> turn'[u]] /\ \A u \in Turns \ {t} : turn'[u] = turn[u]
    BY <1>3, Became
  <2>2. /\ DOMAIN U = DOMAIN NoTurn /\ U.prompt = T.prompt /\ U.stage = "streaming"
        /\ U.executed = T.executed /\ U.requests = T.requests /\ U.degraded = T.degraded
    BY <2>1, TurnFields
  <2> HIDE DEF T, U, s
  <2>3. Whole(U.prompt, s, Images(U, s)) /\ T.executed \in Nat /\ T.requests \in Nat /\ T.requests <= MaxCalls
    BY <1>1, <2>2 DEF TurnOK, Images
  <2>4. TurnOK(U, s)
    BY <2>2, <2>3 DEF TurnOK, BeforeLoop, InLoop
  <2> QED BY <1>1, <2>1, <2>4, OneTurnMoves DEF s, U
<1> QED BY <1>2, <1>3 DEF Requested

LEMMA TurnsInvariant == Spec => []TInv
<1>1. TInv /\ [Next]_vars => TInv'
  <2> SUFFICES ASSUME TInv, [Next]_vars PROVE TInv'
    OBVIOUS
  <2>1. UNCHANGED <<turn, setup>> => TInv'
    BY DEF TInv
  <2>2. ASSUME NEW a \in Askers, AskerStep(a) PROVE TInv'
    BY <2>1, <2>2 DEF AskerStep, TakeSlot, Hit, Miss, Computed
  <2>3. ASSUME NEW t \in Turns, TurnStep(t) PROVE TInv'
    <3>1. CASE ReplyFails(t) \/ CallFails(t) \/ NoGraph(t)
      BY <3>1, DegradeKept DEF ReplyFails, CallFails, NoGraph, At, Rest, InLoop
    <3> QED BY <2>3, <3>1, BeginKept, LoadSummaryKept, ReadStateKept, RepliedKept, ExecuteKept,
               FallbackKept, RequestedKept DEF TurnStep
  <2>4. ASSUME NEW t \in Turns, Abort(t) PROVE TInv'
    BY <2>4, EndedKept DEF Abort
  <2>5. Tick => TInv'
    BY <2>1 DEF Tick
  <2>6. UNCHANGED vars => TInv'
    BY <2>1 DEF vars
  <2> QED BY <2>2, <2>3, <2>4, <2>5, <2>6 DEF Next
<1> QED BY <1>1, InitTurns, PTL DEF Spec

\* Whatever the model asks for, however often and in what form, and wherever the
\* tool loop of execute_dialogue_tool_loop gives up, the prompt that call_dialogue_engine
\* streams is the direct path's or that of a loop that is whole.
THEOREM PromptsAreWhole == Spec => []PromptWellFormed
<1>1. TInv => PromptWellFormed
  <2> SUFFICES ASSUME TInv, NEW t \in Turns, turn[t].stage = "streaming"
               PROVE  Whole(turn[t].prompt, setup[t], Images(turn[t], setup[t]))
                      /\ turn[t].requests <= MaxCalls
    BY DEF PromptWellFormed, Whole, Said, Images
  <2> QED BY DEF TInv, TurnOK
<1> QED BY <1>1, TurnsInvariant, PTL

=============================================================================
