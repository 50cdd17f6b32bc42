------------------------- MODULE PlatformRelayProofs --------------------------
(***************************************************************************)
(* Proofs about PlatformRelay, for every set of connections, platforms and *)
(* messages and every capacity: frames are never interleaved, responses    *)
(* stay with their platform, and messages and answers keep their order.    *)
(***************************************************************************)
EXTENDS PlatformRelay, SequenceTheorems, TLAPS

-----------------------------------------------------------------------------
(* The inductive invariant *)

Frames == [kind : {"pong", "ack", "response"}, of : Messages \cup {Ping}]
Parts == [frame : Frames, part : {1, 2}]

Shapes ==
  /\ lock \in [Conns -> {"free", "ingest", "forward"}]
  /\ conn \in [Conns -> {"new", "open", "gone"}]
  /\ server \in [Conns -> {"none", "reading", "handing", "locking", "length", "body", "ended"}]
  /\ forwarder \in [Conns -> {"none", "waiting", "receiving", "locking", "length", "body", "ended"}]
  /\ arrived \subseteq Messages /\ asked \in [Conns -> Seq(Messages)] /\ bus \in Seq(Messages)
  /\ ingestQ \in [Conns -> Seq(Messages)] /\ responseQ \in [Conns -> Seq(Messages)]
  /\ inReader \in [Conns -> Seq(Messages)]
  /\ up \in [Conns -> Seq(Messages \cup {Ping})] /\ held \in [Conns -> Seq(Messages \cup {Ping})]
  /\ down \in [Conns -> Seq(Parts)] /\ partial \in [Conns -> Seq(Parts)]
  /\ detected \in [Conns -> BOOLEAN] /\ cursor \in [Conns -> Nat]
  /\ missed \in [Conns -> SUBSET Messages] /\ delivered \in [Conns -> Seq(Messages)]

Limits(c) ==
  /\ Len(ingestQ[c]) <= ChannelCapacity /\ Len(responseQ[c]) <= ChannelCapacity
  /\ Len(up[c]) <= SocketCapacity /\ Len(down[c]) <= SocketCapacity
  /\ Len(partial[c]) <= 1 /\ Len(inReader[c]) <= 1 /\ cursor[c] <= Len(bus)

\* Who holds the lock, a frame or a response, and when.
Turns(c) ==
  /\ conn[c] = "new" => server[c] = "none" /\ forwarder[c] = "none"
  /\ lock[c] = "ingest" <=> server[c] \in {"length", "body"}
  /\ lock[c] = "forward" <=> forwarder[c] \in {"length", "body"}
  /\ IF server[c] \in {"handing", "locking", "length", "body"}
     THEN Len(held[c]) = 1 ELSE held[c] = <<>>
  /\ server[c] = "handing" => held[c][1] \in Messages
  /\ forwarder[c] \in {"locking", "length", "body"} =>
       cursor[c] >= 1 /\ Platform(bus[cursor[c]]) = PlatformOf[c]

\* Parts come in pairs, but for a last one alone.
Whole(s) ==
  \A i \in 1 .. Len(s) :
    /\ s[i].part = IF i % 2 = 1 THEN 1 ELSE 2
    /\ i % 2 = 0 => s[i].frame = s[i - 1].frame
\* A last part alone is of frame f.
EndsInside(s, f) == Len(s) % 2 = 1 /\ s[Len(s)].frame = f

\* What is in the socket: whole frames, and the first part of the one being written.
Stream(c) ==
  /\ Whole(Incoming(c))
  /\ ~Open(c) => partial[c] = <<>> /\ down[c] = <<>>
  /\ Open(c) => CASE server[c] = "body" -> EndsInside(Incoming(c), Reply(held[c][1]))
                  [] forwarder[c] = "body" ->
                       EndsInside(Incoming(c), Frame("response", bus[cursor[c]]))
                  [] OTHER -> Len(Incoming(c)) % 2 = 0

IsOwn(c, m) == m \in Messages /\ Platform(m) = PlatformOf[c]
OwnOnly(c) ==
  /\ \A i \in 1 .. Len(delivered[c]) : IsOwn(c, delivered[c][i])
  /\ \A i \in 1 .. Len(responseQ[c]) : IsOwn(c, responseQ[c][i])
  /\ \A i \in 1 .. Len(inReader[c]) : IsOwn(c, inReader[c][i])
  /\ \A i \in 1 .. Len(down[c]) :
       down[c][i].frame.kind = "response" => IsOwn(c, down[c][i].frame.of)

ConnOK(c) == Limits(c) /\ Turns(c) /\ Stream(c) /\ OwnOnly(c)
IInv == Shapes /\ \A c \in Conns : ConnOK(c)

-----------------------------------------------------------------------------
(* Sequences of parts *)

LEMMA Parity ==
  \A n \in Nat : n % 2 \in {0, 1} /\ (n + 1) % 2 = 1 - (n % 2) /\ (n + 2) % 2 = n % 2
OBVIOUS

LEMMA PartsTyped ==
  ASSUME NEW f \in Frames, NEW n \in {1, 2}
  PROVE  Part(f, n) \in Parts /\ Part(f, n).frame = f /\ Part(f, n).part = n
BY DEF Part, Parts

LEMMA Appended ==
  ASSUME NEW S, NEW s \in Seq(S), NEW x \in S
  PROVE  /\ Append(s, x) \in Seq(S) /\ Len(Append(s, x)) = Len(s) + 1 /\ Len(s) \in Nat
         /\ \A i \in 1 .. Len(s) : Append(s, x)[i] = s[i]
         /\ Append(s, x)[Len(s) + 1] = x
BY AppendProperties, LenProperties

LEMMA AppendToConcat ==
  ASSUME NEW S, NEW s \in Seq(S), NEW t \in Seq(S), NEW x \in S
  PROVE  s \o Append(t, x) = Append(s \o t, x) /\ s \o t \in Seq(S)
<1>1. /\ s \o t \in Seq(S) /\ <<x>> \in Seq(S)
      /\ Append(t, x) = t \o <<x>> /\ Append(s \o t, x) = (s \o t) \o <<x>>
  BY ConcatProperties, AppendIsConcat
<1>2. (s \o t) \o <<x>> = s \o (t \o <<x>>)
  BY <1>1, ConcatAssociative
<1> QED BY <1>1, <1>2

LEMMA OnlyOne ==
  ASSUME NEW S, NEW s \in Seq(S), s # <<>>, Len(s) <= 1
  PROVE  Len(s) = 1
<1>1. Len(s) \in Nat /\ Len(s) # 0
  BY EmptySeq, LenProperties
<1>2. \A n \in Nat : n # 0 /\ n <= 1 => n = 1
  OBVIOUS
<1> QED BY <1>1, <1>2

LEMMA FirstPart ==
  ASSUME NEW s \in Seq(Parts), NEW f \in Frames, Whole(s), Len(s) % 2 = 0
  PROVE  Whole(Append(s, Part(f, 1))) /\ EndsInside(Append(s, Part(f, 1)), f)
<1> DEFINE t == Append(s, Part(f, 1))
<1>1. /\ Len(t) = Len(s) + 1 /\ Len(s) \in Nat
      /\ \A i \in 1 .. Len(s) : t[i] = s[i]
      /\ t[Len(s) + 1].frame = f /\ t[Len(s) + 1].part = 1
  BY PartsTyped, Appended
<1>2. Len(t) % 2 = 1
  BY <1>1, Parity
<1> HIDE DEF t
<1>3. ASSUME NEW i \in 1 .. Len(t)
      PROVE  /\ t[i].part = IF i % 2 = 1 THEN 1 ELSE 2
             /\ i % 2 = 0 => t[i].frame = t[i - 1].frame
  <2>1. CASE i = Len(s) + 1
    BY <1>1, <1>2, <2>1
  <2>2. CASE i # Len(s) + 1
    <3>1. i \in 1 .. Len(s) /\ (i % 2 = 0 => i - 1 \in 1 .. Len(s))
      BY <1>1, <2>2
    <3> QED BY <1>1, <3>1 DEF Whole
  <2> QED BY <2>1, <2>2
<1> QED BY <1>1, <1>2, <1>3 DEF Whole, EndsInside, t

LEMMA SecondPart ==
  ASSUME NEW s \in Seq(Parts), NEW f \in Frames, Whole(s), EndsInside(s, f)
  PROVE  Whole(Append(s, Part(f, 2))) /\ Len(Append(s, Part(f, 2))) % 2 = 0
<1> DEFINE t == Append(s, Part(f, 2))
<1>1. /\ Len(t) = Len(s) + 1 /\ Len(s) \in Nat
      /\ \A i \in 1 .. Len(s) : t[i] = s[i]
      /\ t[Len(s) + 1].frame = f /\ t[Len(s) + 1].part = 2
  BY PartsTyped, Appended
<1>2. Len(t) % 2 = 0 /\ Len(s) \in 1 .. Len(s) /\ s[Len(s)].frame = f
  BY <1>1, Parity DEF EndsInside
<1> HIDE DEF t
<1>3. ASSUME NEW i \in 1 .. Len(t)
      PROVE  /\ t[i].part = IF i % 2 = 1 THEN 1 ELSE 2
             /\ i % 2 = 0 => t[i].frame = t[i - 1].frame
  <2>1. CASE i = Len(s) + 1
    <3>1. i % 2 = 0 /\ i - 1 = Len(s) /\ t[i - 1] = s[Len(s)]
      BY <1>1, <1>2, <2>1
    <3> QED BY <1>1, <1>2, <2>1, <3>1
  <2>2. CASE i # Len(s) + 1
    <3>1. i \in 1 .. Len(s) /\ (i % 2 = 0 => i - 1 \in 1 .. Len(s))
      BY <1>1, <2>2
    <3> QED BY <1>1, <3>1 DEF Whole
  <2> QED BY <2>1, <2>2
<1> QED BY <1>2, <1>3 DEF Whole, t

\* Two parts less are a frame less.
LEMMA FrameLess ==
  ASSUME NEW s \in Seq(Parts), NEW t \in Seq(Parts), Whole(s), Len(s) = Len(t) + 2,
         \A i \in 1 .. Len(t) : t[i] = s[i + 2]
  PROVE  /\ Whole(t) /\ (Len(s) % 2 = 0 => Len(t) % 2 = 0)
         /\ \A f : EndsInside(s, f) => EndsInside(t, f)
<1>1. Len(t) \in Nat /\ Len(s) % 2 = Len(t) % 2
  BY LenProperties, Parity
<1>2. ASSUME NEW i \in 1 .. Len(t)
      PROVE  /\ t[i].part = IF i % 2 = 1 THEN 1 ELSE 2
             /\ i % 2 = 0 => t[i].frame = t[i - 1].frame
  <2> i \in Nat /\ i >= 1 /\ i <= Len(t)
    BY <1>1
  <2>1. i + 2 \in 1 .. Len(s) /\ (i + 2) % 2 = i % 2 /\ t[i] = s[i + 2]
    <3>1. i + 2 \in 1 .. Len(s)
      BY <1>1
    <3> QED BY <3>1, Parity
  <2>2. i % 2 = 0 => i - 1 \in 1 .. Len(t) /\ t[i - 1] = s[(i + 2) - 1]
    <3>0. i % 2 = 0 => i # 1
      OBVIOUS
    <3>1. i % 2 = 0 => i - 1 \in 1 .. Len(t) /\ (i - 1) + 2 = (i + 2) - 1
      BY <1>1, <3>0
    <3> QED BY <3>1
  <2> QED BY <2>1, <2>2 DEF Whole
<1>3. ASSUME NEW f, EndsInside(s, f) PROVE EndsInside(t, f)
  <2>1. Len(t) % 2 = 1 /\ s[Len(s)].frame = f
    BY <1>1, <1>3 DEF EndsInside
  <2>2. Len(t) \in 1 .. Len(t) /\ t[Len(t)] = s[Len(t) + 2]
    BY <1>1, <2>1
  <2> QED BY <2>1, <2>2 DEF EndsInside
<1> QED BY <1>1, <1>2, <1>3 DEF Whole

-----------------------------------------------------------------------------
(* Steps of one connection leave the others alone *)

SameAt(d) ==
  /\ conn'[d] = conn[d] /\ ingestQ'[d] = ingestQ[d] /\ up'[d] = up[d]
  /\ server'[d] = server[d] /\ held'[d] = held[d] /\ forwarder'[d] = forwarder[d]
  /\ cursor'[d] = cursor[d] /\ lock'[d] = lock[d] /\ down'[d] = down[d]
  /\ partial'[d] = partial[d] /\ inReader'[d] = inReader[d] /\ responseQ'[d] = responseQ[d]
  /\ delivered'[d] = delivered[d]

LEMMA SameStays ==
  ASSUME NEW d \in Conns, ConnOK(d), SameAt(d), bus' = bus
  PROVE  ConnOK(d)'
<1>1. Limits(d)' /\ Turns(d)'
  BY DEF ConnOK, SameAt, Limits, Turns
<1>2. Incoming(d)' = Incoming(d)
  BY DEF SameAt, Incoming
<1>3. Stream(d)'
  BY <1>2 DEF ConnOK, SameAt, Stream, Open, Whole, EndsInside
<1>4. OwnOnly(d)'
  BY DEF ConnOK, SameAt, OwnOnly
<1> QED BY <1>1, <1>3, <1>4 DEF ConnOK

LEMMA LocalStep ==
  ASSUME IInv, NEW c \in Conns, bus' = bus, Shapes', ConnOK(c)',
         \A d \in Conns \ {c} : SameAt(d)
  PROVE  IInv'
BY SameStays DEF IInv

-----------------------------------------------------------------------------
(* Every action keeps the invariant *)

\* What is known of one connection.
LEMMA TypesAt ==
  ASSUME Shapes, NEW c \in Conns
  PROVE  /\ ingestQ[c] \in Seq(Messages) /\ responseQ[c] \in Seq(Messages)
         /\ inReader[c] \in Seq(Messages) /\ up[c] \in Seq(Messages \cup {Ping})
         /\ delivered[c] \in Seq(Messages) /\ asked[c] \in Seq(Messages)
         /\ held[c] \in Seq(Messages \cup {Ping})
         /\ down[c] \in Seq(Parts) /\ partial[c] \in Seq(Parts)
         /\ cursor[c] \in Nat /\ Len(bus) \in Nat
BY LenProperties DEF Shapes

LEMMA NothingIncoming ==
  ASSUME NEW c \in Conns, partial[c] = <<>>, down[c] = <<>>
  PROVE  Incoming(c) = <<>> /\ Len(Incoming(c)) = 0 /\ Whole(Incoming(c)) /\ 0 % 2 = 0
<1>1. Incoming(c) = <<>>
  BY DEF Incoming
<1> QED BY <1>1 DEF Whole

LEMMA ConnectKeeps == ASSUME IInv, NEW c \in Conns, Connect(c) PROVE IInv'
<1> USE DEF Connect, clientVars
<1>1. /\ Shapes /\ Limits(c) /\ Turns(c) /\ Stream(c) /\ OwnOnly(c)
      /\ partial[c] = <<>> /\ down[c] = <<>> /\ server[c] = "none" /\ forwarder[c] = "none"
  BY DEF IInv, ConnOK, Turns, Stream, Open
<1>2. /\ <<Ping>> \in Seq(Messages \cup {Ping}) /\ Len(<<Ping>>) = 1
      /\ <<>> \in Seq(Messages \cup {Ping}) /\ Len(<<>>) = 0 /\ Len(bus) \in Nat
  BY <1>1, TypesAt
<1>3. Shapes'
  BY <1>1, <1>2 DEF Shapes
<1>4. \A d \in Conns \ {c} : SameAt(d)
  BY <1>1 DEF Shapes, SameAt
<1>5. Limits(c)'
  <2>1. up'[c] \in {<<Ping>>, <<>>} /\ cursor'[c] = Len(bus)
    BY <1>1 DEF Shapes
  <2>2. Len(up'[c]) <= SocketCapacity
    <3>1. CASE up'[c] = <<Ping>>
      <4>1. Len(up'[c]) = 1
        BY <1>2, <3>1, Zenon
      <4>2. 1 <= SocketCapacity
        BY CapacityAssumption
      <4> QED BY <4>1, <4>2, Zenon
    <3>2. CASE up'[c] = <<>>
      BY <1>2, <3>2, CapacityAssumption
    <3> QED BY <2>1, <3>1, <3>2
  <2> QED BY <1>1, <1>2, <2>1, <2>2 DEF Limits
<1>6. Turns(c)'
  BY <1>1 DEF Turns, Shapes
<1>7. Stream(c)'
  <2>1. Incoming(c)' = Incoming(c)
    BY DEF Incoming
  <2>2. server'[c] = "reading" /\ forwarder'[c] = "waiting"
    BY <1>1 DEF Shapes
  <2> QED BY <1>1, <2>1, <2>2, NothingIncoming DEF Stream, Whole
<1>8. OwnOnly(c)'
  BY <1>1 DEF OwnOnly
<1> QED BY <1>3, <1>4, <1>5, <1>6, <1>7, <1>8, LocalStep DEF ConnOK

LEMMA IngestCallKeeps == ASSUME IInv, NEW m \in Messages, IngestCall(m) PROVE IInv'
<1> DEFINE c == ConnOf[m]
<1> USE DEF IngestCall, serverVars, forwardVars, socketVars
<1>1. /\ c \in Conns /\ Shapes /\ Limits(c) /\ Turns(c) /\ Stream(c) /\ OwnOnly(c)
  BY ConnsAssumption DEF IInv, ConnOK
<1>2. /\ ingestQ'[c] = Append(ingestQ[c], m) /\ Len(ingestQ[c]) < ChannelCapacity
      /\ \A d \in Conns \ {c} : ingestQ'[d] = ingestQ[d]
      /\ ingestQ' \in [Conns -> Seq(Messages)]
  BY <1>1, Appended DEF Shapes
<1>3. Shapes'
  BY <1>1, <1>2 DEF Shapes
<1>4. \A d \in Conns \ {c} : SameAt(d)
  BY <1>2 DEF SameAt
<1>5. Limits(c)'
  <2>1. Len(ingestQ'[c]) <= ChannelCapacity
    BY <1>1, <1>2, TypesAt, Appended, CapacityAssumption
  <2> QED BY <1>1, <2>1 DEF Limits
<1>6. Turns(c)' /\ OwnOnly(c)'
  BY <1>1 DEF Turns, OwnOnly
<1>7. Stream(c)'
  BY <1>1 DEF Stream, Incoming, Open
<1> QED BY <1>1, <1>3, <1>4, <1>5, <1>6, <1>7, LocalStep DEF ConnOK

LEMMA ClientWriteKeeps == ASSUME IInv, NEW c \in Conns, ClientWrite(c) PROVE IInv'
<1> USE DEF ClientWrite, serverVars, forwardVars, outside
<1>1. /\ Shapes /\ Limits(c) /\ Turns(c) /\ Stream(c) /\ OwnOnly(c)
  BY DEF IInv, ConnOK
<1>2. /\ ingestQ[c] \in Seq(Messages) /\ ingestQ[c] # <<>> /\ up[c] \in Seq(Messages \cup {Ping})
      /\ Head(ingestQ[c]) \in Messages /\ Tail(ingestQ[c]) \in Seq(Messages)
      /\ Len(Tail(ingestQ[c])) = Len(ingestQ[c]) - 1 /\ Len(ingestQ[c]) \in Nat
      /\ Len(up[c]) \in Nat
  BY <1>1, TypesAt, HeadTailProperties, LenProperties
<1>3. /\ Append(up[c], Head(ingestQ[c])) \in Seq(Messages \cup {Ping})
      /\ Len(Append(up[c], Head(ingestQ[c]))) = Len(up[c]) + 1
  BY <1>2, Appended
<1>4. /\ up' \in [Conns -> Seq(Messages \cup {Ping})] /\ ingestQ' \in [Conns -> Seq(Messages)]
      /\ up'[c] = Append(up[c], Head(ingestQ[c])) /\ ingestQ'[c] = Tail(ingestQ[c])
      /\ \A d \in Conns \ {c} : up'[d] = up[d] /\ ingestQ'[d] = ingestQ[d]
  BY <1>1, <1>2, <1>3 DEF Shapes
<1>5. Shapes'
  BY <1>1, <1>4 DEF Shapes
<1>6. \A d \in Conns \ {c} : SameAt(d)
  BY <1>4 DEF SameAt
<1>7. Limits(c)'
  <2>1. Len(up'[c]) <= SocketCapacity /\ Len(ingestQ'[c]) <= ChannelCapacity
    BY <1>1, <1>2, <1>3, <1>4, CapacityAssumption DEF Limits
  <2> QED BY <1>1, <2>1 DEF Limits
<1>8. Turns(c)' /\ OwnOnly(c)' /\ Stream(c)'
  BY <1>1 DEF Turns, OwnOnly, Stream, Incoming, Open
<1> QED BY <1>5, <1>6, <1>7, <1>8, LocalStep DEF ConnOK

LEMMA ClientReadKeeps == ASSUME IInv, NEW c \in Conns, ClientRead(c) PROVE IInv'
<1> USE DEF ClientRead, serverVars, forwardVars, outside
<1>1. /\ Shapes /\ Limits(c) /\ Turns(c) /\ Stream(c) /\ OwnOnly(c) /\ Open(c)
  BY DEF IInv, ConnOK
<1> DEFINE h == Head(down[c])
<1>2. /\ down[c] \in Seq(Parts) /\ down[c] # <<>> /\ partial[c] \in Seq(Parts)
      /\ h \in Parts /\ h = down[c][1] /\ 1 \in 1 .. Len(down[c])
      /\ Tail(down[c]) \in Seq(Parts) /\ Len(down[c]) \in Nat
      /\ Len(Tail(down[c])) = Len(down[c]) - 1
      /\ \A i \in 1 .. Len(Tail(down[c])) : Tail(down[c])[i] = down[c][i + 1]
  BY <1>1, TypesAt, HeadTailProperties, LenProperties
<1>3. h.frame.kind = "response" => IsOwn(c, h.frame.of)
  BY <1>1, <1>2 DEF OwnOnly
<1>4. /\ <<h>> \in Seq(Parts) /\ Len(<<h>>) = 1 /\ <<>> \in Seq(Parts) /\ Len(<<>>) = 0
  BY <1>2
<1>5. h.frame.kind = "response" =>
        /\ <<h.frame.of>> \in Seq(Messages) /\ Len(<<h.frame.of>>) = 1
        /\ <<h.frame.of>>[1] = h.frame.of
  BY <1>3 DEF IsOwn
<1> HIDE DEF h
<1>6. /\ UNCHANGED <<ingestQ, responseQ, server, held, detected, forwarder, cursor, missed, up, lock,
                     conn, arrived, asked, bus, delivered>>
      /\ down' = [down EXCEPT ![c] = Tail(down[c])]
      /\ \/ /\ partial[c] = <<>> /\ partial' = [partial EXCEPT ![c] = <<h>>] /\ inReader' = inReader
         \/ /\ partial[c] # <<>> /\ partial' = [partial EXCEPT ![c] = <<>>]
            /\ \/ /\ h.frame.kind = "response"
                  /\ inReader' = [inReader EXCEPT ![c] = <<h.frame.of>>]
               \/ inReader' = inReader
  BY DEF h
<1> HIDE DEF ClientRead, serverVars, forwardVars, outside
<1>7. Shapes'
  <2>1. down' \in [Conns -> Seq(Parts)]
    BY <1>1, <1>2, <1>6 DEF Shapes
  <2>2. partial' \in [Conns -> Seq(Parts)]
    BY <1>1, <1>4, <1>6 DEF Shapes
  <2>3. inReader' \in [Conns -> Seq(Messages)]
    BY <1>1, <1>5, <1>6 DEF Shapes
  <2> QED BY <1>1, <1>6, <2>1, <2>2, <2>3 DEF Shapes
<1>8. \A d \in Conns \ {c} : SameAt(d)
  BY <1>1, <1>6 DEF SameAt, Shapes
<1>9. /\ down'[c] = Tail(down[c]) /\ partial'[c] \in {<<h>>, <<>>}
      /\ \/ inReader'[c] = inReader[c]
         \/ h.frame.kind = "response" /\ inReader'[c] = <<h.frame.of>>
  BY <1>1, <1>6 DEF Shapes
<1>10. Limits(c)'
  <2>1. Len(partial'[c]) <= 1
    <3>1. CASE partial'[c] = <<h>>
      BY <1>4, <3>1
    <3>2. CASE partial'[c] = <<>>
      BY <1>4, <3>2
    <3> QED BY <1>9, <3>1, <3>2
  <2>2. Len(inReader'[c]) <= 1
    <3>1. CASE inReader'[c] = inReader[c]
      BY <1>1, <3>1 DEF Limits
    <3>2. CASE h.frame.kind = "response" /\ inReader'[c] = <<h.frame.of>>
      BY <1>5, <3>2
    <3> QED BY <1>9, <3>1, <3>2
  <2>3. Len(down'[c]) <= SocketCapacity
    BY <1>1, <1>2, <1>9, CapacityAssumption DEF Limits
  <2> QED BY <1>1, <1>6, <2>1, <2>2, <2>3 DEF Limits
<1>11. Turns(c)'
  BY <1>1, <1>6 DEF Turns
<1>12. OwnOnly(c)'
  <2>1. \A i \in 1 .. Len(inReader'[c]) : IsOwn(c, inReader'[c][i])
    BY <1>1, <1>3, <1>5, <1>9 DEF OwnOnly
  <2>2. \A i \in 1 .. Len(down'[c]) :
          down'[c][i].frame.kind = "response" => IsOwn(c, down'[c][i].frame.of)
    BY <1>1, <1>2, <1>9 DEF OwnOnly
  <2> QED BY <1>1, <1>6, <2>1, <2>2 DEF OwnOnly, IsOwn
<1>13. Stream(c)'
  <2>1. CASE partial[c] = <<>>
    \* Half a frame moves from the socket to the reader.
    <3>1. Incoming(c)' = <<h>> \o Tail(down[c]) /\ Incoming(c) = <<>> \o down[c]
      BY <1>1, <1>6, <2>1 DEF Incoming, Shapes
    <3>2. Incoming(c)' = Incoming(c)
      BY <1>2, <3>1 DEF h
    <3> QED BY <1>1, <1>6, <3>2 DEF Stream, Whole, EndsInside, Open
  <2>2. CASE partial[c] # <<>>
    <3>1. Len(partial[c]) = 1
      <4>1. Len(partial[c]) <= 1
        BY <1>1 DEF Limits
      <4> QED BY <1>2, <2>2, <4>1, OnlyOne
    <3>2. Incoming(c)' = <<>> \o Tail(down[c]) /\ Incoming(c) = partial[c] \o down[c]
      BY <1>1, <1>6, <2>2 DEF Incoming, Shapes
    <3>3. Incoming(c)' = Tail(down[c]) /\ Incoming(c)' \in Seq(Parts)
      BY <1>2, <3>2, ConcatEmptySeq
    <3>4. /\ Incoming(c) \in Seq(Parts) /\ Len(Incoming(c)) = 1 + Len(down[c])
          /\ \A i \in 1 .. 1 + Len(down[c]) :
               Incoming(c)[i] = IF i <= 1 THEN partial[c][i] ELSE down[c][i - 1]
      <4> DEFINE u == partial[c] \o down[c]
      <4>1. /\ u \in Seq(Parts) /\ Len(u) = Len(partial[c]) + Len(down[c])
            /\ \A i \in 1 .. Len(partial[c]) + Len(down[c]) :
                 u[i] = IF i <= Len(partial[c]) THEN partial[c][i] ELSE down[c][i - Len(partial[c])]
        BY <1>2, ConcatProperties, Zenon
      <4>2. Incoming(c) = u
        BY DEF Incoming
      <4> HIDE DEF u
      <4> QED BY <3>1, <4>1, <4>2
    <3>5. /\ Len(Incoming(c)) = Len(Incoming(c)') + 2
          /\ \A i \in 1 .. Len(Incoming(c)') : Incoming(c)'[i] = Incoming(c)[i + 2]
      <4>1. Len(Incoming(c)) = Len(Incoming(c)') + 2
        BY <1>2, <3>3, <3>4
      <4>2. ASSUME NEW i \in 1 .. Len(Incoming(c)') PROVE Incoming(c)'[i] = Incoming(c)[i + 2]
        <5>1. i + 2 \in 1 .. 1 + Len(down[c]) /\ ~(i + 2 <= 1) /\ (i + 2) - 1 = i + 1
          BY <1>2, <3>3, <4>2
        <5> QED BY <1>2, <3>3, <3>4, <4>2, <5>1
      <4> QED BY <4>1, <4>2
    <3>6. /\ Whole(Incoming(c)') /\ (Len(Incoming(c)) % 2 = 0 => Len(Incoming(c)') % 2 = 0)
          /\ \A f : EndsInside(Incoming(c), f) => EndsInside(Incoming(c)', f)
      BY <1>1, <3>3, <3>4, <3>5, FrameLess DEF Stream
    <3> QED BY <1>1, <1>6, <3>6 DEF Stream, Whole, EndsInside, Open
  <2> QED BY <2>1, <2>2
<1> QED BY <1>6, <1>7, <1>8, <1>10, <1>11, <1>12, <1>13, LocalStep DEF ConnOK

LEMMA ClientPassKeeps == ASSUME IInv, NEW c \in Conns, ClientPass(c) PROVE IInv'
<1>1. /\ Shapes /\ Limits(c) /\ Turns(c) /\ Stream(c) /\ OwnOnly(c)
  BY DEF IInv, ConnOK
<1>2. /\ inReader[c] # <<>> /\ Len(responseQ[c]) < ChannelCapacity
      /\ responseQ' = [responseQ EXCEPT ![c] = responseQ[c] \o inReader[c]]
      /\ inReader' = [inReader EXCEPT ![c] = <<>>]
      /\ UNCHANGED <<ingestQ, partial, server, held, detected, forwarder, cursor, missed, up, down,
                     lock, conn, arrived, asked, bus, delivered>>
  BY DEF ClientPass, serverVars, forwardVars, socketVars, outside
<1> DEFINE q == responseQ[c]
           r == inReader[c]
           qr == q \o r
<1>3. /\ q \in Seq(Messages) /\ r \in Seq(Messages) /\ Len(r) <= 1 /\ r # <<>>
      /\ Len(q) < ChannelCapacity /\ Len(q) \in Nat
      /\ (\A i \in 1 .. Len(q) : IsOwn(c, q[i])) /\ (\A i \in 1 .. Len(r) : IsOwn(c, r[i]))
  BY <1>1, <1>2, TypesAt, LenProperties DEF Limits, OwnOnly
<1> HIDE DEF q, r
<1>4. Len(r) = 1
  BY <1>3, OnlyOne
<1>5. /\ qr \in Seq(Messages) /\ Len(qr) = Len(q) + 1
      /\ \A i \in 1 .. Len(q) + 1 : qr[i] = IF i <= Len(q) THEN q[i] ELSE r[i - Len(q)]
  BY <1>3, <1>4, ConcatProperties
<1> HIDE DEF qr
<1>6. Len(qr) <= ChannelCapacity
  BY <1>3, <1>5, CapacityAssumption
<1>7. \A i \in 1 .. Len(qr) : IsOwn(c, qr[i])
  <2> SUFFICES ASSUME NEW i \in 1 .. Len(q) + 1 PROVE IsOwn(c, qr[i])
    BY <1>5
  <2>1. CASE i <= Len(q)
    BY <1>3, <1>5, <2>1
  <2>2. CASE ~(i <= Len(q))
    <3>1. i - Len(q) = 1 /\ qr[i] = r[i - Len(q)]
      BY <1>3, <1>5, <2>2
    <3> QED BY <1>3, <1>4, <3>1
  <2> QED BY <2>1, <2>2
<1>8. /\ responseQ'[c] = qr /\ inReader'[c] = <<>> /\ responseQ' \in [Conns -> Seq(Messages)]
      /\ inReader' \in [Conns -> Seq(Messages)]
      /\ \A d \in Conns \ {c} : responseQ'[d] = responseQ[d] /\ inReader'[d] = inReader[d]
  <2>1. <<>> \in Seq(Messages)
    OBVIOUS
  <2> QED BY <1>1, <1>2, <1>5, <2>1 DEF Shapes, qr, q, r
<1>9. Shapes'
  BY <1>1, <1>2, <1>8 DEF Shapes
<1>10. \A d \in Conns \ {c} : SameAt(d)
  BY <1>2, <1>8 DEF SameAt
<1>11. Limits(c)'
  <2>1. Len(inReader'[c]) = 0 /\ 0 <= 1
    BY <1>8
  <2>2. Len(inReader'[c]) <= 1 /\ Len(responseQ'[c]) <= ChannelCapacity
    BY <1>6, <1>8, <2>1, Zenon
  <2> QED BY <1>1, <1>2, <2>2 DEF Limits
<1>12. Turns(c)' /\ Stream(c)'
  BY <1>1, <1>2 DEF Turns, Stream, Incoming, Open
<1>13. OwnOnly(c)'
  <2>1. \A i \in 1 .. Len(responseQ'[c]) : IsOwn(c, responseQ'[c][i])
    BY <1>7, <1>8
  <2>2. \A i \in 1 .. Len(inReader'[c]) : IsOwn(c, inReader'[c][i])
    BY <1>8
  <2> QED BY <1>1, <1>2, <2>1, <2>2 DEF OwnOnly, IsOwn
<1> QED BY <1>2, <1>9, <1>10, <1>11, <1>12, <1>13, LocalStep DEF ConnOK

LEMMA DeliverKeeps == ASSUME IInv, NEW c \in Conns, Deliver(c) PROVE IInv'
<1>1. /\ Shapes /\ Limits(c) /\ Turns(c) /\ Stream(c) /\ OwnOnly(c)
  BY DEF IInv, ConnOK
<1>2. /\ responseQ[c] # <<>>
      /\ delivered' = [delivered EXCEPT ![c] = Append(@, Head(responseQ[c]))]
      /\ responseQ' = [responseQ EXCEPT ![c] = Tail(@)]
      /\ UNCHANGED <<ingestQ, partial, inReader, server, held, detected, forwarder, cursor, missed,
                     up, down, lock, conn, arrived, asked, bus>>
  BY DEF Deliver, serverVars, forwardVars, socketVars
<1> DEFINE q == responseQ[c]
<1>3. /\ q \in Seq(Messages) /\ q # <<>> /\ Head(q) = q[1] /\ Len(q) \in Nat /\ Len(q) # 0
      /\ Tail(q) \in Seq(Messages) /\ Len(Tail(q)) = Len(q) - 1
      /\ \A i \in 1 .. Len(Tail(q)) : Tail(q)[i] = q[i + 1]
      /\ Len(q) <= ChannelCapacity /\ \A i \in 1 .. Len(q) : IsOwn(c, q[i])
  BY <1>1, <1>2, TypesAt, LenProperties, HeadTailProperties DEF Limits, OwnOnly
<1> HIDE DEF q
<1>4. /\ IsOwn(c, Head(q)) /\ Head(q) \in Messages /\ Len(Tail(q)) <= ChannelCapacity
      /\ \A i \in 1 .. Len(Tail(q)) : IsOwn(c, Tail(q)[i])
  BY <1>3, CapacityAssumption DEF IsOwn
<1>5. /\ responseQ' \in [Conns -> Seq(Messages)] /\ delivered' \in [Conns -> Seq(Messages)]
      /\ responseQ'[c] = Tail(q) /\ delivered'[c] = Append(delivered[c], Head(q))
      /\ \A d \in Conns \ {c} : responseQ'[d] = responseQ[d] /\ delivered'[d] = delivered[d]
  <2>1. Append(delivered[c], Head(q)) \in Seq(Messages)
    BY <1>1, <1>4, TypesAt, Appended
  <2> QED BY <1>1, <1>2, <1>3, <2>1 DEF Shapes, q
<1>6. Shapes'
  BY <1>1, <1>2, <1>5 DEF Shapes
<1>7. \A d \in Conns \ {c} : SameAt(d)
  BY <1>2, <1>5 DEF SameAt
<1>8. Limits(c)'
  BY <1>1, <1>2, <1>4, <1>5 DEF Limits
<1>9. Turns(c)' /\ Stream(c)'
  BY <1>1, <1>2 DEF Turns, Stream, Incoming, Open
<1>10. OwnOnly(c)'
  <2>1. /\ Len(Append(delivered[c], Head(q))) = Len(delivered[c]) + 1 /\ Len(delivered[c]) \in Nat
        /\ \A i \in 1 .. Len(delivered[c]) : Append(delivered[c], Head(q))[i] = delivered[c][i]
        /\ Append(delivered[c], Head(q))[Len(delivered[c]) + 1] = Head(q)
    BY <1>1, <1>4, TypesAt, Appended
  <2>2. \A i \in 1 .. Len(delivered'[c]) : IsOwn(c, delivered'[c][i])
    BY <1>1, <1>4, <1>5, <2>1 DEF OwnOnly
  <2>3. \A i \in 1 .. Len(responseQ'[c]) : IsOwn(c, responseQ'[c][i])
    BY <1>4, <1>5
  <2> QED BY <1>1, <1>2, <2>2, <2>3 DEF OwnOnly, IsOwn
<1> QED BY <1>2, <1>6, <1>7, <1>8, <1>9, <1>10, LocalStep DEF ConnOK

LEMMA ReceiveKeeps == ASSUME IInv, NEW c \in Conns, Receive(c) PROVE IInv'
<1>1. /\ Shapes /\ Limits(c) /\ Turns(c) /\ Stream(c) /\ OwnOnly(c)
  BY DEF IInv, ConnOK
<1> DEFINE q == up[c]
<1>2. /\ server[c] = "reading" /\ up[c] # <<>>
      /\ up' = [up EXCEPT ![c] = Tail(q)] /\ held' = [held EXCEPT ![c] = <<Head(q)>>]
      /\ detected' = [detected EXCEPT ![c] = @ \/ Head(q) # Ping]
      /\ server' = [server EXCEPT ![c] = IF Head(q) = Ping THEN "locking" ELSE "handing"]
      /\ UNCHANGED <<ingestQ, partial, inReader, responseQ, forwarder, cursor, missed,
                     down, lock, conn, arrived, asked, bus, delivered>>
  BY DEF Receive, clientVars, forwardVars, outside
<1>3. /\ q \in Seq(Messages \cup {Ping}) /\ Len(q) \in Nat /\ Len(q) <= SocketCapacity
      /\ Head(q) \in Messages \cup {Ping} /\ Tail(q) \in Seq(Messages \cup {Ping})
      /\ Len(Tail(q)) = Len(q) - 1
  BY <1>1, <1>2, TypesAt, LenProperties, HeadTailProperties DEF Limits
<1> HIDE DEF q
<1>4. /\ <<Head(q)>> \in Seq(Messages \cup {Ping}) /\ Len(<<Head(q)>>) = 1
      /\ <<Head(q)>>[1] = Head(q) /\ Len(Tail(q)) <= SocketCapacity
  BY <1>3, CapacityAssumption
<1>5. /\ up' \in [Conns -> Seq(Messages \cup {Ping})] /\ held' \in [Conns -> Seq(Messages \cup {Ping})]
      /\ up'[c] = Tail(q) /\ held'[c] = <<Head(q)>>
      /\ server'[c] = IF Head(q) = Ping THEN "locking" ELSE "handing"
      /\ \A d \in Conns \ {c} : up'[d] = up[d] /\ held'[d] = held[d] /\ server'[d] = server[d]
  BY <1>1, <1>2, <1>3, <1>4 DEF Shapes
<1>6. Shapes'
  <2>1. detected' \in [Conns -> BOOLEAN]
    BY <1>1, <1>2 DEF Shapes
  <2>2. server' \in [Conns -> {"none", "reading", "handing", "locking", "length", "body", "ended"}]
    BY <1>1, <1>2 DEF Shapes
  <2> QED BY <1>1, <1>2, <1>5, <2>1, <2>2 DEF Shapes
<1>7. \A d \in Conns \ {c} : SameAt(d)
  BY <1>2, <1>5 DEF SameAt
<1>8. Limits(c)'
  BY <1>1, <1>2, <1>4, <1>5 DEF Limits
<1>9. Turns(c)'
  <2>1. server'[c] \in {"locking", "handing"} /\ Len(held'[c]) = 1
    BY <1>4, <1>5
  <2>2. server'[c] = "handing" => held'[c][1] \in Messages
    BY <1>3, <1>4, <1>5
  <2> QED BY <1>1, <1>2, <2>1, <2>2 DEF Turns
<1>10. Stream(c)'
  <2>1. server[c] # "body" /\ server'[c] # "body"
    BY <1>2, <1>5
  <2> QED BY <1>1, <1>2, <2>1 DEF Stream, Incoming, Open
<1>11. OwnOnly(c)'
  BY <1>1, <1>2 DEF OwnOnly
<1> QED BY <1>2, <1>6, <1>7, <1>8, <1>9, <1>10, <1>11, LocalStep DEF ConnOK

LEMMA HandKeeps == ASSUME IInv, NEW c \in Conns, Hand(c) PROVE IInv'
<1>1. /\ Shapes /\ Limits(c) /\ Turns(c) /\ Stream(c) /\ OwnOnly(c)
  BY DEF IInv, ConnOK
<1>2. /\ server[c] = "handing" /\ asked' = [asked EXCEPT ![c] = Append(@, held[c][1])]
      /\ server' = [server EXCEPT ![c] = "locking"] /\ server'[c] = "locking"
      /\ UNCHANGED <<ingestQ, partial, inReader, responseQ, held, detected, forwarder, cursor, missed,
                     up, down, lock, conn, arrived, bus, delivered>>
  BY <1>1 DEF Hand, clientVars, forwardVars, socketVars, Shapes
<1>3. held[c][1] \in Messages
  BY <1>1, <1>2 DEF Turns
<1>4. Shapes'
  <2>1. Append(asked[c], held[c][1]) \in Seq(Messages)
    BY <1>1, <1>3, TypesAt, Appended
  <2>2. asked' \in [Conns -> Seq(Messages)]
    BY <1>1, <1>2, <2>1 DEF Shapes
  <2> QED BY <1>1, <1>2, <2>2 DEF Shapes
<1>5. \A d \in Conns \ {c} : SameAt(d)
  BY <1>1, <1>2 DEF SameAt, Shapes
<1>6. Limits(c)' /\ OwnOnly(c)' /\ Turns(c)'
  BY <1>1, <1>2 DEF Limits, OwnOnly, Turns
<1>7. Stream(c)'
  BY <1>1, <1>2 DEF Stream, Incoming, Open
<1> QED BY <1>2, <1>4, <1>5, <1>6, <1>7, LocalStep DEF ConnOK

\* Steps of the ingest loop and the forwarder that move no part of a frame.
LEMMA QuietKeeps ==
  ASSUME IInv, NEW c \in Conns,
         LockForReply(c) \/ Hangup(c) \/ ForwarderStarts(c) \/ LockForResponse(c)
           \/ ForwarderEnds(c)
  PROVE  IInv'
<1>1. /\ Shapes /\ Limits(c) /\ Turns(c) /\ Stream(c) /\ OwnOnly(c)
  BY DEF IInv, ConnOK
<1>2. /\ UNCHANGED <<ingestQ, partial, inReader, responseQ, detected, cursor, missed, up, down,
                     conn, arrived, asked, bus, delivered>>
      /\ \/ /\ server[c] = "locking" /\ lock[c] = "free" /\ UNCHANGED <<held, forwarder>>
            /\ lock' = [lock EXCEPT ![c] = "ingest"] /\ server' = [server EXCEPT ![c] = "length"]
         \/ /\ conn[c] = "gone" /\ server[c] \in {"reading", "length", "body"}
            /\ server' = [server EXCEPT ![c] = "ended"] /\ held' = [held EXCEPT ![c] = <<>>]
            /\ lock' = [lock EXCEPT ![c] = IF @ = "ingest" THEN "free" ELSE @]
            /\ UNCHANGED forwarder
         \/ /\ forwarder[c] = "waiting" /\ forwarder' = [forwarder EXCEPT ![c] = "receiving"]
            /\ UNCHANGED <<server, held, lock>>
         \/ /\ forwarder[c] = "locking" /\ lock[c] = "free" /\ UNCHANGED <<server, held>>
            /\ lock' = [lock EXCEPT ![c] = "forward"]
            /\ forwarder' = [forwarder EXCEPT ![c] = "length"]
         \/ /\ \/ forwarder[c] \in {"length", "body"} /\ conn[c] = "gone"
               \/ forwarder[c] = "waiting"
            /\ forwarder' = [forwarder EXCEPT ![c] = "ended"] /\ UNCHANGED <<server, held>>
            /\ lock' = [lock EXCEPT ![c] = IF @ = "forward" THEN "free" ELSE @]
  BY DEF LockForReply, Hangup, ForwarderStarts, LockForResponse, ForwarderEnds,
         clientVars, serverVars, forwardVars, socketVars, outside
<1>3. Shapes'
  <2>1. <<>> \in Seq(Messages \cup {Ping})
    OBVIOUS
  <2>2. held' \in [Conns -> Seq(Messages \cup {Ping})]
    BY <1>1, <1>2, <2>1 DEF Shapes
  <2>3. /\ lock' \in [Conns -> {"free", "ingest", "forward"}]
        /\ server' \in [Conns -> {"none", "reading", "handing", "locking", "length", "body", "ended"}]
        /\ forwarder' \in [Conns -> {"none", "waiting", "receiving", "locking", "length", "body",
                                     "ended"}]
    <3>1. CASE LockForReply(c)
      BY <1>1, <3>1 DEF Shapes, LockForReply, forwardVars
    <3>2. CASE Hangup(c)
      BY <1>1, <3>2 DEF Shapes, Hangup, forwardVars
    <3>3. CASE ForwarderStarts(c)
      BY <1>1, <3>3 DEF Shapes, ForwarderStarts, serverVars, socketVars
    <3>4. CASE LockForResponse(c)
      BY <1>1, <3>4 DEF Shapes, LockForResponse, serverVars
    <3>5. CASE ForwarderEnds(c)
      BY <1>1, <3>5 DEF Shapes, ForwarderEnds, serverVars
    <3> QED BY <3>1, <3>2, <3>3, <3>4, <3>5
  <2> QED BY <1>1, <1>2, <2>2, <2>3 DEF Shapes
<1>4. \A d \in Conns \ {c} : SameAt(d)
  BY <1>1, <1>2 DEF SameAt, Shapes
<1>5. Limits(c)' /\ OwnOnly(c)'
  BY <1>1, <1>2 DEF Limits, OwnOnly
<1>6. Turns(c)'
  BY <1>1, <1>2 DEF Turns, Shapes
<1>7. Stream(c)'
  <2>1. Incoming(c)' = Incoming(c)
    BY <1>2 DEF Incoming
  <2>2. Open(c) => /\ server'[c] = "body" <=> server[c] = "body"
                   /\ forwarder'[c] = "body" <=> forwarder[c] = "body"
                   /\ held'[c] = held[c]
    BY <1>1, <1>2 DEF Open, Shapes
  <2> QED BY <1>1, <1>2, <2>1, <2>2 DEF Stream, Open, Whole, EndsInside
<1> QED BY <1>2, <1>3, <1>4, <1>5, <1>6, <1>7, LocalStep DEF ConnOK

\* The forwarder moves on over the broadcast.
LEMMA ListenKeeps ==
  ASSUME IInv, NEW c \in Conns, TakeResponse(c) \/ ForwarderLags(c)
  PROVE  IInv'
<1>1. /\ Shapes /\ Limits(c) /\ Turns(c) /\ Stream(c) /\ OwnOnly(c)
      /\ cursor[c] \in Nat /\ Len(bus) \in Nat /\ bus \in Seq(Messages) /\ BroadcastCapacity \in Nat
  BY TypesAt, CapacityAssumption DEF IInv, ConnOK, Shapes
<1>2. /\ forwarder[c] = "receiving"
      /\ UNCHANGED <<ingestQ, partial, inReader, responseQ, server, held, detected, up, down, lock,
                     conn, arrived, asked, bus, delivered>>
  BY DEF TakeResponse, ForwarderLags, clientVars, serverVars, socketVars, outside
<1>3. PICK n \in Nat :
        /\ n <= Len(bus) /\ cursor' = [cursor EXCEPT ![c] = n]
        /\ \/ /\ forwarder' = [forwarder EXCEPT ![c] = "locking"] /\ n >= 1
              /\ Platform(bus[n]) = PlatformOf[c]
           \/ forwarder' = forwarder
        /\ missed' \in [Conns -> SUBSET Messages]
  <2>1. CASE TakeResponse(c)
    <3>1. /\ cursor[c] + 1 \in Nat /\ cursor[c] + 1 <= Len(bus) /\ cursor[c] + 1 >= 1
      BY <1>1, <2>1 DEF TakeResponse
    <3>2. /\ cursor' = [cursor EXCEPT ![c] = cursor[c] + 1] /\ missed' = missed
          /\ \/ /\ forwarder' = [forwarder EXCEPT ![c] = "locking"]
                /\ Platform(bus[cursor[c] + 1]) = PlatformOf[c]
             \/ forwarder' = forwarder
      BY <1>1, <2>1 DEF TakeResponse, Shapes
    <3> QED BY <1>1, <3>1, <3>2 DEF Shapes
  <2>2. CASE ForwarderLags(c)
    <3> DEFINE oldest == Len(bus) - BroadcastCapacity
               lost == {bus[i] : i \in cursor[c] + 1 .. oldest}
    <3>1. oldest \in Nat /\ oldest <= Len(bus) /\ cursor[c] < oldest
      BY <1>1, <2>2 DEF ForwarderLags
    <3>2. lost \subseteq Messages
      <4> SUFFICES ASSUME NEW i \in cursor[c] + 1 .. oldest PROVE bus[i] \in Messages
        OBVIOUS
      <4>1. i \in 1 .. Len(bus)
        BY <1>1, <3>1
      <4> QED BY <1>1, <4>1, ElementOfSeq
    <3>3. /\ cursor' = [cursor EXCEPT ![c] = oldest] /\ forwarder' = forwarder
          /\ missed' = [missed EXCEPT ![c] = @ \cup lost]
      BY <2>2 DEF ForwarderLags
    <3> HIDE DEF lost, oldest
    <3>4. missed' \in [Conns -> SUBSET Messages]
      BY <1>1, <3>2, <3>3 DEF Shapes
    <3> QED BY <3>1, <3>3, <3>4
  <2> QED BY <2>1, <2>2
<1>4. Shapes'
  <2>1. cursor' \in [Conns -> Nat]
    BY <1>1, <1>3 DEF Shapes
  <2>2. forwarder' \in [Conns -> {"none", "waiting", "receiving", "locking", "length", "body", "ended"}]
    BY <1>1, <1>3 DEF Shapes
  <2> QED BY <1>1, <1>2, <1>3, <2>1, <2>2 DEF Shapes
<1>5. \A d \in Conns \ {c} : SameAt(d)
  BY <1>1, <1>2, <1>3 DEF SameAt, Shapes
<1>6. cursor'[c] = n /\ forwarder'[c] \in {"receiving", "locking"}
      /\ (forwarder'[c] = "locking" => n >= 1 /\ Platform(bus[n]) = PlatformOf[c])
  BY <1>1, <1>2, <1>3 DEF Shapes
<1>7. Limits(c)' /\ OwnOnly(c)'
  BY <1>1, <1>2, <1>3, <1>6 DEF Limits, OwnOnly
<1>8. Turns(c)'
  BY <1>1, <1>2, <1>6 DEF Turns
<1>9. Stream(c)'
  <2>1. Incoming(c)' = Incoming(c)
    BY <1>2 DEF Incoming
  <2>2. forwarder'[c] # "body" /\ forwarder[c] # "body"
    BY <1>2, <1>6
  <2> QED BY <1>1, <1>2, <2>1, <2>2 DEF Stream, Open, Whole, EndsInside
<1> QED BY <1>2, <1>4, <1>5, <1>7, <1>8, <1>9, LocalStep DEF ConnOK

\* One part of a frame goes into the socket: whoever writes it holds the lock, so
\* it follows the first part of its own frame or starts a new one.
LEMMA PartWritten ==
  ASSUME IInv, NEW c \in Conns, NEW x \in Parts,
         down' = [down EXCEPT ![c] = Append(@, x)], partial' = partial,
         Len(down[c]) < SocketCapacity,
         x.frame.kind = "response" => IsOwn(c, x.frame.of)
  PROVE  /\ down' \in [Conns -> Seq(Parts)] /\ Len(down'[c]) <= SocketCapacity
         /\ \A d \in Conns \ {c} : down'[d] = down[d]
         /\ Incoming(c)' = Append(Incoming(c), x) /\ Incoming(c) \in Seq(Parts)
         /\ Whole(Incoming(c))
         /\ \A i \in 1 .. Len(down'[c]) :
              down'[c][i].frame.kind = "response" => IsOwn(c, down'[c][i].frame.of)
<1> DEFINE q == down[c]
<1>1. /\ Shapes /\ q \in Seq(Parts) /\ partial[c] \in Seq(Parts) /\ Whole(Incoming(c))
      /\ \A i \in 1 .. Len(q) : q[i].frame.kind = "response" => IsOwn(c, q[i].frame.of)
  BY TypesAt DEF IInv, ConnOK, Stream, OwnOnly
<1>2. down' = [down EXCEPT ![c] = Append(q, x)] /\ down'[c] = Append(q, x)
  BY <1>1 DEF Shapes
<1>3. Incoming(c)' = Append(Incoming(c), x) /\ Incoming(c) \in Seq(Parts)
  <2>1. Incoming(c)' = partial[c] \o Append(q, x) /\ Incoming(c) = partial[c] \o q
    BY <1>2 DEF Incoming
  <2> HIDE DEF q
  <2>2. /\ partial[c] \o Append(q, x) = Append(partial[c] \o q, x)
        /\ partial[c] \o q \in Seq(Parts)
    BY <1>1, AppendToConcat
  <2> QED BY <2>1, <2>2
<1> HIDE DEF q
<1>4. /\ Append(q, x) \in Seq(Parts) /\ Len(Append(q, x)) = Len(q) + 1 /\ Len(q) \in Nat
      /\ \A i \in 1 .. Len(q) : Append(q, x)[i] = q[i]
      /\ Append(q, x)[Len(q) + 1] = x
  <2> QED BY <1>1, Appended
<1>5. down' \in [Conns -> Seq(Parts)] /\ \A d \in Conns \ {c} : down'[d] = down[d]
  BY <1>1, <1>2, <1>4 DEF Shapes
<1>6. Len(down'[c]) <= SocketCapacity
  <2>1. Len(q) < SocketCapacity
    BY DEF q
  <2>2. Len(q) + 1 <= SocketCapacity
    BY <1>4, <2>1, CapacityAssumption
  <2> QED BY <1>2, <1>4, <2>2, Zenon
<1>7. \A i \in 1 .. Len(down'[c]) :
        down'[c][i].frame.kind = "response" => IsOwn(c, down'[c][i].frame.of)
  <2> SUFFICES ASSUME NEW i \in 1 .. Len(q) + 1, Append(q, x)[i].frame.kind = "response"
               PROVE  IsOwn(c, Append(q, x)[i].frame.of)
    BY <1>2, <1>4
  <2>1. CASE i = Len(q) + 1
    BY <1>1, <1>4, <2>1
  <2>2. CASE i # Len(q) + 1
    <3>1. i \in 1 .. Len(q)
      BY <1>4, <2>2
    <3> QED BY <1>1, <1>4, <3>1
  <2> QED BY <2>1, <2>2
<1> QED BY <1>1, <1>3, <1>5, <1>6, <1>7

LEMMA WriteReplyKeeps == ASSUME IInv, NEW c \in Conns, WriteReply(c) PROVE IInv'
<1> DEFINE f == Reply(held[c][1])
<1>1. /\ Shapes /\ Limits(c) /\ Turns(c) /\ Stream(c) /\ OwnOnly(c)
  BY DEF IInv, ConnOK
<1>2. /\ server[c] \in {"length", "body"} /\ Open(c) /\ Len(down[c]) < SocketCapacity
      /\ UNCHANGED <<ingestQ, partial, inReader, responseQ, detected, forwarder, cursor, missed,
                     up, conn, arrived, asked, bus, delivered>>
  BY DEF WriteReply, clientVars, forwardVars, outside
\* The forwarder is not writing: the ingest loop has the lock.
<1>3. /\ Len(held[c]) = 1 /\ lock[c] = "ingest" /\ forwarder[c] \notin {"length", "body"}
  BY <1>1, <1>2 DEF Turns
<1>4. f \in Frames /\ f.kind # "response"
  <2>1. held[c][1] \in Messages \cup {Ping}
    <3>1. held[c] \in Seq(Messages \cup {Ping}) /\ 1 \in 1 .. Len(held[c])
      BY <1>1, <1>3, TypesAt
    <3> QED BY <3>1, ElementOfSeq
  <2> QED BY <2>1 DEF Reply, Frame, Frames
<1> HIDE DEF f
<1>5. CASE server[c] = "length"
  <2>1. /\ down' = [down EXCEPT ![c] = Append(@, Part(f, 1))]
        /\ server' = [server EXCEPT ![c] = "body"] /\ UNCHANGED <<lock, held>>
    BY <1>5 DEF WriteReply, f
  <2>2. Len(Incoming(c)) % 2 = 0
    BY <1>1, <1>2, <1>3, <1>5 DEF Stream
  <2>3. /\ down' \in [Conns -> Seq(Parts)] /\ Len(down'[c]) <= SocketCapacity
        /\ \A d \in Conns \ {c} : down'[d] = down[d]
        /\ Whole(Incoming(c)') /\ EndsInside(Incoming(c)', f)
        /\ \A i \in 1 .. Len(down'[c]) :
             down'[c][i].frame.kind = "response" => IsOwn(c, down'[c][i].frame.of)
    <3> DEFINE x == Part(f, 1)
    <3>1. x \in Parts /\ x.frame = f
      BY <1>4, PartsTyped
    <3>2. /\ down' = [down EXCEPT ![c] = Append(@, x)] /\ partial' = partial
          /\ Len(down[c]) < SocketCapacity
          /\ x.frame.kind = "response" => IsOwn(c, x.frame.of)
      BY <1>2, <1>4, <2>1, <3>1
    <3> HIDE DEF x
    <3>3. /\ down' \in [Conns -> Seq(Parts)] /\ Len(down'[c]) <= SocketCapacity
          /\ \A d \in Conns \ {c} : down'[d] = down[d]
          /\ Incoming(c)' = Append(Incoming(c), x) /\ Incoming(c) \in Seq(Parts)
          /\ Whole(Incoming(c))
          /\ \A i \in 1 .. Len(down'[c]) :
               down'[c][i].frame.kind = "response" => IsOwn(c, down'[c][i].frame.of)
      BY <3>1, <3>2, PartWritten
    <3>4. Whole(Incoming(c)') /\ EndsInside(Incoming(c)', f)
      BY <1>4, <2>2, <3>3, FirstPart DEF x
    <3> QED BY <3>3, <3>4
  <2>4. /\ server' \in [Conns -> {"none", "reading", "handing", "locking", "length", "body", "ended"}]
        /\ server'[c] = "body" /\ \A d \in Conns \ {c} : server'[d] = server[d]
    BY <1>1, <2>1 DEF Shapes
  <2>5. Shapes'
    BY <1>1, <1>2, <2>1, <2>3, <2>4 DEF Shapes
  <2>6. \A d \in Conns \ {c} : SameAt(d)
    BY <1>2, <2>1, <2>3, <2>4 DEF SameAt
  <2>7. Limits(c)' /\ OwnOnly(c)'
    BY <1>1, <1>2, <2>3 DEF Limits, OwnOnly, IsOwn
  <2>8. Turns(c)'
    BY <1>1, <1>2, <1>5, <2>1, <2>4 DEF Turns
  <2>9. Stream(c)'
    <3>1. Open(c)' /\ server'[c] = "body" /\ forwarder'[c] # "body"
      BY <1>2, <1>3, <2>4 DEF Open
    <3>2. Reply(held'[c][1]) = f
      BY <2>1 DEF f
    <3>3. EndsInside(Incoming(c)', Reply(held'[c][1]))
      BY <2>3, <3>2
    <3> QED BY <2>3, <3>1, <3>3 DEF Stream, Whole, EndsInside
  <2> QED BY <1>2, <2>5, <2>6, <2>7, <2>8, <2>9, LocalStep DEF ConnOK
<1>6. CASE server[c] = "body"
  <2>1. /\ down' = [down EXCEPT ![c] = Append(@, Part(f, 2))]
        /\ server' = [server EXCEPT ![c] = "reading"]
        /\ lock' = [lock EXCEPT ![c] = "free"] /\ held' = [held EXCEPT ![c] = <<>>]
    BY <1>6 DEF WriteReply, f
  <2>2. EndsInside(Incoming(c), f)
    <3>1. EndsInside(Incoming(c), Reply(held[c][1]))
      BY <1>1, <1>2, <1>3, <1>6 DEF Stream
    <3> QED BY <3>1 DEF f
  <2>3. /\ down' \in [Conns -> Seq(Parts)] /\ Len(down'[c]) <= SocketCapacity
        /\ \A d \in Conns \ {c} : down'[d] = down[d]
        /\ Whole(Incoming(c)') /\ Len(Incoming(c)') % 2 = 0
        /\ \A i \in 1 .. Len(down'[c]) :
             down'[c][i].frame.kind = "response" => IsOwn(c, down'[c][i].frame.of)
    <3> DEFINE x == Part(f, 2)
    <3>1. x \in Parts /\ x.frame = f
      BY <1>4, PartsTyped
    <3>2. /\ down' = [down EXCEPT ![c] = Append(@, x)] /\ partial' = partial
          /\ Len(down[c]) < SocketCapacity
          /\ x.frame.kind = "response" => IsOwn(c, x.frame.of)
      BY <1>2, <1>4, <2>1, <3>1
    <3> HIDE DEF x
    <3>3. /\ down' \in [Conns -> Seq(Parts)] /\ Len(down'[c]) <= SocketCapacity
          /\ \A d \in Conns \ {c} : down'[d] = down[d]
          /\ Incoming(c)' = Append(Incoming(c), x) /\ Incoming(c) \in Seq(Parts)
          /\ Whole(Incoming(c))
          /\ \A i \in 1 .. Len(down'[c]) :
               down'[c][i].frame.kind = "response" => IsOwn(c, down'[c][i].frame.of)
      BY <3>1, <3>2, PartWritten
    <3>4. Whole(Incoming(c)') /\ Len(Incoming(c)') % 2 = 0
      BY <1>4, <2>2, <3>3, SecondPart DEF x
    <3> QED BY <3>3, <3>4
  <2>4. /\ server' \in [Conns -> {"none", "reading", "handing", "locking", "length", "body", "ended"}]
        /\ lock' \in [Conns -> {"free", "ingest", "forward"}]
        /\ held' \in [Conns -> Seq(Messages \cup {Ping})]
        /\ server'[c] = "reading" /\ lock'[c] = "free" /\ held'[c] = <<>>
        /\ \A d \in Conns \ {c} : /\ server'[d] = server[d] /\ lock'[d] = lock[d]
                                 /\ held'[d] = held[d]
    <3>1. <<>> \in Seq(Messages \cup {Ping})
      OBVIOUS
    <3> QED BY <1>1, <2>1, <3>1 DEF Shapes
  <2>5. Shapes'
    BY <1>1, <1>2, <2>3, <2>4 DEF Shapes
  <2>6. \A d \in Conns \ {c} : SameAt(d)
    BY <1>2, <2>3, <2>4 DEF SameAt
  <2>7. Limits(c)' /\ OwnOnly(c)'
    BY <1>1, <1>2, <2>3 DEF Limits, OwnOnly, IsOwn
  <2>8. Turns(c)'
    BY <1>1, <1>2, <1>3, <2>4 DEF Turns
  <2>9. Stream(c)'
    <3>1. Open(c)' /\ server'[c] # "body" /\ forwarder'[c] # "body"
      BY <1>2, <1>3, <2>4 DEF Open
    <3> QED BY <2>3, <3>1 DEF Stream, Whole
  <2> QED BY <1>2, <2>5, <2>6, <2>7, <2>8, <2>9, LocalStep DEF ConnOK
<1> QED BY <1>2, <1>5, <1>6

LEMMA WriteResponseKeeps == ASSUME IInv, NEW c \in Conns, WriteResponse(c) PROVE IInv'
<1> DEFINE f == Frame("response", bus[cursor[c]])
<1>1. /\ Shapes /\ Limits(c) /\ Turns(c) /\ Stream(c) /\ OwnOnly(c)
  BY DEF IInv, ConnOK
<1>2. /\ forwarder[c] \in {"length", "body"} /\ Open(c) /\ Len(down[c]) < SocketCapacity
      /\ UNCHANGED <<ingestQ, partial, inReader, responseQ, server, held, detected, cursor, missed,
                     up, conn, arrived, asked, bus, delivered>>
  BY DEF WriteResponse, clientVars, serverVars, outside
\* The ingest loop is not writing: the forwarder has the lock.
<1>3. lock[c] = "forward" /\ server[c] \notin {"length", "body"}
  BY <1>1, <1>2 DEF Turns
<1>4. f \in Frames /\ IsOwn(c, f.of)
  <2>1. bus[cursor[c]] \in Messages /\ Platform(bus[cursor[c]]) = PlatformOf[c]
    <3>1. cursor[c] \in 1 .. Len(bus) /\ Platform(bus[cursor[c]]) = PlatformOf[c]
      BY <1>1, <1>2, TypesAt DEF Turns, Limits
    <3> QED BY <1>1, <3>1, ElementOfSeq DEF Shapes
  <2> QED BY <2>1 DEF IsOwn, Frame, Frames
<1> HIDE DEF f
<1>5. CASE forwarder[c] = "length"
  <2>1. /\ down' = [down EXCEPT ![c] = Append(@, Part(f, 1))]
        /\ forwarder' = [forwarder EXCEPT ![c] = "body"] /\ lock' = lock
    BY <1>5 DEF WriteResponse, f
  <2>2. Len(Incoming(c)) % 2 = 0
    BY <1>1, <1>2, <1>3, <1>5 DEF Stream
  <2>3. /\ down' \in [Conns -> Seq(Parts)] /\ Len(down'[c]) <= SocketCapacity
        /\ \A d \in Conns \ {c} : down'[d] = down[d]
        /\ Whole(Incoming(c)') /\ EndsInside(Incoming(c)', f)
        /\ \A i \in 1 .. Len(down'[c]) :
             down'[c][i].frame.kind = "response" => IsOwn(c, down'[c][i].frame.of)
    <3> DEFINE x == Part(f, 1)
    <3>1. x \in Parts /\ x.frame = f
      BY <1>4, PartsTyped
    <3>2. /\ down' = [down EXCEPT ![c] = Append(@, x)] /\ partial' = partial
          /\ Len(down[c]) < SocketCapacity
          /\ x.frame.kind = "response" => IsOwn(c, x.frame.of)
      BY <1>2, <1>4, <2>1, <3>1
    <3> HIDE DEF x
    <3>3. /\ down' \in [Conns -> Seq(Parts)] /\ Len(down'[c]) <= SocketCapacity
          /\ \A d \in Conns \ {c} : down'[d] = down[d]
          /\ Incoming(c)' = Append(Incoming(c), x) /\ Incoming(c) \in Seq(Parts)
          /\ Whole(Incoming(c))
          /\ \A i \in 1 .. Len(down'[c]) :
               down'[c][i].frame.kind = "response" => IsOwn(c, down'[c][i].frame.of)
      BY <3>1, <3>2, PartWritten
    <3>4. Whole(Incoming(c)') /\ EndsInside(Incoming(c)', f)
      BY <1>4, <2>2, <3>3, FirstPart DEF x
    <3> QED BY <3>3, <3>4
  <2>4. /\ forwarder' \in [Conns -> {"none", "waiting", "receiving", "locking", "length", "body",
                                     "ended"}]
        /\ forwarder'[c] = "body" /\ \A d \in Conns \ {c} : forwarder'[d] = forwarder[d]
    BY <1>1, <2>1 DEF Shapes
  <2>5. Shapes'
    BY <1>1, <1>2, <2>1, <2>3, <2>4 DEF Shapes
  <2>6. \A d \in Conns \ {c} : SameAt(d)
    BY <1>2, <2>1, <2>3, <2>4 DEF SameAt
  <2>7. Limits(c)' /\ OwnOnly(c)'
    BY <1>1, <1>2, <2>3 DEF Limits, OwnOnly, IsOwn
  <2>8. Turns(c)'
    BY <1>1, <1>2, <1>5, <2>1, <2>4 DEF Turns
  <2>9. Stream(c)'
    BY <1>1, <1>2, <1>3, <2>1, <2>3, <2>4 DEF Stream, Whole, EndsInside, Open, f
  <2> QED BY <1>2, <2>5, <2>6, <2>7, <2>8, <2>9, LocalStep DEF ConnOK
<1>6. CASE forwarder[c] = "body"
  <2>1. /\ down' = [down EXCEPT ![c] = Append(@, Part(f, 2))]
        /\ forwarder' = [forwarder EXCEPT ![c] = "receiving"]
        /\ lock' = [lock EXCEPT ![c] = "free"]
    BY <1>6 DEF WriteResponse, f
  <2>2. EndsInside(Incoming(c), f)
    BY <1>1, <1>2, <1>3, <1>6 DEF Stream, f
  <2>3. /\ down' \in [Conns -> Seq(Parts)] /\ Len(down'[c]) <= SocketCapacity
        /\ \A d \in Conns \ {c} : down'[d] = down[d]
        /\ Whole(Incoming(c)') /\ Len(Incoming(c)') % 2 = 0
        /\ \A i \in 1 .. Len(down'[c]) :
             down'[c][i].frame.kind = "response" => IsOwn(c, down'[c][i].frame.of)
    <3> DEFINE x == Part(f, 2)
    <3>1. x \in Parts /\ x.frame = f
      BY <1>4, PartsTyped
    <3>2. /\ down' = [down EXCEPT ![c] = Append(@, x)] /\ partial' = partial
          /\ Len(down[c]) < SocketCapacity
          /\ x.frame.kind = "response" => IsOwn(c, x.frame.of)
      BY <1>2, <1>4, <2>1, <3>1
    <3> HIDE DEF x
    <3>3. /\ down' \in [Conns -> Seq(Parts)] /\ Len(down'[c]) <= SocketCapacity
          /\ \A d \in Conns \ {c} : down'[d] = down[d]
          /\ Incoming(c)' = Append(Incoming(c), x) /\ Incoming(c) \in Seq(Parts)
          /\ Whole(Incoming(c))
          /\ \A i \in 1 .. Len(down'[c]) :
               down'[c][i].frame.kind = "response" => IsOwn(c, down'[c][i].frame.of)
      BY <3>1, <3>2, PartWritten
    <3>4. Whole(Incoming(c)') /\ Len(Incoming(c)') % 2 = 0
      BY <1>4, <2>2, <3>3, SecondPart DEF x
    <3> QED BY <3>3, <3>4
  <2>4. /\ forwarder' \in [Conns -> {"none", "waiting", "receiving", "locking", "length", "body",
                                     "ended"}]
        /\ lock' \in [Conns -> {"free", "ingest", "forward"}]
        /\ forwarder'[c] = "receiving" /\ lock'[c] = "free"
        /\ \A d \in Conns \ {c} : forwarder'[d] = forwarder[d] /\ lock'[d] = lock[d]
    BY <1>1, <2>1 DEF Shapes
  <2>5. Shapes'
    BY <1>1, <1>2, <2>3, <2>4 DEF Shapes
  <2>6. \A d \in Conns \ {c} : SameAt(d)
    BY <1>2, <2>3, <2>4 DEF SameAt
  <2>7. Limits(c)' /\ OwnOnly(c)'
    BY <1>1, <1>2, <2>3 DEF Limits, OwnOnly, IsOwn
  <2>8. Turns(c)'
    BY <1>1, <1>2, <1>3, <2>4 DEF Turns
  <2>9. Stream(c)'
    <3>1. Open(c)' /\ server'[c] # "body" /\ forwarder'[c] # "body"
      BY <1>2, <1>3, <2>4 DEF Open
    <3> QED BY <2>3, <3>1 DEF Stream, Whole
  <2> QED BY <1>2, <2>5, <2>6, <2>7, <2>8, <2>9, LocalStep DEF ConnOK
<1> QED BY <1>2, <1>5, <1>6

\* A new response is behind every cursor that points to one.
LEMMA AnswerKeeps == ASSUME IInv, NEW m \in Messages, Answer(m) PROVE IInv'
<1>1. /\ bus' = Append(bus, m)
      /\ UNCHANGED <<ingestQ, partial, inReader, responseQ, server, held, detected, forwarder, cursor,
                     missed, up, down, lock, conn, arrived, asked, delivered>>
  BY DEF Answer, clientVars, serverVars, forwardVars, socketVars
<1>2. /\ Shapes /\ bus' \in Seq(Messages) /\ Len(bus') = Len(bus) + 1 /\ Len(bus) \in Nat
      /\ \A i \in 1 .. Len(bus) : bus'[i] = bus[i]
  BY <1>1, Appended DEF IInv, Shapes
<1>3. Shapes'
  BY <1>1, <1>2 DEF Shapes
<1>4. ASSUME NEW c \in Conns PROVE ConnOK(c)'
  <2>1. /\ Limits(c) /\ Turns(c) /\ Stream(c) /\ OwnOnly(c) /\ cursor[c] \in Nat
    BY <1>2, TypesAt DEF IInv, ConnOK
  <2>2. cursor[c] <= Len(bus') /\ (cursor[c] >= 1 => bus'[cursor[c]] = bus[cursor[c]])
    BY <1>2, <2>1 DEF Limits
  <2>3. Limits(c)' /\ OwnOnly(c)'
    BY <1>1, <2>1, <2>2 DEF Limits, OwnOnly
  <2>4. Turns(c)'
    BY <1>1, <2>1, <2>2 DEF Turns
  <2>5. Incoming(c)' = Incoming(c)
    BY <1>1 DEF Incoming
  <2>6. forwarder[c] = "body" => bus'[cursor[c]] = bus[cursor[c]]
    BY <2>1, <2>2 DEF Turns
  <2>7. Stream(c)'
    BY <1>1, <2>1, <2>5, <2>6 DEF Stream, Open, Whole, EndsInside
  <2> QED BY <2>3, <2>4, <2>7 DEF ConnOK
<1> QED BY <1>3, <1>4 DEF IInv

LEMMA DieKeeps == ASSUME IInv, NEW p \in Platforms, Die(p) PROVE IInv'
<1> DEFINE dead(c) == PlatformOf[c] = p
<1>1. /\ Shapes /\ conn' = [c \in Conns |-> IF dead(c) THEN "gone" ELSE conn[c]]
      /\ ingestQ' = [c \in Conns |-> IF dead(c) THEN <<>> ELSE ingestQ[c]]
      /\ partial' = [c \in Conns |-> IF dead(c) THEN <<>> ELSE partial[c]]
      /\ inReader' = [c \in Conns |-> IF dead(c) THEN <<>> ELSE inReader[c]]
      /\ responseQ' = [c \in Conns |-> IF dead(c) THEN <<>> ELSE responseQ[c]]
      /\ down' = [c \in Conns |-> IF dead(c) THEN <<>> ELSE down[c]]
      /\ UNCHANGED <<server, held, detected, forwarder, cursor, missed, up, lock, arrived, asked,
                     bus, delivered>>
  BY DEF Die, IInv, serverVars, forwardVars
<1>2. /\ \A S : <<>> \in Seq(S)
      /\ Len(<<>>) = 0
  OBVIOUS
<1>3. Shapes'
  BY <1>1, <1>2 DEF Shapes
<1>4. ASSUME NEW c \in Conns PROVE ConnOK(c)'
  <2>1. /\ Limits(c) /\ Turns(c) /\ Stream(c) /\ OwnOnly(c)
    BY DEF IInv, ConnOK
  <2>2. CASE ~dead(c)
    <3>1. SameAt(c)
      BY <1>1, <2>2 DEF SameAt
    <3> QED BY <1>1, <3>1, SameStays DEF IInv
  <2>3. CASE dead(c)
    <3>1. /\ conn'[c] = "gone" /\ ingestQ'[c] = <<>> /\ partial'[c] = <<>> /\ inReader'[c] = <<>>
          /\ responseQ'[c] = <<>> /\ down'[c] = <<>>
      BY <1>1, <2>3
    <3> HIDE DEF dead
    <3>2. /\ Len(ingestQ'[c]) <= ChannelCapacity /\ Len(responseQ'[c]) <= ChannelCapacity
          /\ Len(down'[c]) <= SocketCapacity /\ Len(partial'[c]) <= 1 /\ Len(inReader'[c]) <= 1
      <4>1. /\ Len(<<>>) <= ChannelCapacity /\ Len(<<>>) <= SocketCapacity /\ Len(<<>>) <= 1
        BY CapacityAssumption
      <4> QED BY <3>1, <4>1, Zenon
    <3>3. Limits(c)'
      BY <1>1, <2>1, <3>2 DEF Limits
    <3>4. Turns(c)'
      BY <1>1, <2>1, <3>1 DEF Turns
    <3>5. Stream(c)'
      <4>1. Incoming(c)' = <<>>
        BY <3>1 DEF Incoming
      <4> QED BY <3>1, <4>1 DEF Stream, Open, Whole
    <3>6. OwnOnly(c)'
      BY <1>1, <2>1, <3>1 DEF OwnOnly
    <3> QED BY <3>3, <3>4, <3>5, <3>6 DEF ConnOK
  <2> QED BY <2>2, <2>3
<1> QED BY <1>3, <1>4 DEF IInv

LEMMA InitHolds == Init => IInv
<1> SUFFICES ASSUME Init PROVE IInv
  OBVIOUS
<1> USE DEF Init, OnAll
<1>1. \A S : <<>> \in Seq(S)
  OBVIOUS
<1>2. Shapes
  BY <1>1 DEF Shapes
<1>3. ASSUME NEW c \in Conns PROVE ConnOK(c)
  <2>1. /\ Len(<<>>) <= ChannelCapacity /\ Len(<<>>) <= SocketCapacity /\ Len(<<>>) <= 1
        /\ 0 <= Len(<<>>)
    BY CapacityAssumption
  <2>2. Limits(c)
    BY <2>1, Zenon DEF Limits
  <2>3. Turns(c) /\ OwnOnly(c)
    BY DEF Turns, OwnOnly
  <2>4. Stream(c)
    BY NothingIncoming DEF Stream, Open
  <2> QED BY <2>2, <2>3, <2>4 DEF ConnOK
<1> QED BY <1>2, <1>3 DEF IInv

LEMMA StepKeeps == IInv /\ [Next]_vars => IInv'
<1> SUFFICES ASSUME IInv, [Next]_vars PROVE IInv'
  OBVIOUS
<1>1. ASSUME NEW c \in Conns, Connect(c) \/ ClientStep(c) \/ IngestStep(c) \/ ForwardStep(c)
      PROVE  IInv'
  BY <1>1, ConnectKeeps, ClientWriteKeeps, ClientReadKeeps, ClientPassKeeps, DeliverKeeps,
     ReceiveKeeps, HandKeeps, QuietKeeps, ListenKeeps, WriteReplyKeeps, WriteResponseKeeps
  DEF ClientStep, IngestStep, ForwardStep
<1>2. CASE UNCHANGED vars
  <2> USE DEF vars, clientVars, serverVars, forwardVars, socketVars, outside
  <2>1. Shapes'
    BY <1>2 DEF IInv, Shapes
  <2>2. bus' = bus /\ \A d \in Conns : SameAt(d)
    BY <1>2 DEF SameAt
  <2> QED BY <2>1, <2>2, SameStays DEF IInv
<1> QED BY <1>1, <1>2, DieKeeps, IngestCallKeeps, AnswerKeeps DEF Next

LEMMA Invariance == Spec => []IInv
BY InitHolds, StepKeeps, PTL DEF Spec

-----------------------------------------------------------------------------
(* The theorems *)

\* Channels, socket and cursors keep to their limits, and every connection's tasks
\* are in a state of theirs.
THEOREM TypeCorrect == Spec => []TypeOK
<1>1. IInv => TypeOK
  BY DEF IInv, Shapes, ConnOK, Limits, TypeOK
<1> QED BY <1>1, Invariance, PTL

\* The ingest loop and the forwarder share the write half of a connection, yet the
\* process reads the two parts of each frame one after the other.
THEOREM FramesStayWhole == Spec => []FramesWhole
<1>1. IInv => FramesWhole
  BY DEF IInv, ConnOK, Stream, Whole, FramesWhole
<1> QED BY <1>1, Invariance, PTL

\* Whatever is read from the broadcast, what a process is sent and hands to its
\* users answers messages of its own platform.
THEOREM ResponsesStayHome == Spec => []OwnPlatform
<1>1. IInv => OwnPlatform
  <2> SUFFICES ASSUME IInv, NEW c \in Conns
               PROVE  /\ \A m \in ToSet(delivered[c]) \cup ToSet(responseQ[c]) : Platform(m) = PlatformOf[c]
                      /\ \A i \in 1 .. Len(down[c]) : down[c][i].frame.kind = "response" =>
                           Platform(down[c][i].frame.of) = PlatformOf[c]
    BY DEF OwnPlatform
  <2>1. OwnOnly(c) /\ responseQ[c] \in Seq(Messages) /\ delivered[c] \in Seq(Messages)
    BY TypesAt DEF IInv, ConnOK
  <2>2. /\ DOMAIN responseQ[c] = 1 .. Len(responseQ[c])
        /\ DOMAIN delivered[c] = 1 .. Len(delivered[c])
    BY <2>1
  <2> QED BY <2>1, <2>2 DEF OwnOnly, IsOwn, ToSet
<1> QED BY <1>1, Invariance, PTL

-----------------------------------------------------------------------------
(* Order: what is on its way to the agent *)

\* What is still to reach the agent of what was taken on a connection, in order.
Handing(c) == IF server[c] = "handing" THEN held[c] ELSE <<>>
Pipe(c) == Handing(c) \o up[c] \o ingestQ[c]
\* The messages of P come in their order, each after all those before it that have
\* not reached the agent: A were taken, S of those of c have reached the agent.
Orderly(P, c, A, S) ==
  /\ \A i, j \in 1 .. Len(P) : i < j => P[i] < P[j]
  /\ \A i \in 1 .. Len(P) : P[i] # Ping =>
       /\ P[i] \in A \ S /\ ConnOf[P[i]] = c
       /\ \A n \in Service!Before(P[i]) : n \in S \/ \E j \in 1 .. i - 1 : P[j] = n
\* All that was taken on c is on its way or has reached the agent.
Complete(P, c, A, S) ==
  \A n \in A : ConnOf[n] = c => n \in S \/ \E j \in 1 .. Len(P) : P[j] = n
UpOK(c) ==
  /\ Orderly(Pipe(c), c, arrived, ToSet(asked[c])) /\ ToSet(asked[c]) \subseteq arrived
  /\ Open(c) => Complete(Pipe(c), c, arrived, ToSet(asked[c]))
  /\ conn[c] = "new" => Pipe(c) = <<>> /\ \A n \in arrived : ConnOf[n] # c
UpInv == \A c \in Conns : UpOK(c)

Inbound == Messages \cup {Ping}

LEMMA HeadTail ==
  ASSUME NEW S, NEW s \in Seq(S), s # <<>>
  PROVE  /\ Head(s) \in S /\ Head(s) = s[1] /\ Tail(s) \in Seq(S)
         /\ Len(s) \in Nat /\ Len(s) >= 1 /\ Len(Tail(s)) = Len(s) - 1
         /\ \A i \in 1 .. Len(s) - 1 : Tail(s)[i] = s[i + 1]
         /\ <<Head(s)>> \in Seq(S) /\ s = <<Head(s)>> \o Tail(s)
<1>1. /\ Head(s) \in S /\ Tail(s) \in Seq(S) /\ Len(s) \in Nat \ {0} /\ Len(Tail(s)) = Len(s) - 1
      /\ \A i \in 1 .. Len(Tail(s)) : Tail(s)[i] = s[i + 1]
  BY HeadTailProperties, EmptySeq
<1>2. Head(s) = s[1] /\ <<Head(s)>> \in Seq(S) /\ Len(<<Head(s)>>) = 1 /\ <<Head(s)>>[1] = s[1]
  BY <1>1
<1>3. 1 \in 1 .. Len(s) /\ Len(s) \in 1 .. Len(s) /\ 1 + 1 = 2
  BY <1>1
<1>4. SubSeq(s, 1, Len(s)) = <<s[1]>> \o SubSeq(s, 1 + 1, Len(s))
  BY <1>3, SubSeqRecursiveFirst
<1>5. Tail(s) = SubSeq(s, 2, Len(s)) /\ SubSeq(s, 1, Len(s)) = s
  BY TailIsSubSeq, SubSeqFull
<1>6. s = <<Head(s)>> \o Tail(s)
  BY <1>2, <1>3, <1>4, <1>5
<1> QED BY <1>1, <1>2, <1>6

LEMMA TailOfConcat ==
  ASSUME NEW S, NEW x \in S, NEW t \in Seq(S)
  PROVE  Tail(<<x>> \o t) = t /\ (<<x>> \o t)[1] = x /\ <<x>> \o t # <<>>
<1> DEFINE u == <<x>> \o t
<1>1. <<x>> \in Seq(S) /\ Len(<<x>>) = 1 /\ <<x>>[1] = x /\ Len(t) \in Nat
  BY LenProperties
<1>2. /\ u \in Seq(S) /\ Len(u) = Len(<<x>>) + Len(t)
      /\ \A i \in 1 .. Len(<<x>>) + Len(t) :
           u[i] = IF i <= Len(<<x>>) THEN <<x>>[i] ELSE t[i - Len(<<x>>)]
  BY <1>1, ConcatProperties
<1>3. Len(u) = 1 + Len(t) /\ u[1] = x /\ \A i \in 1 .. Len(t) : i + 1 \in 1 .. 1 + Len(t) /\ u[i + 1] = t[i]
  BY <1>1, <1>2
<1> HIDE DEF u
<1>4. u # <<>>
  BY <1>1, <1>3
<1>5. Tail(u) \in Seq(S) /\ Len(Tail(u)) = Len(t) /\ \A i \in 1 .. Len(t) : Tail(u)[i] = u[i + 1]
  BY <1>1, <1>2, <1>3, <1>4, HeadTailProperties
<1>6. Tail(u) = t
  BY <1>3, <1>5, SeqEqual
<1> QED BY <1>3, <1>4, <1>6 DEF u

LEMMA FrontOfConcat ==
  ASSUME NEW S, NEW s \in Seq(S), NEW t \in Seq(S)
  PROVE  /\ Len(s) \in Nat /\ Len(s \o t) \in Nat /\ Len(s) <= Len(s \o t)
         /\ \A i \in 1 .. Len(s) : s[i] = (s \o t)[i]
<1> DEFINE u == s \o t
<1>1. Len(s) \in Nat /\ Len(t) \in Nat
  BY LenProperties
<1>2. /\ Len(u) = Len(s) + Len(t)
      /\ \A i \in 1 .. Len(s) + Len(t) : u[i] = IF i <= Len(s) THEN s[i] ELSE t[i - Len(s)]
  BY ConcatProperties
<1> HIDE DEF u
<1>3. Len(u) \in Nat /\ Len(s) <= Len(u) /\ \A i \in 1 .. Len(s) : s[i] = u[i]
  BY <1>1, <1>2
<1> QED BY <1>1, <1>3 DEF u

LEMMA InboundNumbers ==
  ASSUME NEW P \in Seq(Inbound)
  PROVE  \A i \in 1 .. Len(P) : P[i] \in Nat /\ P[i] \in Inbound
<1>1. \A i \in 1 .. Len(P) : P[i] \in Inbound
  BY ElementOfSeq
<1>2. Inbound \subseteq Nat
  BY ConnsAssumption DEF Inbound, Ping
<1> QED BY <1>1, <1>2

LEMMA SetOfAppended ==
  ASSUME NEW S, NEW s \in Seq(S), NEW x \in S
  PROVE  ToSet(Append(s, x)) = ToSet(s) \cup {x}
<1> DEFINE t == Append(s, x)
<1>1. /\ t \in Seq(S) /\ Len(t) = Len(s) + 1 /\ Len(s) \in Nat
      /\ \A i \in 1 .. Len(s) : t[i] = s[i]
      /\ t[Len(s) + 1] = x
  BY Appended
<1>2. DOMAIN s = 1 .. Len(s) /\ DOMAIN t = 1 .. Len(t)
  BY <1>1, LenProperties
<1> HIDE DEF t
<1>3. \A i \in 1 .. Len(t) : i \in 1 .. Len(s) \/ i = Len(s) + 1
  BY <1>1
<1>4. \A i \in 1 .. Len(s) : i \in 1 .. Len(t)
  BY <1>1
<1>5. Len(s) + 1 \in 1 .. Len(t)
  BY <1>1
<1>6. ToSet(t) = {t[i] : i \in 1 .. Len(t)} /\ ToSet(s) = {s[i] : i \in 1 .. Len(s)}
  BY <1>2 DEF ToSet
<1>7. ToSet(t) \subseteq ToSet(s) \cup {x}
  BY <1>1, <1>3, <1>6
<1>8. ToSet(s) \cup {x} \subseteq ToSet(t)
  BY <1>1, <1>4, <1>5, <1>6
<1> QED BY <1>7, <1>8 DEF t

\* The first of the pipe reaches the agent, or is a ping.
LEMMA OrderlyLeaves ==
  ASSUME NEW P \in Seq(Inbound), P # <<>>, NEW c, NEW A \in SUBSET Messages, NEW S,
         Orderly(P, c, A, S), NEW T, T = S \cup ({P[1]} \ {Ping})
  PROVE  /\ Orderly(Tail(P), c, A, T)
         /\ Complete(P, c, A, S) => Complete(Tail(P), c, A, T)
<1> DEFINE Q == Tail(P)
<1>1. /\ Len(P) \in Nat /\ Len(P) >= 1 /\ Len(Q) = Len(P) - 1 /\ Q \in Seq(Inbound)
      /\ \A i \in 1 .. Len(P) - 1 : Q[i] = P[i + 1]
  BY HeadTail
<1>2. \A i \in 1 .. Len(P) : P[i] \in Nat /\ P[i] \in Inbound
  BY InboundNumbers
<1> HIDE DEF Q
<1>3. ASSUME NEW i \in 1 .. Len(Q), NEW j \in 1 .. Len(Q), i < j PROVE Q[i] < Q[j]
  BY <1>1, <1>3 DEF Orderly
<1>4. ASSUME NEW i \in 1 .. Len(Q), Q[i] # Ping
      PROVE  /\ Q[i] \in A \ T /\ ConnOf[Q[i]] = c
             /\ \A n \in Service!Before(Q[i]) : n \in T \/ \E j \in 1 .. i - 1 : Q[j] = n
  <2>1. /\ i + 1 \in 1 .. Len(P) /\ Q[i] = P[i + 1] /\ 1 \in 1 .. Len(P) /\ 1 < i + 1
        /\ (i + 1) - 1 = i
    BY <1>1
  <2>2. P[1] < P[i + 1]
    BY <2>1 DEF Orderly
  <2>3. Q[i] \in A \ S /\ ConnOf[Q[i]] = c /\ Q[i] # P[1]
    BY <1>2, <1>4, <2>1, <2>2 DEF Orderly
  <2>4. ASSUME NEW n \in Service!Before(Q[i]) PROVE n \in T \/ \E j \in 1 .. i - 1 : Q[j] = n
    <3>1. n \in S \/ \E j \in 1 .. i : P[j] = n
      BY <1>4, <2>1 DEF Orderly
    <3>2. n \in Messages /\ n # Ping
      BY ConnsAssumption DEF Service!Before, Ping
    <3>3. ASSUME NEW j \in 1 .. i, P[j] = n PROVE n \in T \/ \E k \in 1 .. i - 1 : Q[k] = n
      <4>1. CASE j = 1
        BY <3>2, <3>3, <4>1
      <4>2. CASE j # 1
        <5>1. j - 1 \in 1 .. i - 1 /\ j - 1 \in 1 .. Len(P) - 1 /\ (j - 1) + 1 = j
          BY <1>1, <4>2
        <5>2. Q[j - 1] = P[j]
          BY <1>1, <5>1
        <5> QED BY <3>3, <5>1, <5>2
      <4> QED BY <4>1, <4>2
    <3> QED BY <3>1, <3>3
  <2> QED BY <2>3, <2>4
<1>5. ASSUME Complete(P, c, A, S), NEW n \in A, ConnOf[n] = c
      PROVE  n \in T \/ \E j \in 1 .. Len(Q) : Q[j] = n
  <2>1. n \in S \/ \E j \in 1 .. Len(P) : P[j] = n
    BY <1>5 DEF Complete
  <2>2. n \in Messages /\ n # Ping
    BY ConnsAssumption DEF Ping
  <2>3. ASSUME NEW j \in 1 .. Len(P), P[j] = n PROVE n \in T \/ \E k \in 1 .. Len(Q) : Q[k] = n
    <3>1. CASE j = 1
      BY <2>2, <2>3, <3>1
    <3>2. CASE j # 1
      <4>1. j - 1 \in 1 .. Len(Q) /\ j - 1 \in 1 .. Len(P) - 1 /\ (j - 1) + 1 = j
        BY <1>1, <3>2
      <4>2. Q[j - 1] = P[j]
        BY <1>1, <4>1
      <4> QED BY <2>3, <4>1, <4>2
    <3> QED BY <3>1, <3>2
  <2> QED BY <2>1, <2>3
<1> QED BY <1>3, <1>4, <1>5 DEF Orderly, Complete, Q

\* A process takes the next message of a connection.
LEMMA OrderlyArrives ==
  ASSUME NEW P \in Seq(Inbound), NEW c, NEW A \in SUBSET Messages, NEW S \in SUBSET A,
         Orderly(P, c, A, S), Complete(P, c, A, S),
         NEW m \in Messages, m \notin A, ConnOf[m] = c, Service!Before(m) \subseteq A
  PROVE  /\ Orderly(Append(P, m), c, A \cup {m}, S)
         /\ Complete(Append(P, m), c, A \cup {m}, S)
<1> DEFINE Q == Append(P, m)
<1>1. /\ Len(P) \in Nat /\ Len(Q) = Len(P) + 1
      /\ \A i \in 1 .. Len(P) : Q[i] = P[i]
      /\ Q[Len(P) + 1] = m
  BY Appended DEF Inbound
<1>2. \A i \in 1 .. Len(P) : P[i] \in Nat /\ P[i] \in Inbound
  BY InboundNumbers
<1>3. m \in Nat /\ m > 0 /\ m # Ping
  BY ConnsAssumption DEF Ping
<1> HIDE DEF Q
<1>4. ASSUME NEW i \in 1 .. Len(P) PROVE P[i] < m
  <2>1. CASE P[i] = Ping
    BY <1>3, <2>1 DEF Ping
  <2>2. CASE P[i] # Ping
    <3>1. P[i] \in A /\ ConnOf[P[i]] = c /\ P[i] # m
      BY <2>2 DEF Orderly
    <3>2. ~(m < P[i])
      <4> SUFFICES ASSUME m < P[i] PROVE FALSE
        OBVIOUS
      <4>1. m \in Service!Before(P[i])
        BY <3>1 DEF Service!Before
      <4>2. m \in S \/ \E j \in 1 .. i - 1 : P[j] = m
        BY <2>2, <4>1 DEF Orderly
      <4>3. ASSUME NEW j \in 1 .. i - 1, P[j] = m PROVE FALSE
        <5>1. j \in 1 .. Len(P)
          BY <1>1
        <5>2. P[j] \in A
          BY <1>3, <4>3, <5>1 DEF Orderly
        <5> QED BY <4>3, <5>2
      <4> QED BY <4>2, <4>3
    <3> QED BY <1>2, <1>3, <3>1, <3>2
  <2> QED BY <2>1, <2>2
<1>5. \A i \in 1 .. Len(Q) : i \in 1 .. Len(P) \/ i = Len(P) + 1
  BY <1>1
<1>6. ASSUME NEW i \in 1 .. Len(Q), NEW j \in 1 .. Len(Q), i < j PROVE Q[i] < Q[j]
  <2>1. i \in 1 .. Len(P)
    BY <1>1, <1>6
  <2>2. CASE j \in 1 .. Len(P)
    BY <1>1, <1>6, <2>1, <2>2 DEF Orderly
  <2>3. CASE j = Len(P) + 1
    BY <1>1, <1>4, <2>1, <2>3
  <2> QED BY <1>5, <2>2, <2>3
<1>7. ASSUME NEW i \in 1 .. Len(Q), Q[i] # Ping
      PROVE  /\ Q[i] \in (A \cup {m}) \ S /\ ConnOf[Q[i]] = c
             /\ \A n \in Service!Before(Q[i]) : n \in S \/ \E j \in 1 .. i - 1 : Q[j] = n
  <2>1. CASE i \in 1 .. Len(P)
    <3>1. Q[i] = P[i] /\ \A j \in 1 .. i - 1 : Q[j] = P[j]
      BY <1>1, <2>1
    <3> QED BY <1>7, <2>1, <3>1 DEF Orderly
  <2>2. CASE i = Len(P) + 1
    <3>1. Q[i] = m /\ i - 1 = Len(P)
      BY <1>1, <2>2
    <3>2. ASSUME NEW n \in Service!Before(m)
          PROVE  n \in S \/ \E j \in 1 .. Len(P) : Q[j] = n
      <4>1. n \in A /\ ConnOf[n] = c
        BY DEF Service!Before
      <4>2. n \in S \/ \E j \in 1 .. Len(P) : P[j] = n
        BY <4>1 DEF Complete
      <4> QED BY <1>1, <4>2
    <3> QED BY <3>1, <3>2
  <2> QED BY <1>5, <2>1, <2>2
<1>8. ASSUME NEW n \in A \cup {m}, ConnOf[n] = c
      PROVE  n \in S \/ \E j \in 1 .. Len(Q) : Q[j] = n
  <2>1. CASE n \in A
    <3>1. n \in S \/ \E j \in 1 .. Len(P) : P[j] = n
      BY <1>8, <2>1 DEF Complete
    <3>2. \A j \in 1 .. Len(P) : j \in 1 .. Len(Q)
      BY <1>1
    <3> QED BY <1>1, <3>1, <3>2
  <2>2. CASE n = m
    <3>1. Len(P) + 1 \in 1 .. Len(Q)
      BY <1>1
    <3> QED BY <1>1, <2>2, <3>1
  <2> QED BY <2>1, <2>2
<1> QED BY <1>6, <1>7, <1>8 DEF Orderly, Complete, Q

\* A message of another connection changes nothing.
LEMMA OrderlyElsewhere ==
  ASSUME NEW P, NEW c, NEW A, NEW S, NEW m, ConnOf[m] # c, Orderly(P, c, A, S)
  PROVE  /\ Orderly(P, c, A \cup {m}, S)
         /\ Complete(P, c, A, S) => Complete(P, c, A \cup {m}, S)
BY DEF Orderly, Complete

\* A process dies with the last of what it took.
LEMMA OrderlyFront ==
  ASSUME NEW P, NEW c, NEW A, NEW S, Orderly(P, c, A, S), NEW Q, Len(P) \in Nat, Len(Q) \in Nat,
         Len(Q) <= Len(P), \A i \in 1 .. Len(Q) : Q[i] = P[i]
  PROVE  Orderly(Q, c, A, S)
<1>1. \A i \in 1 .. Len(Q) : i \in 1 .. Len(P) /\ \A j \in 1 .. i - 1 : j \in 1 .. Len(Q)
  OBVIOUS
<1> QED BY <1>1 DEF Orderly

LEMMA PipeTyped ==
  ASSUME IInv, NEW c \in Conns
  PROVE  /\ Handing(c) \in Seq(Inbound) /\ up[c] \in Seq(Inbound) /\ ingestQ[c] \in Seq(Inbound)
         /\ held[c] \in Seq(Inbound) /\ Pipe(c) \in Seq(Inbound)
         /\ asked[c] \in Seq(Messages) /\ ingestQ[c] \in Seq(Messages) /\ arrived \in SUBSET Messages
<1>1. /\ ingestQ[c] \in Seq(Messages) /\ up[c] \in Seq(Inbound) /\ held[c] \in Seq(Inbound)
      /\ asked[c] \in Seq(Messages) /\ arrived \in SUBSET Messages
  BY TypesAt DEF IInv, Shapes, Inbound
<1>2. ingestQ[c] \in Seq(Inbound)
  <2>1. Messages \subseteq Inbound
    BY DEF Inbound
  <2> QED BY <1>1, <2>1, SeqMonotonic
<1>3. Handing(c) \in Seq(Inbound)
  BY <1>1 DEF Handing
<1>4. Handing(c) \o up[c] \in Seq(Inbound)
  BY <1>1, <1>3, ConcatProperties
<1>5. Pipe(c) \in Seq(Inbound)
  BY <1>2, <1>4, ConcatProperties DEF Pipe
<1> QED BY <1>1, <1>2, <1>3, <1>5

LEMMA UpStays ==
  ASSUME UpInv, NEW d \in Conns, Pipe(d)' = Pipe(d), conn'[d] = conn[d], asked'[d] = asked[d],
         arrived' = arrived
  PROVE  UpOK(d)'
<1>1. UpOK(d)
  BY DEF UpInv
<1> HIDE DEF Pipe
<1> QED BY <1>1 DEF UpOK, Open, Orderly, Complete

LEMMA UpMade ==
  ASSUME NEW c \in Conns, NEW Q, NEW A, NEW S, Pipe(c)' = Q, arrived' = A, ToSet(asked'[c]) = S,
         Orderly(Q, c, A, S), S \subseteq A, conn'[c] = "open" => Complete(Q, c, A, S),
         conn'[c] # "new"
  PROVE  UpOK(c)'
BY DEF UpOK, Open, Orderly, Complete

LEMMA UpConnect == ASSUME IInv, UpInv, NEW c \in Conns, Connect(c) PROVE UpInv'
<1>1. /\ conn[c] = "new" /\ conn' = [conn EXCEPT ![c] = "open"]
      /\ server' = [server EXCEPT ![c] = "reading"]
      /\ up' = [up EXCEPT ![c] = IF c \in Pings THEN <<Ping>> ELSE <<>>]
      /\ UNCHANGED <<ingestQ, held, asked, arrived>> /\ Shapes
  BY DEF Connect, clientVars, IInv
<1>2. ASSUME NEW d \in Conns \ {c} PROVE UpOK(d)'
  <2>1. Pipe(d)' = Pipe(d) /\ conn'[d] = conn[d]
    BY <1>1 DEF Pipe, Handing, Shapes
  <2> QED BY <1>1, <2>1, UpStays
<1>3. Handing(c)' = <<>> /\ Open(c)' /\ up'[c] \in {<<Ping>>, <<>>}
  BY <1>1 DEF Handing, Open, Shapes
<1>4. Pipe(c) = <<>> /\ (\A n \in arrived : ConnOf[n] # c) /\ ToSet(asked[c]) \subseteq arrived
  BY <1>1 DEF UpInv, UpOK
<1>5. ingestQ[c] = <<>>
  <2>1. Handing(c) \o up[c] \in Seq(Inbound) /\ ingestQ[c] \in Seq(Inbound)
    BY PipeTyped, ConcatProperties
  <2> QED BY <1>4, <2>1, ConcatEqualIffEmpty DEF Pipe
<1>6. Pipe(c)' = up'[c]
  <2>1. <<Ping>> \in Seq(Inbound) /\ <<>> \in Seq(Inbound)
    BY DEF Inbound
  <2>2. up'[c] \in Seq(Inbound)
    BY <1>3, <2>1
  <2>3. <<>> \o up'[c] = up'[c] /\ up'[c] \o <<>> = up'[c]
    BY <2>2, ConcatEmptySeq
  <2> QED BY <1>1, <1>3, <1>5, <2>3 DEF Pipe
<1>7. Orderly(Pipe(c)', c, arrived, ToSet(asked[c]))
  <2>1. Len(<<>>) = 0 /\ Len(<<Ping>>) = 1 /\ <<Ping>>[1] = Ping
    OBVIOUS
  <2>2. CASE up'[c] = <<>>
    BY <1>6, <2>1, <2>2 DEF Orderly
  <2>3. CASE up'[c] = <<Ping>>
    BY <1>6, <2>1, <2>3 DEF Orderly
  <2> QED BY <1>3, <2>2, <2>3
<1>8. Complete(Pipe(c)', c, arrived, ToSet(asked[c]))
  BY <1>4 DEF Complete
<1>9. UpOK(c)'
  BY <1>1, <1>3, <1>4, <1>7, <1>8 DEF UpOK, Orderly, Complete, Open
<1> QED BY <1>2, <1>9 DEF UpInv

LEMMA UpIngestCall == ASSUME IInv, UpInv, NEW m \in Messages, IngestCall(m) PROVE UpInv'
<1> DEFINE c == ConnOf[m]
<1>1. /\ m \notin arrived /\ Service!Before(m) \subseteq arrived /\ arrived' = arrived \cup {m}
      /\ ingestQ' = [ingestQ EXCEPT ![c] = Append(ingestQ[c], m)]
      /\ UNCHANGED <<conn, server, held, up, asked>> /\ Shapes
  BY DEF IngestCall, serverVars, socketVars, IInv, Service!Before
<1>2. c \in Conns /\ Open(c)
  BY ConnsAssumption DEF IngestCall, ConnsFor
<1>3. ASSUME NEW d \in Conns \ {c} PROVE UpOK(d)'
  <2>1. Pipe(d)' = Pipe(d)
    BY <1>1 DEF Pipe, Handing, Shapes
  <2>2. UpOK(d) /\ ConnOf[m] # d
    BY DEF UpInv
  <2>3. /\ Orderly(Pipe(d), d, arrived', ToSet(asked[d]))
        /\ Open(d) => Complete(Pipe(d), d, arrived', ToSet(asked[d]))
    BY <1>1, <2>2, OrderlyElsewhere DEF UpOK
  <2> QED BY <1>1, <2>1, <2>2, <2>3 DEF UpOK, Open, Orderly, Complete
<1>4. UpOK(c) /\ conn[c] # "new"
  BY <1>2 DEF UpInv, Open
<1> DEFINE P == Pipe(c)
<1>5. Pipe(c)' = Append(P, m)
  <2>1. Handing(c) \o up[c] \in Seq(Inbound) /\ ingestQ[c] \in Seq(Inbound) /\ m \in Inbound
    BY <1>2, PipeTyped, ConcatProperties DEF Inbound
  <2> DEFINE F == Handing(c) \o up[c]
  <2>2. Pipe(c)' = F \o Append(ingestQ[c], m) /\ P = F \o ingestQ[c] /\ F \in Seq(Inbound)
    BY <1>1, <1>2, <2>1 DEF Pipe, Handing, Shapes
  <2> HIDE DEF F, P
  <2> QED BY <2>1, <2>2, AppendToConcat
<1>6. P \in Seq(Inbound) /\ arrived \in SUBSET Messages /\ ToSet(asked[c]) \in SUBSET arrived
  BY <1>2, <1>4, PipeTyped DEF UpOK
<1>7. Orderly(P, c, arrived, ToSet(asked[c])) /\ Complete(P, c, arrived, ToSet(asked[c]))
  BY <1>2, <1>4 DEF UpOK
<1> HIDE DEF P
<1>8. /\ Orderly(Append(P, m), c, arrived \cup {m}, ToSet(asked[c]))
      /\ Complete(Append(P, m), c, arrived \cup {m}, ToSet(asked[c]))
  BY <1>1, <1>6, <1>7, OrderlyArrives
<1>9. UpOK(c)'
  <2>1. conn'[c] # "new" /\ ToSet(asked'[c]) = ToSet(asked[c])
    BY <1>1, <1>4
  <2>2. ToSet(asked[c]) \subseteq arrived \cup {m}
    BY <1>6
  <2> QED BY <1>1, <1>2, <1>5, <1>8, <2>1, <2>2, UpMade
<1> QED BY <1>3, <1>9 DEF UpInv

LEMMA UpClientWrite == ASSUME IInv, UpInv, NEW c \in Conns, ClientWrite(c) PROVE UpInv'
<1> DEFINE q == ingestQ[c]
<1>1. /\ q # <<>> /\ up' = [up EXCEPT ![c] = Append(up[c], Head(q))]
      /\ ingestQ' = [ingestQ EXCEPT ![c] = Tail(q)]
      /\ UNCHANGED <<conn, arrived, asked, server, held>> /\ Shapes
  BY DEF ClientWrite, serverVars, outside, IInv
<1>2. ASSUME NEW d \in Conns \ {c} PROVE Pipe(d)' = Pipe(d)
  BY <1>1 DEF Pipe, Handing, Shapes
<1>3. Pipe(c)' = Pipe(c)
  <2>1. /\ Handing(c) \in Seq(Inbound) /\ up[c] \in Seq(Inbound) /\ q \in Seq(Inbound)
        /\ Head(q) \in Inbound /\ Tail(q) \in Seq(Inbound) /\ <<Head(q)>> \in Seq(Inbound)
        /\ q = <<Head(q)>> \o Tail(q)
    BY <1>1, PipeTyped, HeadTail
  <2>2. /\ Handing(c) \o Append(up[c], Head(q)) = Append(Handing(c) \o up[c], Head(q))
        /\ Handing(c) \o up[c] \in Seq(Inbound)
    BY <2>1, AppendToConcat
  <2> DEFINE front == Handing(c) \o up[c]
  <2>3. Pipe(c)' = Append(front, Head(q)) \o Tail(q) /\ Pipe(c) = front \o q
    <3>1. Handing(c)' = Handing(c) /\ up'[c] = Append(up[c], Head(q)) /\ ingestQ'[c] = Tail(q)
      BY <1>1 DEF Handing, Shapes
    <3> HIDE DEF q
    <3>2. Pipe(c)' = Handing(c)' \o up'[c] \o ingestQ'[c]
      BY DEF Pipe
    <3> QED BY <2>2, <3>1, <3>2 DEF Pipe, q
  <2>6. front \in Seq(Inbound)
    BY <2>2
  <2> HIDE DEF front, q
  <2>4. Append(front, Head(q)) = front \o <<Head(q)>>
    BY <2>1, <2>6, AppendIsConcat
  <2>5. (front \o <<Head(q)>>) \o Tail(q) = front \o (<<Head(q)>> \o Tail(q))
    BY <2>1, <2>6, ConcatAssociative
  <2> QED BY <2>1, <2>3, <2>4, <2>5
<1> QED BY <1>1, <1>2, <1>3, UpStays DEF UpInv

\* A message goes from the socket into the loop's hand; a ping leaves the pipe.
LEMMA UpReceive == ASSUME IInv, UpInv, NEW c \in Conns, Receive(c) PROVE UpInv'
<1> DEFINE q == up[c]
<1>1. /\ server[c] = "reading" /\ q # <<>> /\ up' = [up EXCEPT ![c] = Tail(q)]
      /\ held' = [held EXCEPT ![c] = <<Head(q)>>]
      /\ server' = [server EXCEPT ![c] = IF Head(q) = Ping THEN "locking" ELSE "handing"]
      /\ UNCHANGED <<conn, arrived, asked, ingestQ>> /\ Shapes
  BY DEF Receive, clientVars, outside, IInv
<1>2. ASSUME NEW d \in Conns \ {c} PROVE Pipe(d)' = Pipe(d)
  BY <1>1 DEF Pipe, Handing, Shapes
<1>3. /\ q \in Seq(Inbound) /\ ingestQ[c] \in Seq(Inbound) /\ Head(q) = q[1]
      /\ Tail(q) \in Seq(Inbound) /\ <<Head(q)>> \in Seq(Inbound) /\ q = <<Head(q)>> \o Tail(q)
      /\ <<>> \o q = q /\ <<>> \o Tail(q) = Tail(q) /\ Pipe(c) \in Seq(Inbound)
  BY <1>1, PipeTyped, HeadTail, ConcatEmptySeq
<1>4. /\ Pipe(c) = q \o ingestQ[c] /\ up'[c] = Tail(q) /\ ingestQ'[c] = ingestQ[c]
      /\ Handing(c)' = IF Head(q) = Ping THEN <<>> ELSE <<Head(q)>>
  BY <1>1, <1>3 DEF Pipe, Handing, Shapes
<1> HIDE DEF q
<1>5. CASE Head(q) # Ping
  <2>1. Pipe(c)' = <<Head(q)>> \o Tail(q) \o ingestQ[c]
    BY <1>4, <1>5 DEF Pipe
  <2>2. Pipe(c)' = Pipe(c)
    BY <1>3, <1>4, <2>1
  <2> QED BY <1>1, <1>2, <2>2, UpStays DEF UpInv
<1>6. CASE Head(q) = Ping
  <2>1. Pipe(c)' = Tail(q) \o ingestQ[c]
    BY <1>3, <1>4, <1>6 DEF Pipe
  <2>2. Pipe(c) = <<Head(q)>> \o (Tail(q) \o ingestQ[c])
    BY <1>3, <1>4, ConcatAssociative
  <2>3. Tail(q) \o ingestQ[c] \in Seq(Inbound) /\ Head(q) \in Inbound
    BY <1>3, <1>6, ConcatProperties DEF Inbound
  <2>4. Pipe(c)' = Tail(Pipe(c)) /\ Pipe(c)[1] = Ping /\ Pipe(c) # <<>>
    BY <1>6, <2>1, <2>2, <2>3, TailOfConcat
  <2>5. UpOK(c) /\ arrived \in SUBSET Messages
    BY PipeTyped DEF UpInv
  <2> DEFINE P == Pipe(c)
             S == ToSet(asked[c])
  <2>6. Orderly(P, c, arrived, S) /\ (Open(c) => Complete(P, c, arrived, S)) /\ P # <<>>
    BY <2>4, <2>5 DEF UpOK
  <2>7. S = S \cup ({P[1]} \ {Ping}) /\ P \in Seq(Inbound)
    BY <1>3, <2>4
  <2> HIDE DEF P, S
  <2>8. Orderly(Tail(P), c, arrived, S) /\ (Open(c) => Complete(Tail(P), c, arrived, S))
    BY <2>5, <2>6, <2>7, OrderlyLeaves
  <2>9. UpOK(c)'
    <3>1. Pipe(c)' = Tail(P) /\ ToSet(asked'[c]) = S /\ conn'[c] = conn[c] /\ S \subseteq arrived
          /\ conn[c] # "new"
      BY <1>1, <2>4, <2>5, <2>6 DEF UpOK, P, S
    <3> QED BY <1>1, <2>8, <3>1, UpMade DEF Open
  <2> QED BY <1>1, <1>2, <2>9, UpStays DEF UpInv, Shapes
<1> QED BY <1>5, <1>6

LEMMA UpHand == ASSUME IInv, UpInv, NEW c \in Conns, Hand(c) PROVE UpInv'
<1> DEFINE m == held[c][1]
<1>1. /\ server[c] = "handing" /\ asked' = [asked EXCEPT ![c] = Append(asked[c], m)]
      /\ server' = [server EXCEPT ![c] = "locking"]
      /\ UNCHANGED <<conn, arrived, ingestQ, up, held>> /\ Shapes /\ m \in Messages
  BY DEF Hand, clientVars, socketVars, IInv, ConnOK, Turns
<1>2. ASSUME NEW d \in Conns \ {c} PROVE Pipe(d)' = Pipe(d) /\ asked'[d] = asked[d]
  BY <1>1 DEF Pipe, Handing, Shapes
<1>3. held[c] = <<m>> /\ m # Ping /\ m \in Inbound
  <2>1. Len(held[c]) = 1 /\ held[c] \in Seq(Inbound)
    BY <1>1, PipeTyped DEF IInv, ConnOK, Turns
  <2> QED BY <1>1, <2>1, ConnsAssumption DEF Inbound, Ping
<1> HIDE DEF m
<1> DEFINE t == up[c] \o ingestQ[c]
           h == <<m>>
<1>4. /\ up[c] \in Seq(Inbound) /\ ingestQ[c] \in Seq(Inbound) /\ h \in Seq(Inbound)
      /\ t \in Seq(Inbound) /\ <<>> \o up[c] = up[c]
  BY <1>3, PipeTyped, ConcatProperties, ConcatEmptySeq
<1> HIDE DEF t
<1>5. Tail(h \o t) = t /\ (h \o t)[1] = m /\ h \o t # <<>>
  BY <1>3, <1>4, TailOfConcat
<1> HIDE DEF h
<1>14. Pipe(c) = h \o t /\ Pipe(c)' = t
  <2>1. Pipe(c) = (h \o up[c]) \o ingestQ[c]
    BY <1>1, <1>3 DEF Pipe, Handing, h
  <2>2. Pipe(c)' = (<<>> \o up[c]) \o ingestQ[c]
    BY <1>1 DEF Pipe, Handing, Shapes
  <2>3. (h \o up[c]) \o ingestQ[c] = h \o (up[c] \o ingestQ[c])
    <3>1. h \in Seq(Inbound)
      BY <1>4
    <3>2. up[c] \in Seq(Inbound) /\ ingestQ[c] \in Seq(Inbound)
      BY <1>4
    <3>3. \A r, s, u \in Seq(Inbound) : (r \o s) \o u = r \o (s \o u)
      BY ConcatAssociative
    <3> HIDE DEF Inbound
    <3> QED BY <3>1, <3>2, <3>3, Zenon
  <2> QED BY <1>4, <2>1, <2>2, <2>3 DEF t
<1> DEFINE P == Pipe(c)
           S == ToSet(asked[c])
           T == ToSet(asked[c])'
<1>6. Pipe(c)' = Tail(P) /\ P[1] = m /\ P # <<>>
  BY <1>5, <1>14
<1>7. T = S \cup {m} /\ S \cup {m} = S \cup ({P[1]} \ {Ping})
  <2>1. asked[c] \in Seq(Messages) /\ asked'[c] = Append(asked[c], m)
    BY <1>1, PipeTyped DEF Shapes
  <2>2. T = ToSet(Append(asked[c], m))
    BY <2>1
  <2> QED BY <1>1, <1>3, <1>6, <2>1, <2>2, SetOfAppended
<1>8. /\ Orderly(P, c, arrived, S) /\ (Open(c) => Complete(P, c, arrived, S)) /\ S \subseteq arrived
      /\ conn[c] # "new" /\ P \in Seq(Inbound) /\ arrived \in SUBSET Messages
  BY <1>1, PipeTyped DEF UpInv, UpOK, IInv, ConnOK, Turns
<1>9. m \in arrived
  <2>1. 1 \in 1 .. Len(P)
    BY <1>6, <1>8, HeadTail
  <2> QED BY <1>3, <1>6, <1>8, <2>1 DEF Orderly
<1>10. Pipe(c)' = Tail(P) /\ T = S \cup ({P[1]} \ {Ping})
  BY <1>6, <1>7
<1> HIDE DEF P, S, T
<1>11. Orderly(Tail(P), c, arrived, T) /\ (Open(c) => Complete(Tail(P), c, arrived, T))
  BY <1>6, <1>8, <1>10, OrderlyLeaves
<1>12. T = ToSet(asked'[c]) /\ T \subseteq arrived
  BY <1>7, <1>8, <1>9 DEF T
<1>13. UpOK(c)'
  <2>1. Pipe(c)' = Tail(P) /\ arrived' = arrived /\ conn'[c] = conn[c]
    BY <1>1, <1>10
  <2> QED BY <1>8, <1>11, <1>12, <2>1, UpMade DEF Open
<1> QED BY <1>1, <1>2, <1>13, UpStays DEF UpInv

LEMMA UpDie == ASSUME IInv, UpInv, NEW p \in Platforms, Die(p) PROVE UpInv'
<1>1. /\ Shapes /\ conn' = [c \in Conns |-> IF PlatformOf[c] = p THEN "gone" ELSE conn[c]]
      /\ ingestQ' = [c \in Conns |-> IF PlatformOf[c] = p THEN <<>> ELSE ingestQ[c]]
      /\ UNCHANGED <<server, held, up, arrived, asked>>
  BY DEF Die, IInv, serverVars
<1>2. SUFFICES ASSUME NEW c \in Conns PROVE UpOK(c)'
  BY DEF UpInv
<1>3. CASE PlatformOf[c] # p
  <2>1. Pipe(c)' = Pipe(c) /\ conn'[c] = conn[c]
    BY <1>1, <1>3 DEF Pipe, Handing
  <2> QED BY <1>1, <2>1, UpStays
<1>4. CASE PlatformOf[c] = p
  <2> DEFINE F == Handing(c) \o up[c]
             P == Pipe(c)
  <2>1. conn'[c] = "gone" /\ Pipe(c)' = F \o <<>> /\ P = F \o ingestQ[c]
    BY <1>1, <1>4 DEF Pipe, Handing
  <2>2. F \in Seq(Inbound) /\ ingestQ[c] \in Seq(Inbound)
    BY PipeTyped, ConcatProperties
  <2>3. Orderly(P, c, arrived, ToSet(asked[c])) /\ ToSet(asked[c]) \subseteq arrived
    BY DEF UpInv, UpOK
  <2> HIDE DEF F, P
  <2>4. Pipe(c)' = F
    BY <2>1, <2>2, ConcatEmptySeq
  <2>5. /\ Len(F) \in Nat /\ Len(P) \in Nat /\ Len(F) <= Len(P)
        /\ \A i \in 1 .. Len(F) : F[i] = P[i]
    BY <2>1, <2>2, FrontOfConcat
  <2>6. Orderly(F, c, arrived, ToSet(asked[c]))
    BY <2>3, <2>5, OrderlyFront
  <2>7. ~Open(c)' /\ conn'[c] # "new"
    BY <2>1 DEF Open
  <2> QED BY <1>1, <2>3, <2>4, <2>6, <2>7 DEF UpOK, Orderly, Complete
<1> QED BY <1>3, <1>4

LEMMA UpKeeps == IInv /\ UpInv /\ [Next]_vars => UpInv'
<1> SUFFICES ASSUME IInv, UpInv, [Next]_vars PROVE UpInv'
  OBVIOUS
<1>1. ASSUME arrived' = arrived, asked' = asked, conn' = conn, up' = up, ingestQ' = ingestQ,
             \A c \in Conns : Handing(c)' = Handing(c)
      PROVE  UpInv'
  <2>1. \A c \in Conns : Pipe(c)' = Pipe(c)
    BY <1>1 DEF Pipe
  <2> QED BY <1>1, <2>1, UpStays DEF UpInv
<1>2. ASSUME NEW c \in Conns, LockForReply(c) \/ WriteReply(c) \/ Hangup(c) PROVE UpInv'
  <2>1. /\ server[c] # "handing" /\ UNCHANGED <<arrived, asked, conn, up, ingestQ>>
        /\ \E s \in {"length", "body", "reading", "ended"} : server' = [server EXCEPT ![c] = s]
        /\ \A d \in Conns \ {c} : held'[d] = held[d]
    BY <1>2 DEF LockForReply, WriteReply, Hangup, clientVars, outside, IInv, Shapes
  <2>2. \A d \in Conns : Handing(d)' = Handing(d)
    BY <2>1 DEF Handing, IInv, Shapes
  <2> QED BY <1>1, <2>1, <2>2
<1>3. ASSUME NEW c \in Conns, ClientRead(c) \/ ClientPass(c) \/ Deliver(c) \/ ForwardStep(c)
      PROVE  UpInv'
  <2>1. UNCHANGED <<arrived, asked, conn, up, ingestQ, server, held>>
    BY <1>3 DEF ClientRead, ClientPass, Deliver, ForwardStep, ForwarderStarts, TakeResponse,
       ForwarderLags, LockForResponse, WriteResponse, ForwarderEnds, clientVars, serverVars,
       socketVars, outside
  <2> QED BY <1>1, <2>1 DEF Handing
<1>4. ASSUME NEW m \in Messages, Answer(m) PROVE UpInv'
  BY <1>1, <1>4 DEF Answer, Handing, clientVars, serverVars, socketVars
<1>5. CASE UNCHANGED vars
  BY <1>1, <1>5 DEF Handing, vars, clientVars, serverVars, socketVars, outside
<1>6. ASSUME NEW c \in Conns, Connect(c) \/ ClientStep(c) \/ IngestStep(c) \/ ForwardStep(c)
      PROVE  UpInv'
  BY <1>2, <1>3, <1>6, UpConnect, UpClientWrite, UpReceive, UpHand DEF ClientStep, IngestStep
<1> QED BY <1>4, <1>5, <1>6, UpDie, UpIngestCall DEF Next

LEMMA UpStarts == Init => UpInv
<1> SUFFICES ASSUME Init, NEW c \in Conns PROVE UpOK(c)
  BY DEF UpInv
<1>1. conn[c] = "new" /\ arrived = {} /\ Handing(c) = <<>> /\ up[c] = <<>> /\ ingestQ[c] = <<>>
      /\ asked[c] = <<>>
  BY DEF Init, OnAll, Handing
<1>2. <<>> \o <<>> = <<>> /\ Len(<<>>) = 0 /\ ToSet(<<>>) = {}
  BY DEF ToSet
<1>3. Pipe(c) = <<>>
  BY <1>1, <1>2 DEF Pipe
<1> QED BY <1>1, <1>2, <1>3 DEF UpOK, Orderly, Complete, Open

-----------------------------------------------------------------------------
(* Order: what is on its way back *)

\* m was answered before n, wherever the two are among the answers B.
Ahead(B, m, n) == \A i, j \in 1 .. Len(B) : B[i] = m /\ B[j] = n => i < j
\* m is one of the first k answers.
Among(B, m, k) == \E i \in 1 .. k : B[i] = m
Once(B) == \A i, j \in 1 .. Len(B) : B[i] = B[j] => i = j
\* The part a response is passed on with.
Sends(part) == part.part = 2 /\ part.frame.kind = "response"
\* What a process has got, G, and the responses still in the socket, D, are some of
\* the first k answers, in their order.
Flow(B, G, D, k) ==
  /\ \A i, j \in 1 .. Len(G) : i < j => Ahead(B, G[i], G[j])
  /\ \A i \in 1 .. Len(G) : Among(B, G[i], k)
  /\ \A j \in 1 .. Len(D) : Sends(D[j]) =>
       /\ Among(B, D[j].frame.of, k)
       /\ \A i \in 1 .. Len(G) : Ahead(B, G[i], D[j].frame.of)
       /\ \A i \in 1 .. j - 1 : Sends(D[i]) => Ahead(B, D[i].frame.of, D[j].frame.of)
\* What has come out of a connection's socket ...
Got(c) == delivered[c] \o responseQ[c] \o inReader[c]
\* ... and how far the forwarder is, the response it has in hand left out.
Done(c) == IF forwarder[c] \in {"locking", "length", "body"} THEN cursor[c] - 1 ELSE cursor[c]
DownOK(c) == Flow(bus, Got(c), down[c], Done(c))
DownInv == Once(bus) /\ \A c \in Conns : DownOK(c)

\* A part that is not passed on is read, ...
LEMMA FlowTail ==
  ASSUME NEW B, NEW G, NEW D \in Seq(Parts), NEW k, D # <<>>, Flow(B, G, D, k)
  PROVE  Flow(B, G, Tail(D), k)
<1> DEFINE T == Tail(D)
<1>1. /\ Len(D) \in Nat /\ Len(T) = Len(D) - 1
      /\ \A i \in 1 .. Len(T) : T[i] = D[i + 1]
  BY HeadTail
<1> HIDE DEF T
<1>2. ASSUME NEW j \in 1 .. Len(T), Sends(T[j])
      PROVE  /\ Among(B, T[j].frame.of, k)
             /\ \A i \in 1 .. Len(G) : Ahead(B, G[i], T[j].frame.of)
             /\ \A i \in 1 .. j - 1 : Sends(T[i]) => Ahead(B, T[i].frame.of, T[j].frame.of)
  <2>1. j + 1 \in 1 .. Len(D) /\ T[j] = D[j + 1] /\ Sends(D[j + 1]) /\ (j + 1) - 1 = j
    BY <1>1, <1>2
  <2>2. /\ Among(B, D[j + 1].frame.of, k)
        /\ \A i \in 1 .. Len(G) : Ahead(B, G[i], D[j + 1].frame.of)
        /\ \A i \in 1 .. j : Sends(D[i]) => Ahead(B, D[i].frame.of, D[j + 1].frame.of)
    BY <2>1 DEF Flow
  <2>3. \A i \in 1 .. j - 1 : i + 1 \in 1 .. j /\ T[i] = D[i + 1]
    BY <1>1
  <2>4. \A i \in 1 .. j - 1 : Sends(T[i]) => Ahead(B, T[i].frame.of, T[j].frame.of)
    BY <2>1, <2>2, <2>3
  <2> QED BY <2>1, <2>2, <2>4
<1> QED BY <1>2 DEF Flow, T

\* ... or a response with its second part.
LEMMA FlowRead ==
  ASSUME NEW B, NEW G \in Seq(Messages), NEW D \in Seq(Parts), NEW k, D # <<>>, Flow(B, G, D, k),
         Sends(D[1]), NEW m \in Messages, m = D[1].frame.of
  PROVE  Flow(B, Append(G, m), Tail(D), k)
<1> DEFINE T == Tail(D)
           H == Append(G, m)
<1>1. /\ Len(D) \in Nat /\ Len(D) >= 1 /\ Len(T) = Len(D) - 1
      /\ \A i \in 1 .. Len(T) : T[i] = D[i + 1]
  BY HeadTail
<1>2. /\ Len(H) = Len(G) + 1 /\ Len(G) \in Nat
      /\ \A i \in 1 .. Len(G) : H[i] = G[i]
      /\ H[Len(G) + 1] = m
  BY Appended
<1>3. Flow(B, G, T, k)
  BY FlowTail
<1> HIDE DEF T, H
<1>4. 1 \in 1 .. Len(D) /\ Among(B, m, k) /\ \A i \in 1 .. Len(G) : Ahead(B, G[i], m)
  BY <1>1 DEF Flow
<1>5. \A i \in 1 .. Len(H) : i \in 1 .. Len(G) \/ i = Len(G) + 1
  BY <1>2
<1>6. ASSUME NEW i \in 1 .. Len(H), NEW j \in 1 .. Len(H), i < j PROVE Ahead(B, H[i], H[j])
  <2>1. i \in 1 .. Len(G)
    BY <1>2, <1>6
  <2>2. CASE j \in 1 .. Len(G)
    BY <1>2, <1>6, <2>1, <2>2 DEF Flow
  <2>3. CASE j = Len(G) + 1
    BY <1>2, <1>4, <2>1, <2>3
  <2> QED BY <1>5, <2>2, <2>3
<1>7. \A i \in 1 .. Len(H) : Among(B, H[i], k)
  BY <1>2, <1>4, <1>5 DEF Flow
<1>8. ASSUME NEW j \in 1 .. Len(T), Sends(T[j])
      PROVE  /\ Among(B, T[j].frame.of, k)
             /\ \A i \in 1 .. Len(H) : Ahead(B, H[i], T[j].frame.of)
             /\ \A i \in 1 .. j - 1 : Sends(T[i]) => Ahead(B, T[i].frame.of, T[j].frame.of)
  <2>1. /\ Among(B, T[j].frame.of, k)
        /\ \A i \in 1 .. Len(G) : Ahead(B, G[i], T[j].frame.of)
        /\ \A i \in 1 .. j - 1 : Sends(T[i]) => Ahead(B, T[i].frame.of, T[j].frame.of)
    BY <1>3, <1>8 DEF Flow
  <2>2. Ahead(B, m, T[j].frame.of)
    <3>1. j + 1 \in 1 .. Len(D) /\ T[j] = D[j + 1] /\ 1 \in 1 .. (j + 1) - 1
      BY <1>1
    <3>2. Sends(D[j + 1])
      BY <1>8, <3>1
    <3> QED BY <3>1, <3>2 DEF Flow
  <2> QED BY <1>2, <1>5, <2>1, <2>2
<1> QED BY <1>6, <1>7, <1>8 DEF Flow, T, H

\* A part that is not passed on is written.
LEMMA FlowWrite ==
  ASSUME NEW B, NEW G, NEW D \in Seq(Parts), NEW k, Flow(B, G, D, k), NEW x \in Parts, ~Sends(x)
  PROVE  Flow(B, G, Append(D, x), k)
<1> DEFINE E == Append(D, x)
<1>1. /\ Len(E) = Len(D) + 1 /\ Len(D) \in Nat
      /\ \A i \in 1 .. Len(D) : E[i] = D[i]
      /\ E[Len(D) + 1] = x
  BY Appended
<1> HIDE DEF E
<1>2. ASSUME NEW j \in 1 .. Len(E), Sends(E[j])
      PROVE  /\ Among(B, E[j].frame.of, k)
             /\ \A i \in 1 .. Len(G) : Ahead(B, G[i], E[j].frame.of)
             /\ \A i \in 1 .. j - 1 : Sends(E[i]) => Ahead(B, E[i].frame.of, E[j].frame.of)
  <2>1. j # Len(D) + 1
    BY <1>1, <1>2
  <2>2. j \in 1 .. Len(D) /\ E[j] = D[j] /\ \A i \in 1 .. j - 1 : E[i] = D[i]
    BY <1>1, <2>1
  <2> QED BY <1>2, <2>2 DEF Flow
<1> QED BY <1>2 DEF Flow, E

LEMMA FlowGrows ==
  ASSUME NEW B, NEW G, NEW D, NEW k \in Nat, NEW l \in Nat, k <= l, Flow(B, G, D, k)
  PROVE  Flow(B, G, D, l)
<1>1. \A m : Among(B, m, k) => Among(B, m, l)
  BY DEF Among
<1> QED BY <1>1 DEF Flow

\* What is among the first is ahead of the next.
LEMMA NextIsBehind ==
  ASSUME NEW B, Len(B) \in Nat, Once(B), NEW k \in Nat, k + 1 \in 1 .. Len(B)
  PROVE  \A m : Among(B, m, k) => Ahead(B, m, B[k + 1])
<1> SUFFICES ASSUME NEW m, Among(B, m, k), NEW i \in 1 .. Len(B), NEW j \in 1 .. Len(B),
                    B[i] = m, B[j] = B[k + 1]
             PROVE  i < j
  BY DEF Ahead
<1>1. PICK l \in 1 .. k : B[l] = m
  BY DEF Among
<1>2. l \in 1 .. Len(B)
  OBVIOUS
<1>3. i = l /\ j = k + 1
  BY <1>1, <1>2 DEF Once
<1> QED BY <1>3

\* The second part of the next response is written.
LEMMA FlowSend ==
  ASSUME NEW B, Len(B) \in Nat, Once(B), NEW G, NEW D \in Seq(Parts), NEW k \in Nat,
         Flow(B, G, D, k), k + 1 \in 1 .. Len(B), NEW x \in Parts, x.frame.of = B[k + 1]
  PROVE  Flow(B, G, Append(D, x), k + 1)
<1> DEFINE E == Append(D, x)
<1>1. /\ Len(E) = Len(D) + 1 /\ Len(D) \in Nat
      /\ \A i \in 1 .. Len(D) : E[i] = D[i]
      /\ E[Len(D) + 1] = x
  BY Appended
<1> HIDE DEF E
<1>2. Flow(B, G, D, k + 1)
  BY FlowGrows
<1>3. \A m : Among(B, m, k) => Ahead(B, m, x.frame.of)
  BY NextIsBehind
<1>4. Among(B, x.frame.of, k + 1)
  BY DEF Among
<1>5. ASSUME NEW j \in 1 .. Len(E), Sends(E[j])
      PROVE  /\ Among(B, E[j].frame.of, k + 1)
             /\ \A i \in 1 .. Len(G) : Ahead(B, G[i], E[j].frame.of)
             /\ \A i \in 1 .. j - 1 : Sends(E[i]) => Ahead(B, E[i].frame.of, E[j].frame.of)
  <2>1. CASE j = Len(D) + 1
    <3>1. E[j] = x /\ \A i \in 1 .. j - 1 : i \in 1 .. Len(D) /\ E[i] = D[i]
      BY <1>1, <2>1
    <3>2. \A i \in 1 .. Len(G) : Ahead(B, G[i], x.frame.of)
      BY <1>3 DEF Flow
    <3>3. \A i \in 1 .. Len(D) : Sends(D[i]) => Ahead(B, D[i].frame.of, x.frame.of)
      BY <1>3 DEF Flow
    <3> QED BY <1>4, <3>1, <3>2, <3>3
  <2>2. CASE j # Len(D) + 1
    <3>1. j \in 1 .. Len(D) /\ E[j] = D[j] /\ \A i \in 1 .. j - 1 : E[i] = D[i]
      BY <1>1, <2>2
    <3> QED BY <1>2, <1>5, <3>1 DEF Flow
  <2> QED BY <2>1, <2>2
<1> QED BY <1>2, <1>5 DEF Flow, E

\* A process dies with the last of what it got.
LEMMA FlowFront ==
  ASSUME NEW B, NEW G, NEW D, NEW k, Flow(B, G, D, k), NEW H, Len(G) \in Nat, Len(H) \in Nat,
         Len(H) <= Len(G), \A i \in 1 .. Len(H) : H[i] = G[i]
  PROVE  Flow(B, H, <<>>, k)
<1>1. \A i \in 1 .. Len(H) : i \in 1 .. Len(G)
  OBVIOUS
<1>2. Len(<<>>) = 0
  OBVIOUS
<1>3. \A j \in 1 .. Len(<<>>) : FALSE
  BY <1>2
<1> QED BY <1>1, <1>3 DEF Flow

\* One more answer.
LEMMA FlowAnswer ==
  ASSUME NEW B \in Seq(Messages), NEW m \in Messages, \A i \in 1 .. Len(B) : B[i] # m, Once(B)
  PROVE  /\ Once(Append(B, m))
         /\ \A G, D : \A k \in Nat :
              k <= Len(B) /\ Flow(B, G, D, k) => Flow(Append(B, m), G, D, k)
<1> DEFINE C == Append(B, m)
<1>1. /\ Len(C) = Len(B) + 1 /\ Len(B) \in Nat
      /\ \A i \in 1 .. Len(B) : C[i] = B[i]
      /\ C[Len(B) + 1] = m
  BY Appended
<1> HIDE DEF C
<1>2. \A i \in 1 .. Len(C) : i \in 1 .. Len(B) \/ i = Len(B) + 1
  BY <1>1
<1>3. Once(C)
  BY <1>1, <1>2 DEF Once
<1>4. ASSUME NEW k \in Nat, k <= Len(B), NEW n, Among(B, n, k) PROVE n # m /\ Among(C, n, k)
  <2>1. PICK i \in 1 .. k : B[i] = n
    BY <1>4 DEF Among
  <2>2. i \in 1 .. Len(B)
    BY <1>1, <1>4
  <2> QED BY <1>1, <2>1, <2>2 DEF Among
<1>5. ASSUME NEW n, NEW o, n # m, o # m, Ahead(B, n, o) PROVE Ahead(C, n, o)
  BY <1>1, <1>2, <1>5 DEF Ahead
<1>6. ASSUME NEW G, NEW D, NEW k \in Nat, k <= Len(B), Flow(B, G, D, k) PROVE Flow(C, G, D, k)
  <2>1. \A i \in 1 .. Len(G) : G[i] # m /\ Among(C, G[i], k)
    BY <1>4, <1>6 DEF Flow
  <2>2. \A j \in 1 .. Len(D) : Sends(D[j]) => D[j].frame.of # m /\ Among(C, D[j].frame.of, k)
    BY <1>4, <1>6 DEF Flow
  <2>3. \A i, j \in 1 .. Len(G) : i < j => Ahead(C, G[i], G[j])
    BY <1>5, <1>6, <2>1 DEF Flow
  <2>4. ASSUME NEW j \in 1 .. Len(D), Sends(D[j])
        PROVE  /\ \A i \in 1 .. Len(G) : Ahead(C, G[i], D[j].frame.of)
               /\ \A i \in 1 .. j - 1 : Sends(D[i]) => Ahead(C, D[i].frame.of, D[j].frame.of)
    <3>1. \A i \in 1 .. Len(G) : Ahead(C, G[i], D[j].frame.of)
      BY <1>5, <1>6, <2>1, <2>2, <2>4 DEF Flow
    <3>2. ASSUME NEW i \in 1 .. j - 1, Sends(D[i]) PROVE Ahead(C, D[i].frame.of, D[j].frame.of)
      <4>1. Ahead(B, D[i].frame.of, D[j].frame.of)
        BY <1>6, <2>4, <3>2 DEF Flow
      <4>2. D[i].frame.of # m /\ D[j].frame.of # m
        <5>1. i \in 1 .. Len(D)
          OBVIOUS
        <5> QED BY <2>2, <2>4, <3>2, <5>1
      <4> QED BY <1>5, <4>1, <4>2
    <3> QED BY <3>1, <3>2
  <2> QED BY <2>1, <2>2, <2>3, <2>4 DEF Flow
<1> QED BY <1>3, <1>6 DEF C

LEMMA GotTyped ==
  ASSUME IInv, NEW c \in Conns
  PROVE  /\ delivered[c] \in Seq(Messages) /\ responseQ[c] \in Seq(Messages)
         /\ inReader[c] \in Seq(Messages) /\ delivered[c] \o responseQ[c] \in Seq(Messages)
         /\ Got(c) \in Seq(Messages) /\ down[c] \in Seq(Parts)
         /\ Done(c) \in Nat /\ Done(c) <= Len(bus) /\ Len(bus) \in Nat
<1>1. /\ delivered[c] \in Seq(Messages) /\ responseQ[c] \in Seq(Messages)
      /\ inReader[c] \in Seq(Messages) /\ down[c] \in Seq(Parts)
      /\ cursor[c] \in Nat /\ Len(bus) \in Nat
  BY TypesAt DEF IInv
<1>2. delivered[c] \o responseQ[c] \in Seq(Messages)
  BY <1>1, ConcatProperties
<1>3. Got(c) \in Seq(Messages)
  BY <1>1, <1>2, ConcatProperties DEF Got
<1>4. Done(c) \in Nat /\ Done(c) <= Len(bus)
  <2>1. cursor[c] <= Len(bus)
    BY DEF IInv, ConnOK, Limits
  <2>2. forwarder[c] \in {"locking", "length", "body"} => cursor[c] >= 1
    BY DEF IInv, ConnOK, Turns
  <2> QED BY <1>1, <2>1, <2>2 DEF Done
<1> QED BY <1>1, <1>2, <1>3, <1>4

LEMMA DownMade ==
  ASSUME NEW c \in Conns, NEW B, NEW G, NEW D, NEW k, bus' = B, Got(c)' = G, down'[c] = D,
         Done(c)' = k, Flow(B, G, D, k)
  PROVE  DownOK(c)'
<1>1. Flow(bus', Got(c)', down'[c], Done(c)')
  OBVIOUS
<1> QED BY <1>1 DEF DownOK

LEMMA DownStays ==
  ASSUME DownInv, NEW d \in Conns, bus' = bus, Got(d)' = Got(d), down'[d] = down[d],
         Done(d)' = Done(d)
  PROVE  DownOK(d)'
<1>1. Flow(bus, Got(d), down[d], Done(d))
  BY DEF DownInv, DownOK
<1> QED BY <1>1, DownMade

\* Only the forwarder moves.
LEMMA DownLater ==
  ASSUME IInv, DownInv, NEW d \in Conns, bus' = bus, Got(d)' = Got(d), down'[d] = down[d],
         Done(d)' \in Nat, Done(d) <= Done(d)'
  PROVE  DownOK(d)'
<1> DEFINE k == Done(d)'
<1>1. Flow(bus, Got(d), down[d], Done(d)) /\ Done(d) \in Nat
  BY GotTyped DEF DownInv, DownOK
<1>2. Done(d)' = k /\ k \in Nat /\ Done(d) <= k
  OBVIOUS
<1> HIDE DEF k
<1>3. Flow(bus, Got(d), down[d], k)
  BY <1>1, <1>2, FlowGrows
<1> QED BY <1>2, <1>3, DownMade

LEMMA DownLocal ==
  ASSUME DownInv, NEW c \in Conns, bus' = bus, DownOK(c)',
         \A d \in Conns \ {c} : /\ delivered'[d] = delivered[d] /\ responseQ'[d] = responseQ[d]
                               /\ inReader'[d] = inReader[d] /\ down'[d] = down[d]
                               /\ forwarder'[d] = forwarder[d] /\ cursor'[d] = cursor[d]
  PROVE  DownInv'
<1>1. ASSUME NEW d \in Conns \ {c} PROVE DownOK(d)'
  <2>1. Got(d)' = Got(d) /\ Done(d)' = Done(d) /\ down'[d] = down[d]
    BY DEF Got, Done
  <2> QED BY <2>1, DownStays
<1>2. Once(bus)'
  BY DEF DownInv, Once
<1> QED BY <1>1, <1>2 DEF DownInv

LEMMA DownForward ==
  ASSUME IInv, DownInv, NEW c \in Conns,
         \/ Connect(c) \/ ForwarderStarts(c) \/ TakeResponse(c) \/ ForwarderLags(c)
         \/ LockForResponse(c) \/ ForwarderEnds(c)
  PROVE  DownInv'
<1>1. /\ UNCHANGED <<delivered, responseQ, inReader, down, bus>> /\ Shapes
      /\ cursor[c] \in Nat /\ Len(bus) \in Nat /\ cursor[c] <= Len(bus)
      /\ forwarder[c] \in {"locking", "length", "body"} => cursor[c] >= 1
  BY TypesAt DEF Connect, ForwarderStarts, TakeResponse, ForwarderLags, LockForResponse, ForwarderEnds,
     clientVars, socketVars, outside, IInv, ConnOK, Limits, Turns
<1>2. \A d \in Conns \ {c} : forwarder'[d] = forwarder[d] /\ cursor'[d] = cursor[d]
  BY <1>1 DEF Connect, ForwarderStarts, TakeResponse, ForwarderLags, LockForResponse, ForwarderEnds, Shapes
<1>3. Done(c)' \in Nat /\ Done(c) <= Done(c)'
  <2>1. CASE Connect(c)
    <3>1. forwarder[c] = "none" /\ forwarder'[c] = "waiting" /\ cursor'[c] = Len(bus)
      BY <2>1 DEF Connect, IInv, Shapes, ConnOK, Turns
    <3> QED BY <1>1, <3>1 DEF Done
  <2>2. CASE ForwarderStarts(c)
    <3>1. forwarder[c] = "waiting" /\ forwarder'[c] = "receiving" /\ cursor'[c] = cursor[c]
      BY <1>1, <2>2 DEF ForwarderStarts, Shapes
    <3> QED BY <1>1, <3>1 DEF Done
  <2>3. CASE TakeResponse(c)
    <3>1. /\ forwarder[c] = "receiving" /\ forwarder'[c] \in {"receiving", "locking"}
          /\ cursor'[c] = cursor[c] + 1
      BY <1>1, <2>3 DEF TakeResponse, Shapes
    <3> QED BY <1>1, <3>1 DEF Done
  <2>4. CASE ForwarderLags(c)
    <3>1. /\ forwarder[c] = "receiving" /\ forwarder'[c] = "receiving"
          /\ cursor'[c] = Len(bus) - BroadcastCapacity /\ Len(bus) - cursor[c] > BroadcastCapacity
      BY <1>1, <2>4 DEF ForwarderLags, Shapes
    <3> QED BY <1>1, <3>1, CapacityAssumption DEF Done
  <2>5. CASE LockForResponse(c)
    <3>1. forwarder[c] = "locking" /\ forwarder'[c] = "length" /\ cursor'[c] = cursor[c]
      BY <1>1, <2>5 DEF LockForResponse, Shapes
    <3> QED BY <1>1, <3>1 DEF Done
  <2>6. CASE ForwarderEnds(c)
    <3>1. /\ forwarder[c] \in {"length", "body", "waiting"} /\ forwarder'[c] = "ended"
          /\ cursor'[c] = cursor[c]
      BY <1>1, <2>6 DEF ForwarderEnds, Shapes
    <3> QED BY <1>1, <3>1 DEF Done
  <2> QED BY <2>1, <2>2, <2>3, <2>4, <2>5, <2>6
<1>4. Got(c)' = Got(c) /\ down'[c] = down[c]
  BY <1>1 DEF Got
<1>5. DownOK(c)'
  BY <1>1, <1>3, <1>4, DownLater
<1> QED BY <1>1, <1>2, <1>5, DownLocal

LEMMA DownWriteReply == ASSUME IInv, DownInv, NEW c \in Conns, WriteReply(c) PROVE DownInv'
<1>1. PICK n \in {1, 2} :
        /\ down' = [down EXCEPT ![c] = Append(@, Part(Reply(held[c][1]), n))]
        /\ server[c] \in {"length", "body"}
        /\ UNCHANGED <<delivered, responseQ, inReader, forwarder, cursor, bus>>
  BY DEF WriteReply, clientVars, forwardVars, outside
<1> DEFINE x == Part(Reply(held[c][1]), n)
<1>2. x \in Parts /\ ~Sends(x)
  <2>1. held[c][1] \in Messages \cup {Ping}
    <3>1. Len(held[c]) = 1 /\ held[c] \in Seq(Messages \cup {Ping})
      BY <1>1, TypesAt DEF IInv, ConnOK, Turns
    <3>2. 1 \in 1 .. Len(held[c])
      BY <3>1
    <3> QED BY <3>1, <3>2, ElementOfSeq
  <2>2. Reply(held[c][1]) \in Frames /\ Reply(held[c][1]).kind # "response"
    BY <2>1 DEF Reply, Frame, Frames
  <2> QED BY <2>2, PartsTyped DEF Sends
<1>3. /\ down'[c] = Append(down[c], x) /\ \A d \in Conns \ {c} : down'[d] = down[d]
      /\ Got(c)' = Got(c) /\ Done(c)' = Done(c)
  BY <1>1 DEF IInv, Shapes, Got, Done
<1> HIDE DEF x
<1>4. Flow(bus, Got(c), Append(down[c], x), Done(c))
  <2>1. Flow(bus, Got(c), down[c], Done(c)) /\ down[c] \in Seq(Parts)
    BY GotTyped DEF DownInv, DownOK
  <2> QED BY <1>2, <2>1, FlowWrite
<1>5. DownOK(c)'
  BY <1>1, <1>3, <1>4, DownMade
<1> QED BY <1>1, <1>3, <1>5, DownLocal

LEMMA DownWriteResponse == ASSUME IInv, DownInv, NEW c \in Conns, WriteResponse(c) PROVE DownInv'
<1> DEFINE f == Frame("response", bus[cursor[c]])
<1>1. /\ forwarder[c] \in {"length", "body"}
      /\ UNCHANGED <<delivered, responseQ, inReader, cursor, bus>>
      /\ \/ /\ forwarder[c] = "length" /\ down' = [down EXCEPT ![c] = Append(@, Part(f, 1))]
            /\ forwarder' = [forwarder EXCEPT ![c] = "body"]
         \/ /\ forwarder[c] = "body" /\ down' = [down EXCEPT ![c] = Append(@, Part(f, 2))]
            /\ forwarder' = [forwarder EXCEPT ![c] = "receiving"]
  BY DEF WriteResponse, clientVars, outside
<1>2. cursor[c] \in 1 .. Len(bus) /\ Done(c) = cursor[c] - 1 /\ Done(c) \in Nat
  <2>1. cursor[c] \in Nat /\ cursor[c] >= 1 /\ cursor[c] <= Len(bus) /\ Len(bus) \in Nat
    BY <1>1, TypesAt DEF IInv, ConnOK, Turns, Limits
  <2> QED BY <1>1, <2>1 DEF Done
<1>3. f \in Frames /\ f.of = bus[cursor[c]]
  <2>1. bus[cursor[c]] \in Messages
    BY <1>2, ElementOfSeq DEF IInv, Shapes
  <2> QED BY <2>1 DEF Frame, Frames
<1>4. /\ Flow(bus, Got(c), down[c], Done(c)) /\ down[c] \in Seq(Parts) /\ Len(bus) \in Nat
      /\ Once(bus) /\ Got(c)' = Got(c)
  BY <1>1, GotTyped DEF DownInv, DownOK, Got
<1> HIDE DEF f
<1>5. CASE forwarder[c] = "length"
  <2> DEFINE x == Part(f, 1)
  <2>1. x \in Parts /\ ~Sends(x)
    BY <1>3, PartsTyped DEF Sends
  <2>2. /\ down'[c] = Append(down[c], x) /\ \A d \in Conns \ {c} : down'[d] = down[d]
        /\ forwarder'[c] = "body" /\ \A d \in Conns \ {c} : forwarder'[d] = forwarder[d]
    BY <1>1, <1>5 DEF IInv, Shapes
  <2> HIDE DEF x
  <2>3. Done(c)' = Done(c)
    BY <1>1, <1>5, <2>2 DEF Done
  <2>4. Flow(bus, Got(c), Append(down[c], x), Done(c))
    BY <1>4, <2>1, FlowWrite
  <2>5. DownOK(c)'
    BY <1>1, <1>4, <2>2, <2>3, <2>4, DownMade
  <2> QED BY <1>1, <2>2, <2>5, DownLocal
<1>6. CASE forwarder[c] = "body"
  <2> DEFINE x == Part(f, 2)
             k == Done(c)
  <2>1. x \in Parts /\ x.frame.of = bus[cursor[c]]
    BY <1>3, PartsTyped
  <2>2. /\ down'[c] = Append(down[c], x) /\ \A d \in Conns \ {c} : down'[d] = down[d]
        /\ forwarder'[c] = "receiving" /\ \A d \in Conns \ {c} : forwarder'[d] = forwarder[d]
    BY <1>1, <1>6 DEF IInv, Shapes
  <2> HIDE DEF x
  <2>3. k \in Nat /\ k + 1 = cursor[c] /\ k + 1 \in 1 .. Len(bus)
    BY <1>2
  <2>4. Done(c)' = k + 1
    BY <1>1, <2>2, <2>3 DEF Done
  <2>5. x.frame.of = bus[k + 1] /\ Flow(bus, Got(c), down[c], k)
    BY <1>4, <2>1, <2>3
  <2> HIDE DEF k
  <2>6. Flow(bus, Got(c), Append(down[c], x), k + 1)
    BY <1>4, <2>1, <2>3, <2>5, FlowSend
  <2>7. DownOK(c)'
    BY <1>1, <1>4, <2>2, <2>4, <2>6, DownMade
  <2> QED BY <1>1, <2>2, <2>7, DownLocal
<1> QED BY <1>1, <1>5, <1>6

LEMMA DownClientRead == ASSUME IInv, DownInv, NEW c \in Conns, ClientRead(c) PROVE DownInv'
<1> DEFINE h == down[c][1]
<1>1. /\ down[c] # <<>> /\ down' = [down EXCEPT ![c] = Tail(@)] /\ inReader[c] = <<>>
      /\ UNCHANGED <<delivered, responseQ, forwarder, cursor, bus>> /\ Shapes
  BY DEF ClientRead, forwardVars, outside, IInv
<1>2. /\ Flow(bus, Got(c), down[c], Done(c)) /\ down[c] \in Seq(Parts) /\ Done(c)' = Done(c)
      /\ delivered[c] \o responseQ[c] \in Seq(Messages) /\ Head(down[c]) = h
  <2>1. down[c] \in Seq(Parts)
    BY GotTyped
  <2> QED BY <1>1, <2>1, GotTyped, HeadTail DEF DownInv, DownOK, Done
<1> DEFINE s == delivered[c] \o responseQ[c]
<1>3. /\ down'[c] = Tail(down[c]) /\ \A d \in Conns \ {c} : down'[d] = down[d]
      /\ Got(c) = s \o <<>> /\ Got(c)' = s \o inReader'[c]
  BY <1>1 DEF Shapes, Got
<1> HIDE DEF h
<1>4. CASE partial[c] # <<>> /\ h.frame.kind = "response"
  <2>1. /\ inReader' = [inReader EXCEPT ![c] = <<h.frame.of>>]
    BY <1>2, <1>4 DEF ClientRead
  <2>2. inReader'[c] = <<h.frame.of>> /\ \A d \in Conns \ {c} : inReader'[d] = inReader[d]
    BY <1>1, <2>1 DEF Shapes
  <2>3. h.frame.of \in Messages /\ Sends(h)
    <3>1. OwnOnly(c) /\ Whole(Incoming(c)) /\ Len(partial[c]) <= 1 /\ partial[c] \in Seq(Parts)
      BY TypesAt DEF IInv, ConnOK, Stream, Limits
    <3>2. Len(down[c]) \in Nat /\ 1 \in 1 .. Len(down[c]) /\ Len(partial[c]) = 1
      BY <1>1, <1>2, <1>4, <3>1, HeadTail, OnlyOne
    <3>3. h.frame.of \in Messages
      BY <1>4, <3>1, <3>2 DEF OwnOnly, IsOwn, h
    <3>4. /\ Len(Incoming(c)) = Len(partial[c]) + Len(down[c])
          /\ \A i \in 1 .. Len(partial[c]) + Len(down[c]) :
               Incoming(c)[i] = IF i <= Len(partial[c]) THEN partial[c][i]
                                ELSE down[c][i - Len(partial[c])]
      BY <1>2, <3>1, ConcatProperties DEF Incoming
    <3>5. 2 \in 1 .. Len(Incoming(c)) /\ Incoming(c)[2] = h
      BY <3>2, <3>4 DEF h
    <3>6. h.part = 2
      BY <3>1, <3>5 DEF Whole
    <3> QED BY <1>4, <3>3, <3>6 DEF Sends
  <2> DEFINE m == h.frame.of
  <2>4. Got(c)' = Append(s, m) /\ Got(c) = s
    <3>1. s \in Seq(Messages) /\ m \in Messages /\ Got(c) = s \o <<>> /\ Got(c)' = s \o <<m>>
      BY <1>2, <1>3, <2>2, <2>3
    <3> HIDE DEF s, m
    <3>2. s \o <<>> = s
      BY <3>1, ConcatEmptySeq
    <3>3. Append(s, m) = s \o <<m>>
      BY <3>1, AppendIsConcat
    <3> QED BY <3>1, <3>2, <3>3
  <2>5. Flow(bus, Append(s, m), Tail(down[c]), Done(c))
    <3>1. m \in Messages /\ m = down[c][1].frame.of /\ Sends(down[c][1])
      BY <2>3 DEF h
    <3>2. Flow(bus, s, down[c], Done(c)) /\ s \in Seq(Messages)
      BY <1>2, <2>4
    <3> HIDE DEF m, s
    <3> QED BY <1>1, <1>2, <3>1, <3>2, FlowRead
  <2>6. DownOK(c)'
    BY <1>1, <1>2, <1>3, <2>4, <2>5, DownMade
  <2> QED BY <1>1, <1>3, <2>2, <2>6, DownLocal
<1>5. CASE ~(partial[c] # <<>> /\ h.frame.kind = "response")
  <2>1. inReader' = inReader
    BY <1>2, <1>5 DEF ClientRead
  <2>2. Got(c)' = Got(c)
    BY <1>1, <1>3, <2>1
  <2>3. Flow(bus, Got(c), Tail(down[c]), Done(c))
    BY <1>1, <1>2, FlowTail
  <2>4. DownOK(c)'
    BY <1>1, <1>2, <1>3, <2>2, <2>3, DownMade
  <2> QED BY <1>1, <1>3, <2>1, <2>4, DownLocal
<1> QED BY <1>4, <1>5

LEMMA DownClientPass == ASSUME IInv, DownInv, NEW c \in Conns, ClientPass(c) PROVE DownInv'
<1>1. /\ responseQ' = [responseQ EXCEPT ![c] = responseQ[c] \o inReader[c]]
      /\ inReader' = [inReader EXCEPT ![c] = <<>>]
      /\ UNCHANGED <<delivered, forwarder, cursor, down, bus>> /\ Shapes
  BY DEF ClientPass, forwardVars, socketVars, outside, IInv
<1> DEFINE d == delivered[c]
           q == responseQ[c]
           r == inReader[c]
<1>2. d \in Seq(Messages) /\ q \in Seq(Messages) /\ r \in Seq(Messages) /\ q \o r \in Seq(Messages)
  BY GotTyped, ConcatProperties
<1>3. Got(c)' = (d \o (q \o r)) \o <<>> /\ Got(c) = (d \o q) \o r
  BY <1>1 DEF Got, Shapes
<1> HIDE DEF d, q, r
<1>4. d \o (q \o r) \in Seq(Messages) /\ (d \o q) \o r = d \o (q \o r)
  BY <1>2, ConcatProperties, ConcatAssociative
<1>5. Got(c)' = Got(c)
  BY <1>3, <1>4, ConcatEmptySeq
<1>6. Done(c)' = Done(c) /\ down'[c] = down[c]
  BY <1>1 DEF Done
<1>7. DownOK(c)'
  BY <1>1, <1>5, <1>6, DownStays
<1>8. \A e \in Conns \ {c} : responseQ'[e] = responseQ[e] /\ inReader'[e] = inReader[e]
  BY <1>1 DEF Shapes
<1> QED BY <1>1, <1>7, <1>8, DownLocal

LEMMA DownDeliver == ASSUME IInv, DownInv, NEW c \in Conns, Deliver(c) PROVE DownInv'
<1> DEFINE d == delivered[c]
           q == responseQ[c]
           r == inReader[c]
<1>1. /\ q # <<>> /\ delivered' = [delivered EXCEPT ![c] = Append(d, Head(q))]
      /\ responseQ' = [responseQ EXCEPT ![c] = Tail(q)]
      /\ UNCHANGED <<inReader, forwarder, cursor, down, bus>> /\ Shapes
  BY DEF Deliver, forwardVars, socketVars, IInv
<1>2. /\ d \in Seq(Messages) /\ q \in Seq(Messages) /\ r \in Seq(Messages)
      /\ Head(q) \in Messages /\ Tail(q) \in Seq(Messages) /\ <<Head(q)>> \in Seq(Messages)
      /\ q = <<Head(q)>> \o Tail(q)
  BY <1>1, GotTyped, HeadTail
<1>3. Got(c)' = (Append(d, Head(q)) \o Tail(q)) \o r /\ Got(c) = (d \o q) \o r
  BY <1>1 DEF Got, Shapes
<1> HIDE DEF d, q, r
<1>4. Append(d, Head(q)) = d \o <<Head(q)>>
  BY <1>2, AppendIsConcat
<1>5. (d \o <<Head(q)>>) \o Tail(q) = d \o (<<Head(q)>> \o Tail(q))
  BY <1>2, ConcatAssociative
<1>6. Got(c)' = Got(c)
  BY <1>2, <1>3, <1>4, <1>5
<1>7. Done(c)' = Done(c) /\ down'[c] = down[c]
  BY <1>1 DEF Done
<1>8. DownOK(c)'
  BY <1>1, <1>6, <1>7, DownStays
<1>9. \A e \in Conns \ {c} : responseQ'[e] = responseQ[e] /\ delivered'[e] = delivered[e]
  BY <1>1 DEF Shapes
<1> QED BY <1>1, <1>8, <1>9, DownLocal

LEMMA DownDie == ASSUME IInv, DownInv, NEW p \in Platforms, Die(p) PROVE DownInv'
<1>1. /\ inReader' = [c \in Conns |-> IF PlatformOf[c] = p THEN <<>> ELSE inReader[c]]
      /\ responseQ' = [c \in Conns |-> IF PlatformOf[c] = p THEN <<>> ELSE responseQ[c]]
      /\ down' = [c \in Conns |-> IF PlatformOf[c] = p THEN <<>> ELSE down[c]]
      /\ UNCHANGED <<forwarder, cursor, bus, delivered>>
  BY DEF Die, forwardVars
<1>2. ASSUME NEW c \in Conns PROVE DownOK(c)'
  <2>1. Done(c)' = Done(c)
    BY <1>1 DEF Done
  <2>2. CASE PlatformOf[c] # p
    <3>1. Got(c)' = Got(c) /\ down'[c] = down[c]
      BY <1>1, <2>2 DEF Got
    <3> QED BY <1>1, <2>1, <3>1, DownStays
  <2>3. CASE PlatformOf[c] = p
    <3> DEFINE d == delivered[c]
               dq == d \o responseQ[c]
    <3>1. Got(c)' = (d \o <<>>) \o <<>> /\ Got(c) = dq \o inReader[c] /\ down'[c] = <<>>
      BY <1>1, <2>3 DEF Got
    <3>2. d \in Seq(Messages) /\ responseQ[c] \in Seq(Messages) /\ inReader[c] \in Seq(Messages)
          /\ dq \in Seq(Messages)
      BY GotTyped
    <3>3. Len(d) \in Nat /\ Len(d) <= Len(dq) /\ \A i \in 1 .. Len(d) : d[i] = dq[i]
      BY <3>2, FrontOfConcat
    <3> HIDE DEF dq, d
    <3>4. /\ Len(dq) \in Nat /\ Len(Got(c)) \in Nat /\ Len(dq) <= Len(Got(c))
          /\ \A i \in 1 .. Len(dq) : dq[i] = Got(c)[i]
      BY <3>1, <3>2, FrontOfConcat
    <3>5. Got(c)' = d
      BY <3>1, <3>2, ConcatEmptySeq
    <3>6. Len(d) <= Len(Got(c)) /\ \A i \in 1 .. Len(d) : d[i] = Got(c)[i]
      BY <3>3, <3>4
    <3>7. Flow(bus, Got(c), down[c], Done(c))
      BY DEF DownInv, DownOK
    <3>8. Flow(bus, d, <<>>, Done(c))
      BY <3>3, <3>4, <3>6, <3>7, FlowFront
    <3> QED BY <1>1, <2>1, <3>1, <3>5, <3>8, DownMade
  <2> QED BY <2>2, <2>3
<1> QED BY <1>1, <1>2 DEF DownInv, Once

LEMMA DownAnswer == ASSUME IInv, DownInv, NEW m \in Messages, Answer(m) PROVE DownInv'
<1> DEFINE B == Append(bus, m)
<1>1. /\ bus' = B /\ (\A i \in 1 .. Len(bus) : bus[i] # m) /\ bus \in Seq(Messages) /\ Once(bus)
      /\ UNCHANGED <<inReader, responseQ, delivered, down, forwarder, cursor>>
  BY DEF Answer, clientVars, forwardVars, socketVars, IInv, Shapes, DownInv
<1>2. /\ Once(B)
      /\ \A G, D : \A k \in Nat : k <= Len(bus) /\ Flow(bus, G, D, k) => Flow(B, G, D, k)
  BY <1>1, FlowAnswer
<1> HIDE DEF B
<1>3. ASSUME NEW c \in Conns PROVE DownOK(c)'
  <2>1. Got(c)' = Got(c) /\ Done(c)' = Done(c) /\ down'[c] = down[c]
    BY <1>1 DEF Got, Done
  <2>2. Flow(bus, Got(c), down[c], Done(c)) /\ Done(c) \in Nat /\ Done(c) <= Len(bus)
    BY GotTyped DEF DownInv, DownOK
  <2>3. Flow(B, Got(c), down[c], Done(c))
    BY <1>2, <2>2
  <2> QED BY <1>1, <2>1, <2>3, DownMade
<1>4. Once(bus)'
  BY <1>1, <1>2 DEF Once
<1> QED BY <1>3, <1>4 DEF DownInv

LEMMA DownKeeps == IInv /\ DownInv /\ [Next]_vars => DownInv'
<1> SUFFICES ASSUME IInv, DownInv, [Next]_vars PROVE DownInv'
  OBVIOUS
<1>1. ASSUME UNCHANGED <<bus, delivered, responseQ, inReader, down, forwarder, cursor>>
      PROVE  DownInv'
  <2>1. \A c \in Conns : Got(c)' = Got(c) /\ down'[c] = down[c] /\ Done(c)' = Done(c)
    BY <1>1 DEF Got, Done
  <2> QED BY <1>1, <2>1, DownStays DEF DownInv, Once
<1>2. ASSUME NEW c \in Conns,
             ClientWrite(c) \/ Receive(c) \/ Hand(c) \/ LockForReply(c) \/ Hangup(c)
      PROVE  DownInv'
  BY <1>1, <1>2 DEF ClientWrite, Receive, Hand, LockForReply, Hangup, clientVars, forwardVars,
     socketVars, outside
<1>3. ASSUME NEW m \in Messages, IngestCall(m) PROVE DownInv'
  BY <1>1, <1>3 DEF IngestCall, forwardVars, socketVars
<1>4. CASE UNCHANGED vars
  BY <1>1, <1>4 DEF vars, clientVars, forwardVars, socketVars, outside
<1>5. ASSUME NEW c \in Conns, Connect(c) \/ ClientStep(c) \/ IngestStep(c) \/ ForwardStep(c)
      PROVE  DownInv'
  BY <1>2, <1>5, DownForward, DownClientRead, DownClientPass, DownDeliver, DownWriteReply,
     DownWriteResponse DEF ClientStep, IngestStep, ForwardStep
<1> QED BY <1>3, <1>4, <1>5, DownDie, DownAnswer DEF Next

LEMMA DownStarts == Init => DownInv
<1> SUFFICES ASSUME Init PROVE DownInv
  OBVIOUS
<1>1. Len(<<>>) = 0 /\ <<>> \o <<>> = <<>>
  OBVIOUS
<1>2. ASSUME NEW c \in Conns PROVE DownOK(c)
  <2>1. Got(c) = <<>> /\ down[c] = <<>>
    BY <1>1 DEF Init, OnAll, Got
  <2> QED BY <1>1, <2>1 DEF DownOK, Flow
<1>3. Once(bus)
  BY <1>1 DEF Init, Once
<1> QED BY <1>2, <1>3 DEF DownInv

-----------------------------------------------------------------------------
(* The relay does what RelayService promises *)

LEMMA TakesInOrder == ASSUME NEW m \in Messages, IngestCall(m) PROVE Service!Take(m)
BY DEF IngestCall, Service!Take, Service!Before

\* The first of the pipe is the next that the agent has not got.
LEMMA AsksInOrder ==
  ASSUME IInv, UpInv, NEW c \in Conns, Hand(c)
  PROVE  \E m \in Messages : Service!Ask(m)
<1> DEFINE m == held[c][1]
           P == Pipe(c)
           S == ToSet(asked[c])
<1>1. /\ server[c] = "handing" /\ asked' = [asked EXCEPT ![c] = Append(@, m)] /\ m \in Messages
      /\ UNCHANGED <<arrived, bus, delivered>>
  BY DEF Hand, IInv, ConnOK, Turns
<1>2. P # <<>> /\ P[1] = m /\ P \in Seq(Inbound) /\ m # Ping
  <2>1. Len(held[c]) = 1 /\ held[c] \in Seq(Inbound)
    BY <1>1, PipeTyped DEF IInv, ConnOK, Turns
  <2> DEFINE t == up[c] \o ingestQ[c]
             h == <<m>>
  <2>2. held[c] = h /\ m \in Inbound /\ h \in Seq(Inbound) /\ m # Ping
    BY <1>1, <2>1, ConnsAssumption DEF Inbound, Ping
  <2>3. up[c] \in Seq(Inbound) /\ ingestQ[c] \in Seq(Inbound) /\ t \in Seq(Inbound)
    BY PipeTyped, ConcatProperties
  <2>4. P = (h \o up[c]) \o ingestQ[c]
    BY <1>1, <2>2 DEF Pipe, Handing
  <2>5. (h \o t)[1] = m /\ h \o t # <<>>
    BY <2>2, <2>3, TailOfConcat
  <2>6. P \in Seq(Inbound)
    BY PipeTyped
  <2>7. \A r, s, u \in Seq(Inbound) : (r \o s) \o u = r \o (s \o u)
    BY ConcatAssociative
  <2> HIDE DEF h, P, Inbound
  <2>8. P = h \o t
    BY <2>2, <2>3, <2>4, <2>7, Zenon
  <2> QED BY <2>2, <2>5, <2>6, <2>8
<1>3. Orderly(P, c, arrived, S) /\ 1 \in 1 .. Len(P)
  BY <1>2, HeadTail DEF UpInv, UpOK
<1>4. /\ m \in arrived \ S /\ ConnOf[m] = c
      /\ \A n \in Service!Before(m) : n \in S \/ \E j \in 1 .. 1 - 1 : P[j] = n
  <2> HIDE DEF P, S, m
  <2> QED BY <1>2, <1>3 DEF Orderly
<1>5. Service!Before(m) \subseteq S
  BY <1>4
<1> HIDE DEF m
<1>6. Service!Ask(m)
  BY <1>1, <1>4, <1>5 DEF Service!Ask, Service!ToSet, ToSet
<1> QED BY <1>1, <1>6

LEMMA AnswersOnce ==
  ASSUME IInv, NEW m \in Messages, Answer(m)
  PROVE  Service!Answer(m)
<1>1. bus \in Seq(Messages) /\ DOMAIN bus = 1 .. Len(bus)
  BY LenProperties DEF IInv, Shapes
<1>2. m \notin ToSet(bus)
  BY <1>1 DEF Answer, ToSet
<1> QED BY <1>2 DEF Answer, Service!Answer, Service!ToSet, ToSet

\* What is delivered is of its platform and behind all that was delivered before.
LEMMA GivesInOrder ==
  ASSUME IInv, DownInv, NEW c \in Conns, Deliver(c)
  PROVE  \E i \in 1 .. Len(bus) : Service!Give(c, i)
<1> DEFINE d == delivered[c]
           q == responseQ[c]
           r == inReader[c]
           G == Got(c)
           m == Head(q)
           n == Len(d) + 1
<1>1. /\ q # <<>> /\ delivered' = [delivered EXCEPT ![c] = Append(@, m)]
      /\ UNCHANGED <<arrived, asked, bus>>
  BY DEF Deliver
<1>2. /\ d \in Seq(Messages) /\ q \in Seq(Messages) /\ r \in Seq(Messages) /\ d \o q \in Seq(Messages)
      /\ m = q[1] /\ Len(q) \in Nat /\ Len(q) >= 1 /\ Len(d) \in Nat
  BY <1>1, GotTyped, HeadTail, LenProperties
<1>3. Flow(bus, G, down[c], Done(c)) /\ Done(c) \in Nat /\ Done(c) <= Len(bus) /\ Len(bus) \in Nat
  BY GotTyped DEF DownInv, DownOK
<1>4. Platform(m) = PlatformOf[c]
  <2>1. 1 \in 1 .. Len(q)
    BY <1>2
  <2> QED BY <1>2, <2>1 DEF IInv, ConnOK, OwnOnly, IsOwn
<1>5. G = (d \o q) \o r
  BY DEF Got
<1> HIDE DEF d, q, r, G
<1>6. /\ Len(d \o q) = Len(d) + Len(q)
      /\ \A i \in 1 .. Len(d) + Len(q) : (d \o q)[i] = IF i <= Len(d) THEN d[i] ELSE q[i - Len(d)]
  BY <1>2, ConcatProperties
<1>7. /\ Len(d \o q) <= Len(G) /\ Len(G) \in Nat /\ \A i \in 1 .. Len(d \o q) : (d \o q)[i] = G[i]
  BY <1>2, <1>5, FrontOfConcat
<1>8. n \in 1 .. Len(d) + Len(q) /\ ~(n <= Len(d)) /\ n - Len(d) = 1
  BY <1>2
<1>9. n \in 1 .. Len(G) /\ G[n] = m
  BY <1>2, <1>6, <1>7, <1>8
<1>10. ASSUME NEW i \in 1 .. Len(d) PROVE i \in 1 .. Len(G) /\ i < n /\ G[i] = d[i]
  <2>1. i \in 1 .. Len(d) + Len(q) /\ i <= Len(d) /\ i < n
    BY <1>2
  <2>2. i \in 1 .. Len(d \o q) /\ (d \o q)[i] = d[i]
    BY <1>6, <2>1
  <2>3. i \in 1 .. Len(G)
    BY <1>2, <1>6, <1>7, <2>1
  <2> QED BY <1>7, <2>1, <2>2, <2>3
<1> HIDE DEF n, m
<1>11. Among(bus, m, Done(c)) /\ \A i \in 1 .. Len(d) : Ahead(bus, d[i], m)
  BY <1>3, <1>9, <1>10 DEF Flow
<1>12. PICK k \in 1 .. Done(c) : bus[k] = m
  BY <1>11 DEF Among
<1>13. k \in 1 .. Len(bus)
  BY <1>3
<1>14. ASSUME NEW j \in k .. Len(bus) PROVE bus[j] \notin ToSet(delivered[c])
  <2> SUFFICES ASSUME bus[j] \in ToSet(delivered[c]) PROVE FALSE
    OBVIOUS
  <2>1. DOMAIN d = 1 .. Len(d)
    BY <1>2
  <2>2. PICK i \in 1 .. Len(d) : d[i] = bus[j]
    BY <2>1 DEF ToSet, d
  <2>3. j \in 1 .. Len(bus) /\ k <= j
    BY <1>13
  <2>4. j < k
    BY <1>11, <1>12, <1>13, <2>2, <2>3 DEF Ahead
  <2> QED BY <1>13, <2>3, <2>4
<1>15. Service!Give(c, k)
  BY <1>1, <1>4, <1>12, <1>14 DEF Service!Give, Service!ToSet, ToSet, Platform
<1> QED BY <1>13, <1>15

LEMMA ServiceStep ==
  IInv /\ UpInv /\ DownInv /\ [Next]_vars => [Service!Next]_(Service!vars)
<1> SUFFICES ASSUME IInv, UpInv, DownInv, [Next]_vars PROVE [Service!Next]_(Service!vars)
  OBVIOUS
<1>1. ASSUME NEW c \in Conns, Hand(c) PROVE Service!Next
  BY <1>1, AsksInOrder DEF Service!Next
<1>2. ASSUME NEW c \in Conns, Deliver(c) PROVE Service!Next
  BY <1>2, GivesInOrder DEF Service!Next
<1>3. ASSUME NEW m \in Messages, IngestCall(m) \/ Answer(m) PROVE Service!Next
  BY <1>3, TakesInOrder, AnswersOnce DEF Service!Next
<1>4. ASSUME NEW c \in Conns,
             \/ Connect(c) \/ ClientWrite(c) \/ ClientRead(c) \/ ClientPass(c) \/ Receive(c)
             \/ LockForReply(c) \/ WriteReply(c) \/ Hangup(c) \/ ForwardStep(c)
      PROVE  UNCHANGED Service!vars
  BY <1>4 DEF Connect, ClientWrite, ClientRead, ClientPass, Receive, LockForReply, WriteReply, Hangup,
     ForwardStep, ForwarderStarts, TakeResponse, ForwarderLags, LockForResponse, WriteResponse,
     ForwarderEnds, outside, Service!vars
<1>5. ASSUME NEW p \in Platforms, Die(p) PROVE UNCHANGED Service!vars
  BY <1>5 DEF Die, Service!vars
<1>6. CASE UNCHANGED vars
  BY <1>6 DEF vars, outside, Service!vars
<1> QED BY <1>1, <1>2, <1>3, <1>4, <1>5, <1>6 DEF Next, ClientStep, IngestStep

\* Queues, halves of frames, locks, lags and deaths notwithstanding, each process's
\* messages reach the agent once and in order, and it gets answers to its platform's
\* messages, each once and in the order of the broadcast.
THEOREM RelayKeepsPromise == Spec => ImplementsService
<1>1. Init => Service!Init
  BY DEF Init, OnAll, Service!Init
<1>2. Spec => [](IInv /\ UpInv /\ DownInv)
  BY InitHolds, StepKeeps, UpStarts, UpKeeps, DownStarts, DownKeeps, PTL DEF Spec
<1> QED BY <1>1, <1>2, ServiceStep, PTL DEF Spec, ImplementsService, Service!Spec
=============================================================================
