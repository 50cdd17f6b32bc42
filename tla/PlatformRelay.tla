----------------------------- MODULE PlatformRelay -----------------------------
(***************************************************************************)
(* The Unix-socket relay between the platform processes (Discord,          *)
(* Telegram, the selfbot) and the agent: libs/sensory/src/relay.  Each     *)
(* connection has a client with two bounded channels and two I/O tasks,    *)
(* and on the agent's side an ingest loop and a response forwarder that    *)
(* share the write half under a lock.  Frames are written in two parts,    *)
(* the length and the body.                                                *)
(*                                                                         *)
(* A message is a number; the agent answers each with one response on the  *)
(* event broadcast (module AgentRuntime has the way in between).           *)
(***************************************************************************)
EXTENDS Integers, Sequences, SequencesExt, FiniteSets

CONSTANTS
  Conns,             \* the connections the platform processes open
  PlatformOf,        \* the platform each one serves
  Messages,          \* the messages of the platforms' users
  ConnOf,            \* the connection each one is ingested on
  Reads,             \* the connections on which a process awaits responses
  Pings,             \* the connections whose process sends a first ping
  ChannelCapacity,   \* of ingest_tx and of response_tx (64)
  SocketCapacity,    \* parts of frames the socket buffers hold, each way
  BroadcastCapacity  \* of the event broadcast (128)

ASSUME ConnsAssumption ==
  /\ Messages \subseteq Nat \ {0} /\ ConnOf \in [Messages -> Conns]
  /\ DOMAIN PlatformOf = Conns /\ Reads \subseteq Conns /\ Pings \subseteq Conns
ASSUME CapacityAssumption ==
  /\ ChannelCapacity \in Nat \ {0} /\ SocketCapacity \in Nat \ {0}
  /\ BroadcastCapacity \in Nat \ {0}

VARIABLES
  conn,      \* "new", "open", or "gone" with its process
  arrived,   \* messages the processes have passed to ingest()
  ingestQ,   \* the client's ingest channel
  up,        \* frames on their way to the agent
  server,    \* the ingest loop of the connection
  held,      \* the frame it has read
  detected,  \* the platform is known to the forwarder
  asked,     \* messages the agent has got of each connection, in order
  bus,       \* responses broadcast, by the message they answer
  forwarder, \* the response forwarder of the connection
  cursor,    \* last response it has received
  missed,    \* responses it lagged behind
  lock,      \* who holds the write half
  down,      \* parts of frames on their way to the process
  partial,   \* the part the client's reader has of a frame
  inReader,  \* the response it has read and not yet passed on
  responseQ, \* the client's response channel
  delivered  \* responses the process has received, in order

clientVars == <<ingestQ, partial, inReader, responseQ>>
serverVars == <<server, held, detected>>
forwardVars == <<forwarder, cursor, missed>>
socketVars == <<up, down, lock>>
outside == <<conn, arrived, asked, bus, delivered>>
vars == <<clientVars, serverVars, forwardVars, socketVars, outside>>

Ping == 0 \* a ping among the messages' frames; its answer is a pong
Frame(kind, m) == [kind |-> kind, of |-> m]
Part(frame, n) == [frame |-> frame, part |-> n]
Reply(m) == Frame(IF m = Ping THEN "pong" ELSE "ack", m)
Platform(m) == PlatformOf[ConnOf[m]]
Platforms == {PlatformOf[c] : c \in Conns}
\* The connections of a platform's process.
ConnsFor(p) == {c \in Conns : PlatformOf[c] = p}
OnAll(v) == [c \in Conns |-> v]

Init ==
  /\ conn = OnAll("new") /\ arrived = {} /\ asked = OnAll(<<>>) /\ bus = <<>> /\ delivered = OnAll(<<>>)
  /\ ingestQ = OnAll(<<>>) /\ partial = OnAll(<<>>) /\ inReader = OnAll(<<>>)
  /\ responseQ = OnAll(<<>>)
  /\ server = OnAll("none") /\ held = OnAll(<<>>) /\ detected = OnAll(FALSE)
  /\ forwarder = OnAll("none") /\ cursor = OnAll(0) /\ missed = OnAll({})
  /\ up = OnAll(<<>>) /\ down = OnAll(<<>>) /\ lock = OnAll("free")

Open(c) == conn[c] = "open"

-----------------------------------------------------------------------------
(* The platform process and its client *)

\* A process connects, and the relay accepts: the forwarder's receiver exists
\* from here on.
Connect(c) ==
  /\ conn[c] = "new"
  /\ conn' = [conn EXCEPT ![c] = "open"]
  /\ server' = [server EXCEPT ![c] = "reading"]
  /\ forwarder' = [forwarder EXCEPT ![c] = "waiting"]
  /\ cursor' = [cursor EXCEPT ![c] = Len(bus)]
  /\ up' = [up EXCEPT ![c] = IF c \in Pings THEN <<Ping>> ELSE <<>>]
  /\ UNCHANGED <<clientVars, held, detected, missed, down, lock, arrived, asked, bus, delivered>>

\* ingest() once the channel has room.  A process takes messages from its
\* platform when all its connections are there.
IngestCall(m) == LET c == ConnOf[m] IN
  /\ \A d \in ConnsFor(PlatformOf[c]) : Open(d)
  /\ m \notin arrived /\ Len(ingestQ[c]) < ChannelCapacity
  /\ \A n \in Messages : ConnOf[n] = c /\ n < m => n \in arrived
  /\ arrived' = arrived \cup {m}
  /\ ingestQ' = [ingestQ EXCEPT ![c] = Append(@, m)]
  /\ UNCHANGED <<partial, inReader, responseQ, serverVars, forwardVars, socketVars,
                 conn, asked, bus, delivered>>

\* The client's writer task.
ClientWrite(c) ==
  /\ Open(c) /\ ingestQ[c] # <<>> /\ Len(up[c]) < SocketCapacity
  /\ up' = [up EXCEPT ![c] = Append(@, Head(ingestQ[c]))]
  /\ ingestQ' = [ingestQ EXCEPT ![c] = Tail(@)]
  /\ UNCHANGED <<partial, inReader, responseQ, serverVars, forwardVars, down, lock, outside>>

\* Mutation: acks and pongs are passed on as well.
ClientReadPassesAll(c) ==
  /\ Open(c) /\ inReader[c] = <<>> /\ down[c] # <<>>
  /\ down' = [down EXCEPT ![c] = Tail(@)]
  /\ IF partial[c] = <<>>
     THEN partial' = [partial EXCEPT ![c] = <<Head(down[c])>>] /\ inReader' = inReader
     ELSE /\ partial' = [partial EXCEPT ![c] = <<>>]
          /\ inReader' = [inReader EXCEPT ![c] = <<Head(down[c]).frame.of>>]
  /\ UNCHANGED <<ingestQ, responseQ, serverVars, forwardVars, up, lock, outside>>

\* The client's reader task: half a frame, or the rest of it.  A response is
\* to be passed on; acks and pongs are not.
ClientRead(c) ==
  /\ Open(c) /\ inReader[c] = <<>> /\ down[c] # <<>>
  /\ down' = [down EXCEPT ![c] = Tail(@)]
  /\ IF partial[c] = <<>>
     THEN partial' = [partial EXCEPT ![c] = <<Head(down[c])>>] /\ inReader' = inReader
     ELSE /\ partial' = [partial EXCEPT ![c] = <<>>]
          /\ inReader' = IF Head(down[c]).frame.kind = "response"
                         THEN [inReader EXCEPT ![c] = <<Head(down[c]).frame.of>>]
                         ELSE inReader
  /\ UNCHANGED <<ingestQ, responseQ, serverVars, forwardVars, up, lock, outside>>

ClientPass(c) ==
  /\ Open(c) /\ inReader[c] # <<>> /\ Len(responseQ[c]) < ChannelCapacity
  /\ responseQ' = [responseQ EXCEPT ![c] = @ \o inReader[c]]
  /\ inReader' = [inReader EXCEPT ![c] = <<>>]
  /\ UNCHANGED <<ingestQ, partial, serverVars, forwardVars, socketVars, outside>>

\* recv_response() in the process's own loop.
Deliver(c) ==
  /\ Open(c) /\ c \in Reads /\ responseQ[c] # <<>>
  /\ delivered' = [delivered EXCEPT ![c] = Append(@, Head(responseQ[c]))]
  /\ responseQ' = [responseQ EXCEPT ![c] = Tail(@)]
  /\ UNCHANGED <<ingestQ, partial, inReader, serverVars, forwardVars, socketVars,
                 conn, arrived, asked, bus>>

\* The process of a platform dies, with what its clients hold.
Die(p) ==
  /\ \E c \in ConnsFor(p) : Open(c)
  /\ LET Lost(v, empty) == [c \in Conns |-> IF PlatformOf[c] = p THEN empty ELSE v[c]] IN
     /\ conn' = Lost(conn, "gone")
     /\ ingestQ' = Lost(ingestQ, <<>>) /\ partial' = Lost(partial, <<>>)
     /\ inReader' = Lost(inReader, <<>>) /\ responseQ' = Lost(responseQ, <<>>)
     /\ down' = Lost(down, <<>>)
  /\ UNCHANGED <<serverVars, forwardVars, up, lock, arrived, asked, bus, delivered>>

-----------------------------------------------------------------------------
(* The ingest loop of a connection *)

\* The next frame; the first message makes the platform known to the forwarder.
Receive(c) ==
  /\ server[c] = "reading" /\ up[c] # <<>>
  /\ up' = [up EXCEPT ![c] = Tail(@)]
  /\ held' = [held EXCEPT ![c] = <<Head(up[c])>>]
  /\ detected' = [detected EXCEPT ![c] = @ \/ Head(up[c]) # Ping]
  /\ server' = [server EXCEPT ![c] = IF Head(up[c]) = Ping THEN "locking" ELSE "handing"]
  /\ UNCHANGED <<clientVars, forwardVars, down, lock, outside>>

\* event_tx.send, whose result is ignored.
Hand(c) ==
  /\ server[c] = "handing"
  /\ asked' = [asked EXCEPT ![c] = Append(@, held[c][1])]
  /\ server' = [server EXCEPT ![c] = "locking"]
  /\ UNCHANGED <<clientVars, held, detected, forwardVars, socketVars, conn, arrived, bus, delivered>>

\* Mutation: pings, too, are answered to registered platforms only.
LockForReplyRegistered(c) ==
  /\ server[c] = "locking" /\ lock[c] = "free" /\ detected[c]
  /\ lock' = [lock EXCEPT ![c] = "ingest"]
  /\ server' = [server EXCEPT ![c] = "length"]
  /\ UNCHANGED <<clientVars, held, detected, forwardVars, up, down, outside>>

LockForReply(c) ==
  /\ server[c] = "locking" /\ lock[c] = "free"
  /\ lock' = [lock EXCEPT ![c] = "ingest"]
  /\ server' = [server EXCEPT ![c] = "length"]
  /\ UNCHANGED <<clientVars, held, detected, forwardVars, up, down, outside>>

\* The two writes of write_frame: they wait for room in the socket, and fail
\* once the process has gone.
WriteReply(c) ==
  /\ server[c] \in {"length", "body"} /\ Open(c) /\ Len(down[c]) < SocketCapacity
  /\ LET reply == Reply(held[c][1]) IN
     IF server[c] = "length"
     THEN /\ down' = [down EXCEPT ![c] = Append(@, Part(reply, 1))]
          /\ server' = [server EXCEPT ![c] = "body"]
          /\ UNCHANGED <<lock, held>>
     ELSE /\ down' = [down EXCEPT ![c] = Append(@, Part(reply, 2))]
          /\ server' = [server EXCEPT ![c] = "reading"]
          /\ lock' = [lock EXCEPT ![c] = "free"] /\ held' = [held EXCEPT ![c] = <<>>]
  /\ UNCHANGED <<clientVars, detected, forwardVars, up, outside>>

\* EOF, or an error on the reply: handle_connection returns.
Hangup(c) ==
  /\ conn[c] = "gone"
  /\ \/ server[c] = "reading" /\ up[c] = <<>>
     \/ server[c] \in {"length", "body"}
  /\ server' = [server EXCEPT ![c] = "ended"] /\ held' = [held EXCEPT ![c] = <<>>]
  /\ lock' = [lock EXCEPT ![c] = IF @ = "ingest" THEN "free" ELSE @]
  /\ UNCHANGED <<clientVars, detected, forwardVars, up, down, outside>>

-----------------------------------------------------------------------------
(* The response forwarder of a connection *)

ForwarderStarts(c) ==
  /\ forwarder[c] = "waiting" /\ detected[c]
  /\ forwarder' = [forwarder EXCEPT ![c] = "receiving"]
  /\ UNCHANGED <<clientVars, serverVars, cursor, missed, socketVars, outside>>

\* Mutation: responses of every platform are forwarded.
TakeResponseOfAny(c) ==
  /\ forwarder[c] = "receiving" /\ cursor[c] < Len(bus)
  /\ Len(bus) - cursor[c] <= BroadcastCapacity
  /\ cursor' = [cursor EXCEPT ![c] = @ + 1]
  /\ forwarder' = [forwarder EXCEPT ![c] = "locking"]
  /\ UNCHANGED <<clientVars, serverVars, missed, socketVars, outside>>

\* Mutation: a response for another platform ends the forwarder.
TakeResponseOrEnd(c) ==
  /\ forwarder[c] = "receiving" /\ cursor[c] < Len(bus)
  /\ Len(bus) - cursor[c] <= BroadcastCapacity
  /\ cursor' = [cursor EXCEPT ![c] = @ + 1]
  /\ forwarder' = [forwarder EXCEPT ![c] =
                     IF Platform(bus[cursor[c] + 1]) = PlatformOf[c] THEN "locking" ELSE "ended"]
  /\ UNCHANGED <<clientVars, serverVars, missed, socketVars, outside>>

\* The next response on the broadcast: taken if it is for this platform.
TakeResponse(c) ==
  /\ forwarder[c] = "receiving" /\ cursor[c] < Len(bus)
  /\ Len(bus) - cursor[c] <= BroadcastCapacity
  /\ cursor' = [cursor EXCEPT ![c] = @ + 1]
  /\ forwarder' = IF Platform(bus[cursor[c] + 1]) = PlatformOf[c]
                  THEN [forwarder EXCEPT ![c] = "locking"] ELSE forwarder
  /\ UNCHANGED <<clientVars, serverVars, missed, socketVars, outside>>

ForwarderLags(c) ==
  /\ forwarder[c] = "receiving" /\ Len(bus) - cursor[c] > BroadcastCapacity
  /\ LET oldest == Len(bus) - BroadcastCapacity IN
     /\ missed' = [missed EXCEPT ![c] = @ \cup {bus[i] : i \in cursor[c] + 1 .. oldest}]
     /\ cursor' = [cursor EXCEPT ![c] = oldest]
  /\ UNCHANGED <<clientVars, serverVars, forwarder, socketVars, outside>>

\* Mutation: a response is written while the ingest loop may be writing.
LockForResponseShared(c) ==
  /\ forwarder[c] = "locking"
  /\ lock' = [lock EXCEPT ![c] = "forward"]
  /\ forwarder' = [forwarder EXCEPT ![c] = "length"]
  /\ UNCHANGED <<clientVars, serverVars, cursor, missed, up, down, outside>>

LockForResponse(c) ==
  /\ forwarder[c] = "locking" /\ lock[c] = "free"
  /\ lock' = [lock EXCEPT ![c] = "forward"]
  /\ forwarder' = [forwarder EXCEPT ![c] = "length"]
  /\ UNCHANGED <<clientVars, serverVars, cursor, missed, up, down, outside>>

WriteResponse(c) ==
  /\ forwarder[c] \in {"length", "body"} /\ Open(c) /\ Len(down[c]) < SocketCapacity
  /\ LET response == Frame("response", bus[cursor[c]]) IN
     IF forwarder[c] = "length"
     THEN /\ down' = [down EXCEPT ![c] = Append(@, Part(response, 1))]
          /\ forwarder' = [forwarder EXCEPT ![c] = "body"]
          /\ lock' = lock
     ELSE /\ down' = [down EXCEPT ![c] = Append(@, Part(response, 2))]
          /\ forwarder' = [forwarder EXCEPT ![c] = "receiving"]
          /\ lock' = [lock EXCEPT ![c] = "free"]
  /\ UNCHANGED <<clientVars, serverVars, cursor, missed, up, outside>>

\* The write fails, or the connection ended before its platform was known.
ForwarderEnds(c) ==
  /\ \/ forwarder[c] \in {"length", "body"} /\ conn[c] = "gone"
     \/ forwarder[c] = "waiting" /\ server[c] = "ended" /\ ~detected[c]
  /\ forwarder' = [forwarder EXCEPT ![c] = "ended"]
  /\ lock' = [lock EXCEPT ![c] = IF @ = "forward" THEN "free" ELSE @]
  /\ UNCHANGED <<clientVars, serverVars, cursor, missed, up, down, outside>>

-----------------------------------------------------------------------------
\* The agent answers a message it has got.
Answer(m) ==
  /\ m \in ToSet(asked[ConnOf[m]]) /\ \A i \in 1 .. Len(bus) : bus[i] # m
  /\ bus' = Append(bus, m)
  /\ UNCHANGED <<clientVars, serverVars, forwardVars, socketVars, conn, arrived, asked, delivered>>

ClientStep(c) == ClientWrite(c) \/ ClientRead(c) \/ ClientPass(c) \/ Deliver(c)
IngestStep(c) == Receive(c) \/ Hand(c) \/ LockForReply(c) \/ WriteReply(c) \/ Hangup(c)
ForwardStep(c) ==
  \/ ForwarderStarts(c) \/ TakeResponse(c) \/ ForwarderLags(c)
  \/ LockForResponse(c) \/ WriteResponse(c) \/ ForwarderEnds(c)

Next ==
  \/ \E c \in Conns : Connect(c) \/ ClientStep(c) \/ IngestStep(c) \/ ForwardStep(c)
  \/ \E p \in Platforms : Die(p)
  \/ \E m \in Messages : IngestCall(m) \/ Answer(m)

Spec == Init /\ [][Next]_vars
\* Every task is polled while it can go on, and the lock is handed out in the
\* order it was asked for.  No message need come, and no answer.
Fairness ==
  \A c \in Conns :
    /\ WF_vars(ClientWrite(c)) /\ WF_vars(ClientRead(c) \/ ClientPass(c)) /\ WF_vars(Deliver(c))
    /\ WF_vars(IngestStep(c)) /\ SF_vars(LockForReply(c))
    /\ WF_vars(ForwardStep(c)) /\ SF_vars(LockForResponse(c))
FairSpec == Spec /\ Fairness

-----------------------------------------------------------------------------
(* Properties *)

\* Types, and the capacities of the channels and of the socket.
TypeOK ==
  /\ lock \in [Conns -> {"free", "ingest", "forward"}]
  /\ conn \in [Conns -> {"new", "open", "gone"}]
  /\ server \in [Conns -> {"none", "reading", "handing", "locking", "length", "body", "ended"}]
  /\ forwarder \in [Conns -> {"none", "waiting", "receiving", "locking", "length", "body", "ended"}]
  /\ arrived \subseteq Messages /\ bus \in Seq(Messages)
  /\ \A c \in Conns :
       /\ asked[c] \in Seq(Messages)
       /\ ingestQ[c] \in Seq(Messages) /\ Len(ingestQ[c]) <= ChannelCapacity
       /\ responseQ[c] \in Seq(Messages) /\ Len(responseQ[c]) <= ChannelCapacity
       /\ Len(up[c]) <= SocketCapacity /\ Len(down[c]) <= SocketCapacity
       /\ cursor[c] <= Len(bus) /\ missed[c] \subseteq Messages /\ delivered[c] \in Seq(Messages)

\* The parts the process has still to read: frames are never interleaved, though
\* two tasks write them.
Incoming(c) == partial[c] \o down[c]
FramesWhole ==
  \A c \in Conns : \A i \in 1 .. Len(Incoming(c)) :
    /\ Incoming(c)[i].part = IF i % 2 = 1 THEN 1 ELSE 2
    /\ i % 2 = 0 => Incoming(c)[i].frame = Incoming(c)[i - 1].frame

\* What a process is sent, and hands to its users, answers messages of its own
\* platform.
OwnPlatform ==
  \A c \in Conns :
    /\ \A m \in ToSet(delivered[c]) \cup ToSet(responseQ[c]) : Platform(m) = PlatformOf[c]
    /\ \A i \in 1 .. Len(down[c]) : down[c][i].frame.kind = "response" =>
         Platform(down[c][i].frame.of) = PlatformOf[c]

\* Between the users and the agent the relay is what RelayService promises:
\* whatever is queued, interleaved, lagged behind or lost with a process, no
\* message or answer overtakes another on its connection or comes twice.
Service == INSTANCE RelayService WITH taken <- arrived, answers <- bus, given <- delivered
ImplementsService == Service!Spec

\* A connection whose process does not read it is at a standstill once the
\* responses have filled the way back: the reader task has one for which the
\* channel has no room, so the socket stays full, and whoever holds the write
\* half waits until the process dies.
Clogged(c) ==
  /\ c \notin Reads /\ inReader[c] # <<>> /\ Len(responseQ[c]) = ChannelCapacity
  /\ Len(down[c]) = SocketCapacity /\ lock[c] # "free"

\* What has been ingested on a connection and has not reached the agent.
Backlog(c) == {m \in arrived : ConnOf[m] = c} \ ToSet(asked[c])
\* "Forwards inbound Ingest events onto the agent EventBus" (server.rs): all that
\* a process ingests reaches the agent, unless the process dies, or does not read
\* the connection (as the Discord and the Telegram workers do not) and the
\* responses to it have clogged it.
IngestsReachAgent ==
  \A c \in Conns :
    Backlog(c) # {} ~> Backlog(c) = {} \/ conn[c] = "gone" \/ Clogged(c)

\* The connections on which a process may learn of the answer to m.
Readers(m) == ConnsFor(Platform(m)) \cap Reads

\* "Sends back Response frames for any Response that matches the platform served
\* by that connection" (server.rs): where a process reads a connection, an answer
\* reaches the users of its platform through one, unless the process dies or that
\* connection has lagged.
AnswersReachUsers ==
  \A m \in {n \in Messages : Readers(n) # {}} : m \in ToSet(bus) ~>
    \E c \in Readers(m) : m \in ToSet(delivered[c]) \cup missed[c] \/ conn[c] = "gone"
=============================================================================
