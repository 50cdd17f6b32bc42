------------------------------ MODULE McpServer ------------------------------
(***************************************************************************)
(* The MCP server (services/mcp/src): its worker, the JSON-RPC session on  *)
(* stdin and stdout, the HTTP endpoint that tools are called by, the       *)
(* dispatcher that times a call out, and the loop of the web_fetch tool.   *)
(*                                                                         *)
(* A session handles one line at a time; HTTP requests run concurrently.   *)
(* What a client is told is the kind of its answer.  AgentRuntime has the  *)
(* supervisor that waits for the worker, SocialGraph what the social tools *)
(* read.                                                                   *)
(***************************************************************************)
EXTENDS Integers, Sequences, SequencesExt

CONSTANTS
  Posts,        \* HTTP requests, each made at most once
  Calls,        \* what tools are called with: see Call
  Lines,        \* what a client may write on stdin: see Line
  Tools,        \* the tools that the enabled providers register
  Urls, Public, \* addresses, and those that validate_public_url accepts
  MaxRedirects, \* max_redirects
  MaxBytes,     \* max_bytes, in chunks
  MaxLines      \* bound on the lines written

ToolNames == {"social", "run_shell", "search_web", "web_fetch"}
\* name is "" when blank; object: the input is an object; fits: it has no property
\* that the schema does not know; valid: the tool can read it.
Call == [name : STRING, object : BOOLEAN, fits : BOOLEAN, valid : BOOLEAN, url : Urls]
\* An unreadable line is not text.  id is 0 when it is missing or null, method ""
\* when it is missing; object: the params are what the method wants.
Line == [kind : {"unreadable", "blank", "garbage", "invalid", "request"}, id : Nat,
         method : STRING, object : BOOLEAN, call : Call]

Stdio == "stdio"
Processes == Posts \cup {Stdio}

ASSUME CallsAssumption ==
  /\ Stdio \notin Posts /\ Tools \subseteq ToolNames /\ Public \subseteq Urls
  /\ \A c \in Calls : c \in Call
  /\ \A l \in Lines : l \in Line
ASSUME BoundsAssumption ==
  MaxRedirects \in Nat \ {0} /\ MaxBytes \in Nat \ {0} /\ MaxLines \in Nat

VARIABLES
  transport,   \* "http" or "stdio"
  worker,      \* where McpWorker::start is
  hears,       \* it has subscribed to the shutdown signal
  signalled,   \* which has been sent
  input,       \* lines written and not read yet, numbered
  written,     \* how many have been
  closed,      \* the client has closed stdin
  session,     \* where serve_stdio is: [stage, at, answer]
  initialized,
  output,      \* the answers written on stdout: [of, answer]
  post,        \* what each HTTP request has: "new", "waiting", its answer, or "lost"
  call,        \* the call each process executes, or <<>>
  fetch        \* the page it fetches, or <<>>

workerVars == <<transport, worker, hears, signalled>>
clientVars == <<input, written, closed>>
sessionVars == <<session, initialized, output>>
callVars == <<call, fetch>>
vars == <<workerVars, clientVars, sessionVars, post, callVars>>

Reading == [stage |-> "reading", at |-> <<>>, answer |-> ""]
Session(stage, at, answer) == [stage |-> stage, at |-> at, answer |-> answer]

Init ==
  /\ transport \in {"http", "stdio"} /\ worker \in {"disabled", "starting"}
  /\ hears = FALSE /\ signalled = FALSE
  /\ input = <<>> /\ written = 0 /\ closed = FALSE
  /\ session = Reading /\ initialized = FALSE /\ output = <<>>
  /\ post = [p \in Posts |-> "new"]
  /\ call = [p \in Processes |-> <<>>] /\ fetch = [p \in Processes |-> <<>>]

-----------------------------------------------------------------------------
(* The worker *)

\* The address is bad or taken.
BindFails ==
  /\ worker = "starting" /\ transport = "http" /\ worker' = "failed"
  /\ UNCHANGED <<transport, hears, signalled, clientVars, sessionVars, post, callVars>>
\* Serving comes first, then the subscription; stdio never subscribes.
Serve ==
  /\ worker = "starting" /\ worker' = "serving"
  /\ hears' = (transport = "http" /\ ~signalled)
  /\ UNCHANGED <<transport, signalled, clientVars, sessionVars, post, callVars>>
Signal ==
  /\ ~signalled /\ signalled' = TRUE
  /\ UNCHANGED <<transport, worker, hears, clientVars, sessionVars, post, callVars>>
\* Nothing new is accepted; what is in flight goes on ...
Drain ==
  /\ worker = "serving" /\ signalled /\ hears /\ worker' = "draining"
  /\ UNCHANGED <<transport, hears, signalled, clientVars, sessionVars, post, callVars>>
\* ... and the worker leaves when it is done, or after two seconds; what is still
\* in flight then goes on beside it, until the process ends.
Leave ==
  /\ worker = "draining" /\ worker' = "stopped"
  /\ UNCHANGED <<transport, hears, signalled, clientVars, sessionVars, post, callVars>>

\* The supervisor's shutdown returns once every worker has left, or ten seconds after
\* it began to wait for one that does not listen; the process then ends with every
\* connection, session and call in it.  A call's time may be longer than all that.
ProcessEnds ==
  /\ signalled /\ (worker \in {"disabled", "stopped", "failed"} \/ (worker # "ended" /\ ~hears))
  /\ worker' = "ended" /\ session' = Session("ended", <<>>, "")
  /\ post' = [p \in Posts |-> IF post[p] = "waiting" THEN "lost" ELSE post[p]]
  /\ call' = [p \in Processes |-> <<>>] /\ fetch' = [p \in Processes |-> <<>>]
  /\ UNCHANGED <<transport, hears, signalled, clientVars, initialized, output>>

-----------------------------------------------------------------------------
(* The dispatcher *)

\* Everything that is refused before the tool runs.
Refusal(c) ==
  IF c.name = "" THEN "bad" ELSE IF c.name \notin Tools THEN "unknown"
  ELSE IF ~(c.object /\ c.fits) THEN "bad" ELSE "none"
\* A session looks at the arguments before it looks for the tool.
RefusalOnStdin(c) == IF c.name = "" \/ ~c.object THEN "bad" ELSE Refusal(c)
Running(p) == call[p] # <<>>
Named(p, name) == Running(p) /\ call[p][1].name = name

Run(p, c) ==
  /\ call' = [call EXCEPT ![p] = <<c>>]
  /\ fetch' = [fetch EXCEPT ![p] =
       IF c.name = "web_fetch" /\ c.valid
       THEN <<[stage |-> "send", url |-> c.url, redirects |-> 0, requests |-> 0, bytes |-> 0]>>
       ELSE <<>>]

\* What the session or the request does with the outcome of its call.  A
\* notification's is dropped.
Conclude(p, outcome) ==
  IF p = Stdio
  THEN /\ session' = IF session.at[1].line.id = 0 THEN Reading
                     ELSE Session("writing", session.at, outcome)
       /\ UNCHANGED post
  ELSE post' = [post EXCEPT ![p] = outcome] /\ UNCHANGED session
Drop(p) ==
  /\ call' = [call EXCEPT ![p] = <<>>] /\ fetch' = [fetch EXCEPT ![p] = <<>>]
Finish(p, outcome) ==
  /\ Running(p) /\ Conclude(p, outcome) /\ Drop(p)
  /\ UNCHANGED <<workerVars, clientVars, initialized, output>>

\* The provider that knows the name answers, with an error for input that it
\* cannot read; run_shell always has one, and a page is fetched below.
Executed(p) ==
  /\ Running(p) /\ fetch[p] = <<>>
  /\ \E outcome \in {"ok", "bad"} :
       /\ Finish(p, outcome)
       /\ outcome = "ok" => ~Named(p, "run_shell") /\ call[p][1].valid

\* Mutation: only what waits on the graph is given up.
TimesOutSocial(p) == Named(p, "social") /\ Finish(p, "timeout")
\* The time is up: the tool is dropped wherever it waits.
TimesOut(p) == Finish(p, "timeout")

-----------------------------------------------------------------------------
(* web_fetch *)

Fetching(p, stage) == fetch[p] # <<>> /\ fetch[p][1].stage = stage
Fetch(p, new) ==
  /\ fetch' = [fetch EXCEPT ![p] =
       <<[f \in DOMAIN @[1] |-> IF f \in DOMAIN new THEN new[f] ELSE @[1][f]]>>]
  /\ UNCHANGED <<workerVars, clientVars, sessionVars, post, call>>

\* The address is checked before each request.
Request(p) ==
  /\ Fetching(p, "send")
  /\ IF fetch[p][1].url \in Public
     THEN Fetch(p, [stage |-> "wait", requests |-> fetch[p][1].requests + 1])
     ELSE Finish(p, "bad")

\* Mutation: one redirect too many.
MayRedirectOnce(p) == fetch[p][1].redirects <= MaxRedirects
MayRedirect(p) == fetch[p][1].redirects < MaxRedirects
\* A redirection is followed while there are some left.
Redirected(p) ==
  \E next \in Urls :
    /\ Fetching(p, "wait")
    /\ IF MayRedirect(p) /\ next \in Public
       THEN Fetch(p, [stage |-> "send", url |-> next, redirects |-> fetch[p][1].redirects + 1])
       ELSE Finish(p, "bad")

\* The page begins; its body is read while it fits, to its end.
PageBegins(p) == Fetching(p, "wait") /\ Fetch(p, [stage |-> "body"])
Chunk(p) ==
  /\ Fetching(p, "body")
  /\ IF fetch[p][1].bytes < MaxBytes THEN Fetch(p, [bytes |-> fetch[p][1].bytes + 1])
     ELSE Finish(p, "bad")
PageEnds(p) == Fetching(p, "body") /\ Finish(p, "ok")
\* No answer, no location, an error status, a content type that is not text.
FetchFails(p) == (Fetching(p, "wait") \/ Fetching(p, "body")) /\ Finish(p, "bad")

-----------------------------------------------------------------------------
(* HTTP *)

\* post_tool_call: a body that does not parse is refused like a call is.
Post(p) ==
  \E c \in Calls :
    /\ transport = "http" /\ worker = "serving" /\ post[p] = "new"
    /\ IF Refusal(c) = "none"
       THEN post' = [post EXCEPT ![p] = "waiting"] /\ Run(p, c)
       ELSE post' = [post EXCEPT ![p] = Refusal(c)] /\ UNCHANGED callVars
    /\ UNCHANGED <<workerVars, clientVars, sessionVars>>

-----------------------------------------------------------------------------
(* The session on stdin and stdout *)

Write(line) ==
  /\ transport = "stdio" /\ ~closed /\ written < MaxLines
  /\ written' = written + 1 /\ input' = Append(input, [number |-> written + 1, line |-> line])
  /\ UNCHANGED <<workerVars, closed, sessionVars, post, callVars>>
Close ==
  /\ transport = "stdio" /\ ~closed /\ closed' = TRUE
  /\ UNCHANGED <<workerVars, input, written, sessionVars, post, callVars>>

Known == {"ping", "tools/list", "tools/get", "resources/list", "prompts/list", "tools/call",
          "logging/setLevel"}
\* What a request gets without running a tool; "none" for what gets nothing, and
\* for a call that runs.
Immediate(l) ==
  CASE l.kind = "blank" -> "none"
    [] l.kind = "garbage" -> "parse_error"
    [] l.kind = "invalid" \/ l.method = "" -> "invalid_request"
    [] l.method = "initialize" ->
         IF ~l.object THEN "bad" ELSE IF initialized THEN "already" ELSE "ok"
    [] l.method = "notifications/initialized" -> "none"
    [] l.method \notin Known -> "unknown"
    [] ~initialized -> "not_initialized"
    [] ~l.object -> "bad"
    [] l.method = "tools/call" -> RefusalOnStdin(l.call)
    [] l.method = "tools/get" ->
         IF l.call.name = "" THEN "bad" ELSE IF l.call.name \in Tools THEN "ok" ELSE "unknown"
    [] OTHER -> "ok"
\* Lines that no request can be read from are answered although they have no id.
Answered(l) ==
  /\ l.kind \notin {"blank", "unreadable"}
  /\ l.id # 0 \/ l.kind # "request" \/ l.method = ""
  /\ ~(l.kind = "request" /\ l.method = "notifications/initialized")

Read ==
  LET at == Head(input)
      l == at.line
      runs == /\ l.kind = "request" /\ l.method = "tools/call"
              /\ initialized /\ l.object /\ RefusalOnStdin(l.call) = "none"
  IN  /\ worker = "serving" /\ session.stage = "reading" /\ input # <<>>
      /\ l.kind # "unreadable" /\ input' = Tail(input)
      /\ initialized' = (initialized \/ (l.kind = "request" /\ l.method = "initialize" /\ l.object))
      /\ IF runs THEN session' = Session("calling", <<at>>, "") /\ Run(Stdio, l.call)
         ELSE /\ session' = IF Answered(l) THEN Session("writing", <<at>>, Immediate(l))
                            ELSE Reading
              /\ UNCHANGED callVars
      /\ UNCHANGED <<workerVars, written, closed, output, post>>

Respond ==
  /\ session.stage = "writing"
  /\ output' = Append(output, [of |-> session.at[1].number, answer |-> session.answer])
  /\ session' = Reading
  /\ UNCHANGED <<workerVars, clientVars, initialized, post, callVars>>

\* The end of stdin ends the server; a line that is not text, and a client that no
\* longer reads, end it with an error.
Ended(stage) ==
  /\ transport = "stdio" /\ session' = Session("ended", <<>>, "") /\ worker' = stage
  /\ UNCHANGED <<transport, hears, signalled, clientVars, initialized, output, post, callVars>>
EndOfInput ==
  worker = "serving" /\ session.stage = "reading" /\ input = <<>> /\ closed /\ Ended("stopped")
ReadFails ==
  /\ worker = "serving" /\ session.stage = "reading"
  /\ input # <<>> /\ Head(input).line.kind = "unreadable" /\ Ended("failed")
WriteFails == session.stage = "writing" /\ closed /\ Ended("failed")

-----------------------------------------------------------------------------
FetchStep(p) ==
  Request(p) \/ Redirected(p) \/ PageBegins(p) \/ Chunk(p) \/ PageEnds(p) \/ FetchFails(p)
SessionStep == Read \/ Respond \/ EndOfInput \/ ReadFails

Next ==
  \/ BindFails \/ Serve \/ Signal \/ Drain \/ Leave \/ ProcessEnds
  \/ \E p \in Processes : Executed(p) \/ TimesOut(p) \/ FetchStep(p)
  \/ \E p \in Posts : Post(p)
  \/ \E line \in Lines : Write(line)
  \/ Close \/ SessionStep \/ WriteFails

Spec == Init /\ [][Next]_vars
\* Timers fire and the session is polled, while the process lives; no tool and no web
\* server need answer, no client need write, close or call, and no process need end.
Fairness ==
  /\ WF_vars(BindFails \/ Serve) /\ WF_vars(Drain) /\ WF_vars(Leave)
  /\ WF_vars(SessionStep)
  /\ \A p \in Processes : WF_vars(TimesOut(p))
FairSpec == Spec /\ Fairness

-----------------------------------------------------------------------------
(* Properties *)

\* A page is fetched only for a call that is still waited for; at most one request
\* more than the redirects allowed is made for it, each to an address that the
\* server accepts, and never more is read than fits.
FetchIsBounded ==
  \A p \in Processes : fetch[p] # <<>> =>
    LET f == fetch[p][1] IN
    /\ Named(p, "web_fetch")
    /\ IF p = Stdio THEN session.stage = "calling" ELSE post[p] = "waiting"
    /\ f.requests <= MaxRedirects + 1 /\ f.bytes <= MaxBytes
    /\ f.stage # "send" => f.url \in Public

\* Every request is answered unless the process ends first, although a tool may hang
\* and the worker may be draining or gone: the HTTP requests in flight, and in a
\* session that goes on each line in its turn that wants an answer, even when the
\* one before it hangs.  A call whose time is longer than the shutdown's is lost.
Requests == {i \in DOMAIN input : Answered(input[i].line)}
Told(n) == \E i \in DOMAIN output : output[i].of = n
RequestsAnswered ==
  /\ \A p \in Posts :
       post[p] = "waiting" ~> post[p] \in {"ok", "bad", "timeout"} \/ worker = "ended"
  /\ \A n \in 1 .. MaxLines :
       (worker = "serving" /\ \E i \in Requests : input[i].number = n)
         ~> Told(n) \/ worker \in {"failed", "ended"}
=============================================================================
