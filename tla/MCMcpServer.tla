----------------------------- MODULE MCMcpServer -----------------------------
(* McpServer with two HTTP requests, or four lines on stdin.                  *)
EXTENDS McpServer

Call1(name, fits, valid, url) ==
  [name |-> name, object |-> TRUE, fits |-> fits, valid |-> valid, url |-> url]
Fetch1 == Call1("web_fetch", TRUE, TRUE, "a")
Social1 == Call1("social", TRUE, TRUE, "a")
ManyCalls ==
  { Fetch1, Social1, Call1("web_fetch", TRUE, TRUE, "local"), Call1("run_shell", TRUE, TRUE, "a"),
    Call1("web_fetch", FALSE, TRUE, "a"), Call1("search_web", TRUE, TRUE, "a") }

Line1(id, method, of) ==
  [kind |-> "request", id |-> id, method |-> method, object |-> TRUE, call |-> of]
ManyLines ==
  { Line1(5, "initialize", Social1),
    Line1(0, "notifications/initialized", Social1),
    Line1(6, "tools/call", Fetch1),
    Line1(7, "tools/call", Social1),
    Line1(0, "tools/call", Social1),
    Line1(8, "tools/call", [Call1("search_web", TRUE, TRUE, "a") EXCEPT !.object = FALSE]),
    Line1(9, "tools/get", Social1),
    [Line1(0, "ping", Social1) EXCEPT !.kind = "unreadable"],
    [Line1(0, "ping", Social1) EXCEPT !.kind = "garbage"] }
=============================================================================
