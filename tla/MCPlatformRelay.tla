---------------------------- MODULE MCPlatformRelay ----------------------------
(* PlatformRelay for the ways the platform processes use it: a connection that *)
(* ingests and is read, as the selfbot has; one that ingests and is never      *)
(* read, as the Telegram worker has; or that one and another to read, as the   *)
(* Discord worker has.                                                         *)
EXTENDS PlatformRelay, TLC

CONSTANTS c1, c2

OwnPlatforms == c1 :> "selfbot" @@ c2 :> "telegram"
SamePlatform == c1 :> "discord" @@ c2 :> "discord"
OneAndMany == 1 :> c1 @@ 2 :> c2 @@ 3 :> c2 @@ 4 :> c2 @@ 5 :> c2
TwoOnFirst == 1 :> c1 @@ 2 :> c1

\* A bound on what users write: one message on each connection; or, when the
\* selfbot has come and gone without one, the four on the other that it takes to
\* clog it, where its channel and its socket hold one.
FewMessages ==
  \/ arrived' \subseteq {1, 2}
  \/ server[c1] = "ended" /\ forwarder[c1] = "ended" /\ 1 \notin arrived
BoundedSpec == Init /\ [][Next /\ FewMessages]_vars /\ Fairness
=============================================================================
