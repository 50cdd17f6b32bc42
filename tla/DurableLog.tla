------------------------------ MODULE DurableLog ------------------------------
(***************************************************************************)
(* What recording promises whatever happens between the worker, the writer *)
(* and the store: messages are numbered as they are taken, the log only    *)
(* grows, in the order of the numbers, and a message is decided once:      *)
(* logged or dropped, never both and never reconsidered.                   *)
(***************************************************************************)
EXTENDS Integers, Sequences

VARIABLES taken, log, dropped
vars == <<taken, log, dropped>>

Undecided == {m \in 1 .. taken : m \notin dropped /\ \A i \in 1 .. Len(log) : log[i] # m}

Init == taken = 0 /\ log = <<>> /\ dropped = {}

Take == taken' = taken + 1 /\ UNCHANGED <<log, dropped>>

\* Some undecided messages are logged and others dropped.
Decide ==
  /\ UNCHANGED taken
  /\ Len(log') >= Len(log) /\ SubSeq(log', 1, Len(log)) = log
  /\ \A i \in Len(log) + 1 .. Len(log') :
       log'[i] \in Undecided \ dropped' /\ (i > 1 => log'[i - 1] < log'[i])
  /\ dropped \subseteq dropped' /\ dropped' \ dropped \subseteq Undecided

Next == Take \/ Decide
Spec == Init /\ [][Next]_vars
=============================================================================
