----------------------------- MODULE RelayService -----------------------------
(***************************************************************************)
(* What the relay promises between the platforms' users and the agent:     *)
(* what a process takes on a connection reaches the agent once and in      *)
(* order, none skipped, although the last may be lost; and what a process  *)
(* gets back are answers to its own platform's messages, each once and in  *)
(* the order they were given, although some may be left out.               *)
(***************************************************************************)
EXTENDS Integers, Sequences, SequencesExt

CONSTANTS Conns, PlatformOf, Messages, ConnOf

VARIABLES
  taken,    \* messages the processes have taken
  asked,    \* those of each connection that have reached the agent, in order
  answers,  \* the answers, in order, by the message they answer
  given     \* those that each connection's process has got, in order

vars == <<taken, asked, answers, given>>

Init ==
  /\ taken = {} /\ asked = [c \in Conns |-> <<>>] /\ answers = <<>>
  /\ given = [c \in Conns |-> <<>>]

\* The messages before m on its connection.
Before(m) == {n \in Messages : ConnOf[n] = ConnOf[m] /\ n < m}

Take(m) ==
  /\ m \notin taken /\ Before(m) \subseteq taken
  /\ taken' = taken \cup {m} /\ UNCHANGED <<asked, answers, given>>

Ask(m) == LET c == ConnOf[m] IN
  /\ m \in taken \ ToSet(asked[c]) /\ Before(m) \subseteq ToSet(asked[c])
  /\ asked' = [asked EXCEPT ![c] = Append(@, m)] /\ UNCHANGED <<taken, answers, given>>

Answer(m) ==
  /\ m \in ToSet(asked[ConnOf[m]]) \ ToSet(answers)
  /\ answers' = Append(answers, m) /\ UNCHANGED <<taken, asked, given>>

\* An answer that comes after all that the process has got.
Give(c, i) ==
  /\ PlatformOf[ConnOf[answers[i]]] = PlatformOf[c]
  /\ \A j \in i .. Len(answers) : answers[j] \notin ToSet(given[c])
  /\ given' = [given EXCEPT ![c] = Append(@, answers[i])]
  /\ UNCHANGED <<taken, asked, answers>>

Next ==
  \/ \E m \in Messages : Take(m) \/ Ask(m) \/ Answer(m)
  \/ \E c \in Conns : \E i \in 1 .. Len(answers) : Give(c, i)

Spec == Init /\ [][Next]_vars
=============================================================================
