---------------------------- MODULE MCDialogueTurn ----------------------------
(* DialogueTurn with one turn, two evaluators, and a cache that overflows.    *)
EXTENDS DialogueTurn

OneTurn == { <<"m", "dialogue">>, <<"m", "affect">>, <<"n", "affect">> }

\* User 2 writes after users 1 and 3, and only the first two may be asked about.
Talk == << [role |-> "user", name |-> 3], [role |-> "user", name |-> 1],
           [role |-> "assistant", name |-> 0] >>
Base == [tools |-> TRUE, graph |-> TRUE, legend |-> TRUE, state |-> TRUE, images |-> TRUE,
         strong |-> FALSE, continuity |-> FALSE, recent |-> TRUE, short |-> TRUE,
         dm |-> FALSE, user |-> 2, history |-> Talk]
ManySetups ==
  { Base,
    [Base EXCEPT !.tools = FALSE, !.legend = FALSE],
    [Base EXCEPT !.graph = FALSE, !.state = FALSE],
    [Base EXCEPT !.recent = FALSE, !.continuity = TRUE],
    [Base EXCEPT !.strong = TRUE, !.history = <<>>] }

Ask(id, tool, user) == [id |-> id, tool |-> tool, parses |-> TRUE, user |-> user]
ManyReplies ==
  { <<>>,
    << Ask(<<>>, "summary", 2) >>,
    << Ask(<<7>>, "summary", 1), Ask(<<8>>, "summary", 2), Ask(<<9>>, "summary", 1) >>,
    << Ask(<<8>>, "summary", 1), Ask(<<9>>, "summary", 3) >> }
=============================================================================
