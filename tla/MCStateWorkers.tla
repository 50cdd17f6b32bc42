---------------------------- MODULE MCStateWorkers ----------------------------
(* StateWorkers with two messages, delivered again and again.                 *)
EXTENDS StateWorkers

Raw(id, mention, dm, tokens) ==
  [type |-> "raw", id |-> id, mention |-> mention, dm |-> dm, cli |-> FALSE, tokens |-> tokens]
Warmth(op) == [key |-> "warmth", op |-> op]
SomeEvents ==
  {Raw(1, TRUE, FALSE, <<Warmth("delta"), Warmth("malformed")>>),
   Raw(2, TRUE, FALSE, <<Warmth("delta"), Warmth("set")>>),
   Raw(NoId, FALSE, TRUE, <<>>),
   [type |-> "response", id |-> 1, cloud |-> TRUE, reply_to |-> TRUE],
   [type |-> "intent", id |-> 1, confident |-> TRUE, intent |-> "insult",
    sentiment |-> "negative"]}
SomeTeams == {{w} : w \in Workers}
=============================================================================
