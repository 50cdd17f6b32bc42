----------------------------- MODULE MCSocialGraph -----------------------------
(* SocialGraph with two spellings of one user, queried by one caller.         *)
EXTENDS SocialGraph, TLC

CONSTANTS u, v, uv

OneKey == u :> uv @@ v :> uv
Strict ==
  {[name |-> v, hint |-> <<150>>, limit |-> <<-1>>, force |-> <<>>, allow |-> <<FALSE>>],
   [name |-> u, hint |-> <<>>, limit |-> <<>>, force |-> <<TRUE>>, allow |-> <<>>]}
Delta(affinity, trust, tension) ==
  [f \in Fields |-> CASE f = "affinity" -> affinity [] f = "trust" -> trust
                      [] f = "tension" -> tension [] OTHER -> 0]
OneUpdate ==
  << [name |-> u, hint |-> 10, delta |-> Delta(40, -45, 15), illusion |-> <<Delta(20, 0, 0)>>] >>
Power[n \in Nat] == IF n = 0 THEN 1 ELSE 99 * Power[n - 1]
Hundreds[n \in Nat] == IF n = 0 THEN 1 ELSE 100 * Hundreds[n - 1]
\* In hundredths.
Daily(value, days) == (value * Power[days]) \div Hundreds[days]
Before == uv :> Delta(80, 30, 45)
=============================================================================
