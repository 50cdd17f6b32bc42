----------------------------- MODULE MCStateStore -----------------------------
(* Small schemas and requests for StateStore: two base dimensions and one    *)
(* derived from both.                                                        *)
EXTENDS StateStore, TLC

CONSTANTS stability, energy, clarity

MCRangeMin == (stability :> -1) @@ (energy :> 0) @@ (clarity :> 0)
MCRangeMax == (stability :> 2) @@ (energy :> 1) @@ (clarity :> 2)
MCBaseline == (stability :> 0) @@ (energy :> 1) @@ (clarity :> 0)
MCDefault == (stability :> 0) @@ (energy :> 1) @@ (clarity :> 1)
MCMaxDelta == (stability :> 2) @@ (energy :> 0) @@ (clarity :> 0)
MCDriftDiv == (stability :> 2) @@ (energy :> 1) @@ (clarity :> 1)
MCDriftOrder == <<stability>>
MCDerive(d, v) == v[stability] + v[energy]

MCPatches == {[dim |-> stability, value |-> 5], [dim |-> clarity, value |-> 0]}
MCBatches ==
  {<<[dim |-> stability, delta |-> 3], [dim |-> energy, delta |-> -1]>>,
   <<[dim |-> energy, delta |-> 1], [dim |-> energy, delta |-> 1]>>,
   <<[dim |-> stability, delta |-> -2]>>}
=============================================================================
