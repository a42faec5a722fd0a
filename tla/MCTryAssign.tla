---------------------------- MODULE MCTryAssign ----------------------------
EXTENDS TryAssign, TLC

CONSTANTS a1, a2

MCPartitions == {a1, a2}

\* items 1 and 2 are for a1, item 3 for a2; items 1 and 3 need the one unit
\* the key has left, item 2 has no rate limit
MCPartOf == (1 :> a1) @@ (2 :> a1) @@ (3 :> a2)
MCUnits == (1 :> 1) @@ (2 :> 0) @@ (3 :> 1)

\* one active slot per action
MCSlots == (a1 :> 1) @@ (a2 :> 1)
=============================================================================
