------------------------- MODULE MCChainActivation -------------------------
(* A fork at the first block: g - a1 - a2 and g - b1.                       *)
EXTENDS ChainActivation

CONSTANTS g, a1, a2, b1

MCParent == [b \in Blocks \ {g} |-> IF b = a2 THEN a1 ELSE g]

\* Ties between blocks loaded from disk go to b1.
MCAddr ==
    [b \in Blocks |-> CASE b = g -> 0 [] b = b1 -> 1 [] b = a1 -> 2 [] b = a2 -> 3]

=============================================================================
