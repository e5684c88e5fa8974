----------------------------- MODULE MCBaseIndex -----------------------------
(* The instance of BaseIndex for TLC: a branch of one block and one of two. *)
EXTENDS BaseIndex

CONSTANTS g, a1, b1, b2

MCParent == [b \in Blocks \ {g} |-> IF b = b2 THEN b1 ELSE g]
MCHeight == [b \in Blocks |-> IF b = g THEN 0 ELSE IF b = b2 THEN 2 ELSE 1]

=============================================================================
