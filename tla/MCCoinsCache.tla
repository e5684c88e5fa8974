---------------------------- MODULE MCCoinsCache ----------------------------
(* Instances of CoinsCache for TLC. *)
EXTENDS CoinsCache, TLC

CONSTANTS o1, o2, c1, c2, dust, b1, b2

TwoOutpoints == {o1, o2}
ThreeCoins == {c1, c2, dust}
Dust == {dust}
TwoBlocks == {b1, b2}

\* Every property checked is a safety property.
Symm == Permutations(Outpoints) \cup Permutations({c1, c2}) \cup Permutations(Blocks)

=============================================================================
