--------------------------- MODULE MCCoinsRecovery ---------------------------
(***************************************************************************)
(* Two branches on a common block: a2, and b2 with b3.  The transaction    *)
(* that spends a and creates x is in a2 and in b3, so the same coin has    *)
(* two heights; b3 spends c of b2, and creates and spends y.               *)
(***************************************************************************)
EXTENDS CoinsRecovery

CONSTANTS g, a1, a2, b2, b3, a, c, x, y

MCBlocks == {g, a1, a2, b2, b3}
MCOutpoints == {a, c, x, y}
MCCoins == 0 .. 3

MCParent == (g :> NoBlock) @@ (a1 :> g) @@ (a2 :> a1) @@
            (b2 :> a1) @@ (b3 :> b2)
MCHeight == (g :> 0) @@ (a1 :> 1) @@ (a2 :> 2) @@
            (b2 :> 2) @@ (b3 :> 3)

Coinbase(outs) == [ins |-> {}, outs |-> outs, coinbase |-> TRUE]
Spends(ins, outs) == [ins |-> ins, outs |-> outs, coinbase |-> FALSE]

MCTxs ==
    (g  :> <<Coinbase({})>>) @@
    (a1 :> <<Coinbase({a})>>) @@
    (a2 :> <<Coinbase({}), Spends({a}, {x})>>) @@
    (b2 :> <<Coinbase({c})>>) @@
    (b3 :> <<Coinbase({}), Spends({a}, {x}), Spends({c}, {y}), Spends({y}, {})>>)

=============================================================================
