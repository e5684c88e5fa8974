SPECIFICATION Spec
CONSTANTS
    o1 = o1
    o2 = o2
    c1 = c1
    c2 = c2
    dust = dust
    b1 = b1
    b2 = b2
    Spent = Spent
    Absent = Absent
    NoBlock = NoBlock
    Outpoints <- TwoOutpoints
    Coins <- ThreeCoins
    Unspendable <- Dust
    Blocks <- TwoBlocks
SYMMETRY Symm
INVARIANTS FlagsFaithful 
PROPERTIES ImplementsUtxoSet CallsExact
