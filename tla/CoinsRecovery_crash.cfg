SPECIFICATION Spec
CONSTANTS
  g = g
  a1 = a1
  a2 = a2
  b2 = b2
  b3 = b3
  a = a
  c = c
  x = x
  y = y
  Blocks <- MCBlocks
  Outpoints <- MCOutpoints
  Coins <- MCCoins
  Unspendable = {}
  Spent = Spent
  Absent = Absent
  NoBlock = NoBlock
  Parent <- MCParent
  Height <- MCHeight
  Txs <- MCTxs
  MaySync = TRUE
  MayFail = {"Flush"}
  MIN_BLOCKS_TO_KEEP = 2
  PruneHeights = {1}
INVARIANTS
  DbConsistent
  PartialIsMix
  TipCorrect
  Recoverable
PROPERTY
  ComesUp
