SPECIFICATION Spec
CONSTANTS
  g = g
  a1 = a1
  a2 = a2
  b1 = b1
  Null = Null
  Genesis = g
  Blocks = {g, a1, a2, b1}
  Parent <- MCParent
  Addr <- MCAddr
  MinBlocksToKeep = 1
  MaxRpc = 2
  MayBeBad = {a1, a2}
  MaxRestart = 1
PROPERTY
  InvalidateDemotes
