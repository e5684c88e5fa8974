SPECIFICATION Spec
CONSTANTS
  g = g
  a1 = a1
  b1 = b1
  b2 = b2
  Blocks = {g, a1, b1, b2}
  Genesis = g
  Null = Null
  Parent <- MCParent
  Height <- MCHeight
  MaxQueue = 2
  MaxCrashes = 1
  MaxFailures = 1
  MaxInvalidate = 1

  
  
PROPERTIES
  CatchesUp
