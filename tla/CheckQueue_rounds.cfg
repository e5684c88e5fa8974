SPECIFICATION Spec
CONSTANTS
  Workers = {w1, w2}
  Master = Master
  None = None
  nBatchSize = 2
  MaxRounds = 2
  MaxAdds = 2
  MaxChecks = 2
INVARIANTS
  ResultOfThisRound
  CountersExact
PROPERTIES
  RoundEnds
  StopEnds
