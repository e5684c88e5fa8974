SPECIFICATION Spec
CONSTANTS
  Services = {s1, s2}
  Clients = {c1}
  Main = Main
  None = None
  MaxInserts = 2
  MaxTimed = 1
  MaxNow = 1
  MaxForward = 1
INVARIANTS
  StoppedWhenJoined
  RunsWhenDue
PROPERTIES
  ImplementsSerialQueue
  EveryCallbackRuns
  ShutdownEnds
