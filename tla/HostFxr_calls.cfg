SPECIFICATION Spec
CONSTANTS
    t1 = t1
    t2 = t2
    t3 = t3
    c1 = c1
    c2 = c2
    Null = Null
    Threads <- ThreeThreads
    Contexts <- TwoContexts
    MaxRefs = 2
    Overlapping <- TwoThreads
INVARIANTS LoadCallsOpenRuntime InitUndisturbed
PROPERTY ImplementsRuntime
