SPECIFICATION Spec
CONSTANTS
    Main = Main
    Null = Null
    o1 = o1
    o2 = o2
    Others <- TwoOthers
    MaxMsgs = 4
    Sizes <- TwoSizes
    MaxBuffer = 2
    MayFork = TRUE
    MayStop = TRUE
INVARIANTS DebugLogComplete DeliveredInOrder LateLogFindsRuntime
PROPERTY DrainedWhileAlive
