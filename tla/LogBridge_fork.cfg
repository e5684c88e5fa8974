SPECIFICATION Spec
CONSTANTS
    Main = Main
    Null = Null
    o1 = o1
    o2 = o2
    Others <- NoOthers
    MaxMsgs = 3
    Sizes <- OneSize
    MaxBuffer = 1
    MayFork = TRUE
    MayStop = FALSE
PROPERTY AcceptedIsDelivered
