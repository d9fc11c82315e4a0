SPECIFICATION FairSpec
CONSTANTS
    Keys = {k1, k2, k3}
    Window = 3
    Step = 2
    MaxActive = 2
    NumMessages = 5
CHECK_DEADLOCK FALSE
INVARIANTS TypeOK NoMessageFallsOut
PROPERTIES WindowsOverlap KeepsConsumerPromise EveryMessageSettles
