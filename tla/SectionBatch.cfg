SPECIFICATION SectionSpec
CONSTANTS
    a1 = a1
    a2 = a2
    b1 = b1
    FiberA = FiberA
    FiberB = FiberB
    Keys = {a1, a2, b1}
    FiberOf <- TwoFibers
    Window = 3
    Step = 2
    MaxActive = 2
    NumMessages = 10
CHECK_DEADLOCK FALSE
INVARIANTS SectionTypeOK LossesAreKnown AlignedSectionsLoseNothing
PROPERTY SectionsKeepPromise
CONSTRAINT LongIfAligned
