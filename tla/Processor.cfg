SPECIFICATION FairSpec
CONSTANTS
    north = north
    south = south
    first = first
    second = second
    other = other
    broken = broken
    Fibers = {north, south}
    NumMessages = 3
    FiberOf <- MCFiberOf
    BatchSize = 2
    MaxConcurrent = 2
    MaxAttempts = 2
    Skip = 1
    Configs = {first, second, other, broken}
    FirstConfig = first
    FibersOf <- MCFibersOf
    SectionsOf <- MCSectionsOf
    ChannelStart <- MCChannelStart
    Channels <- MCChannels
    Unbuildable = {broken}
    MaxEdits = 2
    None = None
CHECK_DEADLOCK FALSE
INVARIANTS TypeOK WaitingBounded PipelinesMatchConfig SectionsInStep
PROPERTIES PendingBecomesReady
