SPECIFICATION Spec
CONSTANTS
    a1 = a1
    a2 = a2
    b1 = b1
    x = x
    y = y
    Outputs <- MCOutputs
    Ids = {x, y}
    IdOf <- MCIdOf
    FlushThreshold = 2
    None = None
CHECK_DEADLOCK FALSE
INVARIANT DeadLetterIsTheFailed
