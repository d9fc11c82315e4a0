SPECIFICATION FairSpec
CONSTANTS
    Slots = {s1, s2}
    FailureThreshold = 1
    RecoveryTimeout = 1
    MaxRetries = 0
PROPERTY HalfOpenEnds
