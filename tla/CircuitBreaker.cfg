SPECIFICATION FairSpec
CONSTANTS
    Slots = {s1, s2, s3}
    FailureThreshold = 2
    RecoveryTimeout = 2
    MaxRetries = 1
INVARIANTS TypeOK BreakerCoherent OneProbe
PROPERTIES OpenIsLeft TrialIsDecided
