SPECIFICATION FairSpec
CONSTANTS
    Channels <- BothChannels
    PubSub <- Detections
    Snapshotted <- Incidents
    RateLimit = 1
    MaxQueue = 2
INVARIANTS TypeOK ConsumerConsistent EndsAgree
PROPERTIES WantedIsServed OldFlowFades
