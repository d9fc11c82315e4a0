SPECIFICATION FairSpec
CONSTANTS
    NumMessages = 4
    MaxConcurrent = 2
    MaxRestarts = 2
CHECK_DEADLOCK FALSE
INVARIANTS TypeOK NothingSkippedUnseen BackPressure
PROPERTIES CleanDrainKeepsInput KeepsConsumerPromise EverythingSettles
CONSTRAINT MessagesPerRestart
