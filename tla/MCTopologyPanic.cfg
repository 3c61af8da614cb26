CONSTANTS
    FaultModes = {{"panic"}}
    MaxEvents = 1
SPECIFICATION FairSpec
PROPERTY PanicRecoveryEnds
CHECK_DEADLOCK FALSE
