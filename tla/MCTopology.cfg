CONSTANTS
    FaultModes = {{"docker", "signal"}, {"docker", "panic"}, {"docker", "deadline"}, {"docker", "crash"}, {"deadline", "panic"}, {"crash", "panic"}}
    MaxEvents = 1
SPECIFICATION FairSpec
INVARIANTS TopologyInv BundledTreeQuiet RemovedTreeUnused EarlyCancelReported SuccessIsReal CertifiedComplete StoppedBrokerLeavesNothing
PROPERTY CancelSettles
CHECK_DEADLOCK FALSE
