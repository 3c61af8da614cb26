CONSTANTS
    FaultModes = {{"deadline"}}
    MaxEvents = 1
SPECIFICATION Spec
INVARIANT TaskWaitsForLaunch
CHECK_DEADLOCK FALSE
