SPECIFICATION FairSpec
CONSTANTS
    MaxRevisions = 5
    MaxCount = 1
    Clients = {c1, c2}
    MaxCalls = 3
    Modes <- AllModes
INVARIANTS
    ResourceInv
    TerminalAgrees
    DurableRevisionsSurvive
    AckedCancelDecides
    ShutdownReportsUnrecorded
PROPERTIES
    ImplementsResource
    ShutdownLeavesNobody
    EveryCallReturns
    ShutdownReturns
CHECK_DEADLOCK FALSE
