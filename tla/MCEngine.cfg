SPECIFICATION Spec
CONSTANTS
    SafeInteger = 7
    Attempts = {"a1", "a2", "a3", "a4"}
    Tools = {"t1", "t2"}
    StructuredTools = {"t2"}
    Operations = {"u1", "u2"}
    Draws = {"d1", "d2"}
    Receipts = {"r1"}
    MaxRequests = 5
    MaxBehind = 2
    Loads <- MCLoads
INVARIANTS EngineInv CertifiedIsComplete BillsAddUp UsageAgrees ReleasedWereCarried
PROPERTY ReturnedScopeSilent
CHECK_DEADLOCK FALSE
