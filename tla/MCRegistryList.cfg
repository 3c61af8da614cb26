SPECIFICATION Spec
CONSTANTS
    MaxRevisions = 5
    MaxCount = 1
    Clients = {c1, c2}
    MaxCalls = 3
    Modes <- ReadModes
INVARIANT ListSurvivesDelete
CHECK_DEADLOCK FALSE
