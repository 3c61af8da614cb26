SPECIFICATION FairSpec
CONSTANTS
    NoAnswer = NoAnswer
    Answers = {a1}
    Faults = {"io"}
PROPERTIES
    AcceptedSettles
    DeletionSettles
    ShutdownDrains
