SPECIFICATION Spec
CONSTANTS
    NoAnswer = NoAnswer
    Answers = {a1}
    Faults = {"io", "power"}
INVARIANTS
    TypeOK
    EvidenceSurvives
    PublishedSurvives
    AckedAcceptanceSurvives
    AckedCancelHonoured
    NoOrphanedSession
    DeletedIsGone
    StoreInv
PROPERTIES
    TerminalPermanent
    OutcomeDecidedOnce
