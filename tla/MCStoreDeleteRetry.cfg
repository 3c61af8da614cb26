SPECIFICATION Spec
CONSTANTS
    NoAnswer = NoAnswer
    Answers = {a1}
    Faults = {"sync", "power"}
INVARIANTS
    DeletedIsGone
