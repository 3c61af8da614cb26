SPECIFICATION Spec
CONSTANTS
    NoAnswer = NoAnswer
    Answers = {a1}
    Faults = {}
INVARIANTS
    StartupTerminalizes
