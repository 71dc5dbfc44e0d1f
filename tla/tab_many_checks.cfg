CONSTANTS
    Calls = {"a"}
    Plan <- FourChecks
    Saves = {}
    Cached = {"build", "print"}
    KernelRounds = 16
    AnswersKept = 4
    MaxTrouble = 0
SPECIFICATION Spec
INVARIANT RoundsSuffice
CHECK_DEADLOCK FALSE
