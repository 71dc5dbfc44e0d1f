CONSTANTS
    Relays = {"first", "second"}
    CallsOf <- OneCall
    MaxTroubles = 0
SPECIFICATION Spec
INVARIANT TakesOver
CHECK_DEADLOCK FALSE
