SPECIFICATION Spec
CONSTANTS
    a = a
    b = b
    Variants = {a, b}
    Original = Original
    NoVariant = NoVariant
    Orders <- TwoRounds
    StableReads = 2
    MaxFail = 2
    Faults = {}
PROPERTIES PauseHolds
CHECK_DEADLOCK FALSE
