SPECIFICATION FairSpec
CONSTANTS
    a = a
    b = b
    Variants = {a, b}
    Original = Original
    NoVariant = NoVariant
    Orders <- OneRound
    StableReads = 2
    MaxFail = 1
    Faults = {"die"}
PROPERTIES GivenBack CoverReturned
CHECK_DEADLOCK FALSE
