SPECIFICATION FairSpec
CONSTANTS
    Keys = {k1}
    Requests = {r1, r2, r3}
    NoResult = NoResult
    Failures = {"crash", "slow", "lost"}
INVARIANTS PostingBudget AnswersAreReal
PROPERTIES SettledStays NoPermanentLock
CHECK_DEADLOCK FALSE
