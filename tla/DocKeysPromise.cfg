SPECIFICATION Spec
CONSTANTS
    Keys = {k1, k2}
    Requests = {r1, r2, r3, r4}
    NoResult = NoResult
    Failures = {}
PROPERTY KeepsPromise
CHECK_DEADLOCK FALSE
