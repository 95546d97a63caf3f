SPECIFICATION Spec
CONSTANTS
    Lines = {l1, l2}
    Counters = {c1}
    Posters = {p1, p2}
    Correctors = {k1, k2}
    NoOne = NoOne
    Counts <- FewCounts
SYMMETRY Symmetry
INVARIANTS TypeOK PostedOnce PostsNewestCount TotalIsRegister
PROPERTY DriftFixed
CHECK_DEADLOCK FALSE
