SPECIFICATION Spec
CONSTANTS
    Tasks = {t1, t2}
    Variants = {v1, v2}
    Requests = {r1}
    NoTask = NoTask
    MaxQty = 2
    Others = {"in"}
SYMMETRY Symmetry
INVARIANTS ReserveWithinStock CardMatchesRegister
CHECK_DEADLOCK FALSE
