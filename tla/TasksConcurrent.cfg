SPECIFICATION Spec
CONSTANTS
    Tasks = {t1, t2}
    Variants = {v1, v2}
    Requests = {r1, r2}
    NoTask = NoTask
    MaxQty = 1
    Others = {"in", "out"}
SYMMETRY Symmetry
INVARIANTS CancelledShipsNothing ShownIsMoved
PROPERTIES ShippedOnce ReservedByRaceOnly
CHECK_DEADLOCK FALSE
