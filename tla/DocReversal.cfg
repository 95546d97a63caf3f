CONSTANTS
    a = a
    b = b
    shipment = shipment
    transfer = transfer
    r1 = r1
    r2 = r2
    Requests = {r1, r2}
    Postings = {shipment, transfer}
    Corrections = {}
    Cabinets = {a, b}
    NoCabinet = NoCabinet
    NoDoc = NoDoc
    Parts <- TwoParts
    CardCabs <- TwoParts
    MaxCards = 5
    Faults = {"refuse", "lose", "die"}
SPECIFICATION Spec
SYMMETRY Interchangeable
INVARIANTS TypeOK MarkedIsUndone UndoneOnce JournalFollows NoEmptyCard
CHECK_DEADLOCK FALSE
