SPECIFICATION Spec
CONSTANTS
    Warehouses = {w1, w2}
    Variants = {v1}
    Cabinets = {c1}
    NoCabinet = NoCabinet
    NoDoc = NoDoc
    Sales = {o1, o2}
    OldSales = {o1}
    SaleDay <- MCSaleDay
    Today = 2
    Sessions = {s1, s2}
    NoSession = NoSession
    Operations = {"shipment", "return", "fbs_sale", "opening_balance", "close", "archive"}
    MaxQty = 1
    MaxCalls = 3
SYMMETRY Symmetry
INVARIANTS SaleOnce OpeningOnce
PROPERTIES OverdrawnByRaceOnly OpeningLateByRaceOnly
CHECK_DEADLOCK FALSE
