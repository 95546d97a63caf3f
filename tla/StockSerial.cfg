SPECIFICATION Spec
CONSTANTS
    Warehouses = {w1, w2}
    Variants = {v1}
    Cabinets = {c1, c2}
    NoCabinet = NoCabinet
    NoDoc = NoDoc
    Sales = {o1}
    OldSales = {o1}
    SaleDay <- MCSaleDay
    Today = 1
    Sessions = {s1}
    NoSession = NoSession
    Operations = {"shipment", "transfer", "return", "writeoff", "fbs_sale", "opening_balance", "reversal"}
    MaxQty = 2
    MaxCalls = 4
SYMMETRY Symmetry
INVARIANTS TypeOK ReversedOnce
PROPERTY NoOverdraft
CHECK_DEADLOCK FALSE
