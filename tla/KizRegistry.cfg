CONSTANTS
    a = a
    b = b
    p1 = p1
    p2 = p2
    Codes = {1, 2}
    Entities = {a, b}
    NoEntity = NoEntity
    Presses = {p1, p2}
    NoBatch = NoBatch
    Downloads = {d1}
    Collectors = {k1}
    Sources = {"tasks", "report"}
    Undated = {1}
    Comeback = {2}
    Limit = 2
    PageSize = 1
SPECIFICATION Spec
SYMMETRY Interchangeable
INVARIANTS TypeOK OneDocument NotedStaysBack WholeBatch OwnerOfDocument
CHECK_DEADLOCK FALSE
