SPECIFICATION Spec
CONSTANTS
    None = None
    c1 = c1
    c2 = c2
    c3 = c3
    Connections = {c1, c2}
    Records <- MCRecords
    Mode <- MCMode
    Interrupted = {c1}
CHECK_DEADLOCK FALSE
INVARIANTS
    NoHalfPosting
