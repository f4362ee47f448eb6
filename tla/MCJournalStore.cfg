SPECIFICATION Spec
CONSTANTS
    None = None
    c1 = c1
    c2 = c2
    c3 = c3
    Connections = {c1, c2, c3}
    Records <- MCRecords
    Mode <- MCMode
    Interrupted = {c3}
CHECK_DEADLOCK FALSE
INVARIANTS
    TypeOK
    NoHalfPosting
    AcknowledgedIsDurable
PROPERTIES
    ImplementsLedger
