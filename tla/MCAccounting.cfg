SPECIFICATION FocusedSpec
CONSTANTS
    None = None
    NaN = NaN
    ConfiguredRate = None
    Workers = {w1, w2}
    Projections <- Settled
    Observations <- MCObservations
    Charts <- TwoCharts
    MaxClock = 1
    MaxSnapshots = 2
CHECK_DEADLOCK FALSE
INVARIANTS
    TypeOK
    OneRecordPerKey
    PostedUsesItsChart
    PostedFromVigente
    ReversalMirrorsPosting
    SettledOriginalsArePosted
PROPERTIES
    ImplementsLedger
SYMMETRY WorkerSymmetry
