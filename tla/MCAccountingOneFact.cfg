SPECIFICATION Spec
CONSTANTS
    None = None
    NaN = NaN
    ConfiguredRate = None
    Workers = {w1}
    Projections <- OneInvoice
    Observations <- MCObservations
    Charts <- TwoCharts
    MaxClock = 0
    MaxSnapshots = 1
CHECK_DEADLOCK FALSE
INVARIANTS
    OneAccountingFact
