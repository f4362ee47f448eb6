SPECIFICATION LiveSpec
CONSTANTS
    None = None
    NaN = NaN
    ConfiguredRate = None
    Workers = {w1}
    Projections <- TwoBooks
    Observations <- MCObservations
    Charts <- OneChart
    MaxClock = 1
    MaxSnapshots = 2
CHECK_DEADLOCK FALSE
PROPERTIES
    SkipNeverContradictsLedger
    CancelledPostingIsReversed
