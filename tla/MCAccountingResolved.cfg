SPECIFICATION FairSpec
CONSTANTS
    None = None
    NaN = NaN
    ConfiguredRate = None
    Workers = {w1}
    Projections <- OneInvoice
    Observations <- MCObservations
    Charts <- OneChart
    MaxClock = 0
    MaxSnapshots = 1
CHECK_DEADLOCK FALSE
PROPERTIES
    ResolvedDocumentEventuallyPosts
