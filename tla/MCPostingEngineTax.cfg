SPECIFICATION Spec
CONSTANTS
    None = None
    NaN = NaN
    ConfiguredRate <- ProviderRate
    Contexts <- MCContexts
    Charts <- MCCharts
CHECK_DEADLOCK FALSE
INVARIANTS
    CorruptTaxNeverPosted
