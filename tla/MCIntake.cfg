SPECIFICATION MCSpec
CONSTANTS
    None = None
    o1 = o1
    o2 = o2
    r1 = r1
    r2 = r2
    Onboardings = {o1, o2}
    Runs = {r1, r2}
    Processes = {o1, o2, r1, r2}
    Reviewers = {v1, v2}
    Interrupted = {r1}
    Rfcs <- MCRfcs
    Uuids <- MCUuids
    Constancias <- MCConstancias
    Batches <- MCBatches
    MaxClock = 1
    MaxFacts = 3
CHECK_DEADLOCK FALSE
INVARIANTS
    TypeOK
    OneOpenFlagPerType
    ClosedOnce
    FiledAfterOnboarding
    CompletedRunFiled
    ProfilesAreWhole
    RetainedFirst
    OpenedIsComplete
PROPERTIES
    ImplementsDossier
    LastSeenNeverGoesBack
    OnboardingIsImmutable
    RunRowIsClosed
