SPECIFICATION FairSpec
CONSTANTS
    None = None
    InitialDelay = 1
    MaxDelay = 2
    Multiplier = 2
    Timeout = 3
    MaxFloat = 64
    MaxRequests = 2
    Horizon = 6
    MaxEntries = 3
    MaxTotalBytes = 2
    Replies <- MCReplies
    Contents <- MCContents
    ContentOf <- MCContentOf
CHECK_DEADLOCK FALSE
INVARIANTS
    TypeOK
    OutcomeIsResolved
    PollsAreSpaced
    HonoursTheTimeout
    EvidenceFirst
    ReturnedIsExtracted
PROPERTIES
    EvidenceIsImmutable
    EveryCallEnds
