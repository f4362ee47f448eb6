SPECIFICATION Spec
CONSTANTS
    None = None
    InitialDelay = 1
    MaxDelay = 2
    Multiplier = 2
    Timeout = 4
    MaxFloat = 2
    MaxRequests = 2
    Horizon = 7
    MaxEntries = 3
    MaxTotalBytes = 2
    Replies <- MCReplies
    Contents <- MCContents
    ContentOf <- MCContentOf
CHECK_DEADLOCK FALSE
INVARIANTS
    HonoursTheTimeout
