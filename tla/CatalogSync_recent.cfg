CONSTANTS
    Tools = {1, 2}
    InitLive = {1}
    Busy = {1}
    FeedPageSize = 1
    MaxPagesPerRun = 3
    MaxScanPages = 4
    MaxDetails = 1
    ListingPageSize = 2
    PastEndIs404 = TRUE
    Integrity = FALSE
    Polling = FALSE
    MaxEvents = 5
    MaxCreates = 1
    MaxRemovals = 1
    MaxTrim = 1
    MaxGenerations = 3
    MaxFailures = 1
SPECIFICATION Spec
INVARIANTS NoGap CreationsCaptured ScanNeverOvershoots
