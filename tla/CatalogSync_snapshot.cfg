CONSTANTS
    Tools = {1, 2}
    InitLive = {1, 2}
    Busy = {1, 2}
    FeedPageSize = 2
    MaxPagesPerRun = 2
    MaxScanPages = 3
    MaxDetails = 2
    ListingPageSize = 1
    PastEndIs404 = FALSE
    Integrity = TRUE
    Polling = TRUE
    MaxEvents = 1
    MaxCreates = 0
    MaxRemovals = 1
    MaxTrim = 0
    MaxGenerations = 3
    MaxFailures = 2
SPECIFICATION FairSpec
PROPERTIES NoLiveToolRetired Converges
