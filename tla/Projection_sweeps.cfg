SPECIFICATION FairProjection
CONSTANTS
    w1 = w1
    Urls = {"u1", "u2", "talk"}
    Bad = "bad"
    Talk = "talk"
    None = "none"
    Cleared = "cleared"
    Words = {"k1", "k2", "k3", "lib"}
    Floor = 2
    Ceiling = 2
    Writers = {w1}
    Records <- MCRecords
    Patches <- MCPatches
    Reading <- MCReading
    Offers = {"u2"}
    Starts <- MCStarts
    Coarse = FALSE
    MaxEdits = 2
    MaxFaults = 1
INVARIANTS RowsAgree
PROPERTIES ReportsReach Mended
CHECK_DEADLOCK FALSE
