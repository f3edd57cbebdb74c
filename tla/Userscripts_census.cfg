SPECIFICATION CensusSpec
CONSTANTS
    Pages = {1, 2, 3}
    Owner <- MCOwner
    Basename <- MCBasename
    Css = {}
    Name <- MCName
    Taken = {}
    Bodies <- MCBodies
    ShimMaxOtherLines = 2
    StubMaxLines = 2
    CrowdedOwners = 2
    IndependentDemand = 1
    NearCopy = 50
    None = None
    First <- MCFirst
    Ops = 2
    Troubles = 1
    Limit = 2
    Chunk = 2
    Cap = 2
    WatchLimit = 1
    WatchWindows = 1
    Unreadable = FALSE
INVARIANTS CensusSound DirectorySound
PROPERTIES SettlesOnWiki
CHECK_DEADLOCK FALSE
