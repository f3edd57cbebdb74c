SPECIFICATION FairSpec
CONSTANTS
    a = a
    b = b
    g1 = g1
    g2 = g2
    w = w
    x = x
    NoUrl = NoUrl
    NoCommit = NoCommit
    Tools <- MCTools
    Clones = {g1, g2}
    Pages = {w}
    Nowhere = {x}
    Heads <- MCHeads
    Content <- MCContent
    BacklogEvery = 1
    RefreshEvery = 2
    RefillEvery = 3
    Durations = {0, 2}
    Depth = 2
    Poisons <- OnePoison
    MaxEvents = 2
    Records <- MCRecords
INVARIANTS VerdictTrue
PROPERTIES Settles Reached
CHECK_DEADLOCK FALSE
