SPECIFICATION Spec
CONSTANTS
    t1 = t1
    t2 = t2
    Tabs = {t1}
    MaxPairs = 3
    MaxValue = 2
    MaxIds = 2
    MaxEvents = 3
INVARIANTS WorkKept RowsTrue SignedOutForgets
CHECK_DEADLOCK FALSE
