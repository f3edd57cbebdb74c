SPECIFICATION FairSpec
CONSTANTS
    alice = alice
    bob = bob
    a = a
    x = x
    w = w
    t1 = t1
    Nobody = Nobody
    Tools = {t1}
    People = {alice, bob}
    Handles = {w}
    Labels = {x, a}
    Named <- MCNamed
    Account <- MCAccount
    Records <- MCRecords
    QueueLimit = 1
    ChunkSize = 1
    MaxChanges = 2
    MaxClaims = 2
    MaxFails = 1
INVARIANTS IndexAgrees MappingHolds
PROPERTIES RecordsReflected LabelsResolve
