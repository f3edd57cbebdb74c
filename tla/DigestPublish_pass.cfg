CONSTANTS
    MaxDay = 5
    MaxTools = 1
    BackfillDays = 2
    MaxEditions = 2
    Malformed = {1}
    Rejected = {2}
    Squattable = {3}
    MaxFailures = 3
SPECIFICATION FairSpec
INVARIANTS PassSound
PROPERTIES ForeignPageKept KeepsPromise EditionsSettle
