SPECIFICATION FairSpec
CONSTANTS
    drain = drain
    hourly = hourly
    d1 = d1
    d2 = d2
    h = h
    NoPod = NoPod
    Jobs = {drain, hourly}
    Pods = {d1, d2, h}
    JobOf <- MCJobOf
    Waits = {h}
    MaxFailures = 1
    Simultaneous = FALSE
    MaxKills = 1
    MaxDrops = 1
    MaxTimeouts = 1
    MaxBreaks = 1
INVARIANTS OneChild OneBody
PROPERTIES WaitingJobRuns
