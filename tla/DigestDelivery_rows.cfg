CONSTANTS
    email = email
    talk = talk
    MaxDay = 3
    Subs = {email, talk}
    EmailSubs = {email}
    MaxLateness = 1
    MaxAttempts = 2
    BatchLimit = 1
    Reposts = FALSE
    MaxClicks = 4
    MaxKills = 1
SPECIFICATION MCSpec
INVARIANTS SentAsRecorded
PROPERTIES FinalStays NeverBackfills EntitledServed
