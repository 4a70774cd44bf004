SPECIFICATION FairSpec
CONSTANTS
    Channels = {email}
    Targets = {x, y}
    Passes = {t1, t2}
    Connections = 2
    Batch = 1
    MaxAttempts = 2
    BackoffMinutes <- ShortBackoff
    Null = Null
    LongestPass = 2
    MaxLosses = 0
PROPERTIES LocksAreReleased
CHECK_DEADLOCK FALSE
