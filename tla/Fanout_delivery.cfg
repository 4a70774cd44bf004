SPECIFICATION FairSpec
CONSTANTS
    Channels = {email, discord}
    Targets = {x}
    Passes = {t1, t2}
    Connections = 3
    Batch = 2
    MaxAttempts = 2
    BackoffMinutes <- ShortBackoff
    Null = Null
    LongestPass = 2
    MaxLosses = 1
INVARIANTS EveryCopyIsAccountedFor StatusTellsWhatHappened
PROPERTIES ImplementsLadder EveryDeliveryEnds LocksAreReleased
CHECK_DEADLOCK FALSE
