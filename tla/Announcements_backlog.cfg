SPECIFICATION FairSpec
CONSTANTS
    Ids = {a1, a2}
    Publishers = {p1, p2}
    Sessions = {s1}
    Ticks = {t1}
    Scheduler = scheduler
    Null = Null
    Batch = 1
    MaxRevision = 2
    MaxRows = 2
    MaxTime = 1
    MaxAudit = 3
INVARIANTS OnlyLatestLeavesDraft
PROPERTIES DueIsSent
CHECK_DEADLOCK FALSE
