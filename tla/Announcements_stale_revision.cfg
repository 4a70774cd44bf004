SPECIFICATION Spec
CONSTANTS
    Ids = {a1}
    Publishers = {p1, p2}
    Sessions = {s1, s2}
    Ticks = {t1}
    Scheduler = scheduler
    Null = Null
    Batch = 1
    MaxRevision = 2
    MaxRows = 2
    MaxTime = 1
    MaxAudit = 3
SYMMETRY Symmetry
INVARIANTS OnlyLatestScheduled
CHECK_DEADLOCK FALSE
