SPECIFICATION Spec
CONSTANTS
    Ids = {a1}
    Publishers = {p1, p2}
    Sessions = {s1, s2}
    Ticks = {t1, t2}
    Scheduler = scheduler
    Null = Null
    Batch = 1
    MaxRevision = 1
    MaxRows = 1
    MaxTime = 2
    MaxAudit = 4
SYMMETRY Symmetry
INVARIANTS FourEyes NothingIsLaundered ApprovalIsOnRecord SentOnce NeverEarly
PROPERTIES ImplementsPublication
CHECK_DEADLOCK FALSE
