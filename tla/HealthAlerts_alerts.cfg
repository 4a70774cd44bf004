SPECIFICATION Spec
CONSTANTS
    Channels = {email}
    Targets = {x}
    Dispatches = {p1, p2}
    MaxAttempts = 2
    BackoffMinutes <- ShortBackoff
    LongestPass = 1
    Grace = 1
    Window = 8
    MaxDelay = 1
    MaxLosses = 1
    Null = Null
SYMMETRY Symmetry
INVARIANTS EveryMailIsAccountedFor AlertsAreTrue EveryFailureIsReported
CHECK_DEADLOCK FALSE
