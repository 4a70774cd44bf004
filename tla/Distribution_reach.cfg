SPECIFICATION Spec
CONSTANTS
    Settings = {k}
    Subscribers = {s}
    Configurations <- SomeConfigurations
    MaxAttempts = 2
    MaxLosses = 1
    MaxChanges = 2
    Null = Null
INVARIANTS AcceptedOnce NotesAreTrue
PROPERTIES FeedsTheAlerts TargetsAreThoseThatStood
CHECK_DEADLOCK FALSE
