SPECIFICATION Spec
CONSTANTS
    Requests = {r1, r2}
    Filters = {f1, f2}
    Default = f1
    MaxTokens = 3
    Null = Null
SYMMETRY Symmetry
INVARIANTS ConfirmedByItsReader LinksAreOnTheirWay
PROPERTIES OnlyLateFormsReachIn ChangeLinksAreKept
CHECK_DEADLOCK FALSE
