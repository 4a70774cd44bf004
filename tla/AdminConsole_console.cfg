CONSTANTS
    t1 = t1  t2 = t2  p1 = p1  p2 = p2  a1 = a1  a2 = a2  r1 = r1  everyone = everyone
    Null = Null
    Tabs = {t1, t2}
    Publishers = {p1, p2}
    Ids = {a1, a2}
    Named = {r1}
    Builtins = {everyone}
    ListLimit = 1
    MaxEffort = 4
    MaxRows = 2
SPECIFICATION Spec
SYMMETRY Symmetries
INVARIANTS EveryoneWasChosen
PROPERTIES RefusedMeansStale RolesSurviveEditing
CHECK_DEADLOCK FALSE
