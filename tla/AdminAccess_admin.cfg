SPECIFICATION Spec
CONSTANTS
    People = {p, u}
    Verified = {p}
    Browsers = {b1, b2}
    Requests = {r1, r2}
    MaxLogins = 2
    Environments <- SomeEnvironments
    Null = Null
SYMMETRY Symmetry
INVARIANTS SessionsAreProven CodesAreNotBurnt LogoutEndsLogins OperatorsAreEntitled ActorsAreProven
CHECK_DEADLOCK FALSE
