SPECIFICATION Spec
CONSTANTS
    Visitors = {v1, v2}
    Ips = {i}
    Addresses = {a}
    Tokens = {1, 2}
    Limit <- SmallLimits
    Kept = 2
    MaxWindow = 2
    MaxVisits = 3
    Endpoints = {e}
    Filters = {f1, f2}
    MaxRows = 2
    Null = Null
SYMMETRY Symmetry
INVARIANTS WithinLimits VerifiedByItsOwnTest PublicAddressesOnly ToldWhoPassed SecretsAreShownAtMostOnce
PROPERTIES OnlyHoldersReachIn
CHECK_DEADLOCK FALSE
