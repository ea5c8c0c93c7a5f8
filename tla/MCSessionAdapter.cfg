SPECIFICATION Spec
CONSTANTS
    Gone = Gone
    a1 = a1
    a2 = a2
    c1 = c1
    c2 = c2
    Sessions = {s1, s2, s3}
    Adapters = {a1, a2}
    Calls = {c1, c2}
    OwnerOf <- MCOwnerOf
    Limits = {1, 2}
    Tries = 2
    MaxLives = 2
SYMMETRY Symmetry
INVARIANTS
    AdapterInvariant
    ResentOnlyWhenCut
PROPERTIES
    LimitHolds
CHECK_DEADLOCK FALSE
