SPECIFICATION FairSpec
CONSTANTS
    r1 = r1
    r2 = r2
    Request = {r1, r2}
    Limit = {1, 2}
    Window = 2
    Slack = 1
    MaxLag = 1
    MaxFaults = 1
INVARIANTS
    TypeOK
    BoundedOvershoot
PROPERTIES
    DeniedForAReason
    NeverStarved
