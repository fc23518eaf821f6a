SPECIFICATION Spec
CONSTANTS
    k1 = k1
    k2 = k2
    shared = shared
    admin = admin
    tenant = tenant
    full = full
    less = less
    r1 = r1
    NoKey = NoKey
    Client = {admin, tenant}
    Key = {k1, k2}
    PrefixOf <- MCPrefixOf
    Terms = {full, less}
    Admin = admin
    AdminTerms = full
    Request = {r1}
    TTL = 2
    MaxPending = 1
    MaxFills = 1
    Throttle = 1
SYMMETRY Interchangeable
VIEW AccessView
INVARIANTS
    TypeOK
    StampMeansWritten
PROPERTIES
    ServedAsOfLately
    RefusedWithReason
