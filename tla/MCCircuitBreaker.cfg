\* Calls outlive the cooldown, as the default policy allows (requestTimeoutMs
\* 120000, cooldownMs 30000): calls of one episode settle in a later one.
SPECIFICATION FairSpec
CONSTANTS
    Provider = {p1}
    Call = {c1, c2, c3}
    NoProvider = NoProvider
    FailureThreshold = 2
    Cooldown = 2
    HalfOpenProbes = 2
    CallTimeout = 5
INVARIANTS
    TypeOK
    SlotsAreHeld
    QuietWhileOpen
PROPERTIES
    Recovers
