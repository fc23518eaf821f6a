SPECIFICATION FairSpec
CONSTANTS
    gateway = gateway
    other = other
    Path <- Files
    Default = gateway
    None = None
    Environments <- Found
    MaxRestarts = 5
    MaxFile = 2
    MaxFaults = 2
    MaxRuns = 1
CHECK_DEADLOCK FALSE
INVARIANTS
    TypeOK
    OnceAndInOrder
    ReadyIsComplete
PROPERTIES
    MigratedBeforehand
    
