SPECIFICATION RegSpec
CONSTANTS
    code = code
    qwen = qwen
    set = set
    unset = unset
    moved = moved
    other = other
    real = real
    r1 = r1
    Upstream = {real}
    Alias = {code}
    DefaultAlias = code
    Provider <- MCProvider
    ModelKey = {qwen}
    Strategy = {"weighted"}
    MaxChain = 3
    MaxWeight = 2
    MaxPriority = 1
    MaxListed = 1
    Seed <- MCSeed
    SeedModels <- MCSeedModels
    SeedEndpoint <- MCSeedEndpoint
    Endpoint = {set, unset}
    KeySet = {set}
    Unknown = other
    Request = {r1}
VIEW RegistryView
INVARIANTS
    TypeOK
    PositionsAligned
    NothingLeftBehind
    AliasesResolve
PROPERTIES
    ImplementsChains
