SPECIFICATION RegSpec
CONSTANTS
    code = code
    qwen = qwen
    set = set
    unset = unset
    moved = moved
    other = other
    real = real
    r1 = r1
    Upstream = {real}
    Alias = {code}
    DefaultAlias = code
    Provider <- MCProvider
    ModelKey = {qwen}
    Strategy = {"weighted"}
    MaxChain = 2
    MaxWeight = 1
    MaxPriority = 1
    MaxListed = 1
    Seed <- MCSeed
    SeedModels <- MCSeedModels
    SeedEndpoint <- MCSeedEndpoint
    Endpoint = {set, moved}
    KeySet = {set, moved}
    Unknown = other
    Request = {r1}
INVARIANTS
    EditsReachCalls
