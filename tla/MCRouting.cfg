SPECIFICATION RouteFairSpec
CONSTANTS
    p1 = p1  p2 = p2  rotate = rotate  grouped = grouped  sampled = sampled
    Provider = {p1, p2}
    Call = {c1, c2}
    NoProvider = NoProvider
    FailureThreshold = 2
    Cooldown = 2
    HalfOpenProbes = 1
    CallTimeout = 1
    NoAlias = NoAlias
    Alias <- MCAlias
    ChainOf <- MCChainOf
    PriorityOf <- MCPriorityOf
    StrategyOf <- MCStrategyOf
    AlwaysUp = {p2}
INVARIANTS
    RouteTypeOK
    HealthyFallbackServes
    FailureIsComplete
    OnlyProbesJudge
PROPERTIES
    ImplementsWalk
    EveryRequestEnds
