SPECIFICATION Spec
CONSTANTS
    codex = codex  slave = slave
    Client = {acme}
    Alias = {codex, slave}
    Gated = {codex}
    NoClient = NoClient
    NoAlias = NoAlias
    Request = {r1, r2}
    Writes <- AllWrites
    LastMonth = 2
    MaxTokens = 2
    PromptEstimate = 1
    HighestLimit = 2
    MaxTotal = 3
    Allowlists <- MCAllowlists
    MaxMissed = 1
CONSTRAINT Explored
SYMMETRY Slots
VIEW WithoutAppended
INVARIANTS
    TypeOK
    BoundedOvershoot
    CounterCoversLog
PROPERTIES
    EachMonthPaysItsOwn
