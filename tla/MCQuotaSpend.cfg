SPECIFICATION FairSpec
CONSTANTS
    codex = codex  slave = slave
    Client = {acme}
    Alias = {codex, slave}
    Gated = {codex}
    NoClient = NoClient
    NoAlias = NoAlias
    Request = {r1}
    Writes <- SafeWrites
    LastMonth = 1
    MaxTokens = 2
    PromptEstimate = 1
    HighestLimit = 2
    MaxTotal = 3
    Allowlists <- MCAllowlists
    MaxMissed = 0
CONSTRAINT Explored
PROPERTY NoSpendIsLost
