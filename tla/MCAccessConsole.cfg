SPECIFICATION Spec
CONSTANTS
    app = app
    batch = batch
    fast = fast
    first = first
    second = second
    Client <- Clients
    Alias <- Aliases
    None = None
    Slot <- Slots
    MaxOthers = 1
SYMMETRY Symmetry
INVARIANTS
    TypeOK
    FlagsAreTrue
