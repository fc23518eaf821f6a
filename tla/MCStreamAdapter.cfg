SPECIFICATION FairSpec
CONSTANTS
    CallIndex = {0, 1}
    MaxChunks = 3
CHECK_DEADLOCK FALSE
INVARIANTS
    TypeOK
    EachPieceAtHome
    SameAsWhole
    NextTurnIsFaithful
PROPERTIES
    ImplementsMessage
    MessageEnds
