CONSTANTS
    BufSize = 10
    MaxPieces = 4
    Inputs <- SpacedInputs
SPECIFICATION Spec
INVARIANTS
    TypeOK
    TokensFit
    NothingLost
    ReadsInside
PROPERTIES
    StreamSpec
    ReadsText
