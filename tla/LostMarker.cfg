CONSTANTS
    BufSize = 10
    MaxPieces = 1
    Inputs <- CommaInputs
SPECIFICATION Spec
INVARIANTS
    TokensExact
