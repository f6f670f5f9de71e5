SPECIFICATION Spec
CONSTANTS
    c1 = c1
    c2 = c2
    c3 = c3
    long = long
    short = short
    Client <- MCClient
    Value <- MCValue
    Length <- MCLength
    None = None
    TTL = {0, 1}
    Faults = TRUE
    MaxTime = 2
SYMMETRY Symmetry
INVARIANTS
    TypeOK
PROPERTIES
    AnswersLastAdd
