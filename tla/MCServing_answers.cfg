SPECIFICATION Spec
CONSTANTS
    c1 = c1
    c2 = c2
    Client <- MCClient
    Name = "debian"
    Setups <- MCSetups
    Url <- MCUrl
    Words <- MCWords
    Archive <- MCArchive
    Listings <- MCListings
    Nil = Nil
    Failed = Failed
    MaxStored = 1
SYMMETRY Symmetry
INVARIANTS
    TypeOK
    AnswersFitTheQuestion
    DenialsAreTrue
    ReleaseDescribesIndex
