SPECIFICATION FairSpec
CONSTANTS
    c1 = c1
    c2 = c2
    Client <- MCClient
    None = None
    MaxAge = 2
    MaxTime = 6
    MaxVersion = 2
    ArbitraryStamps = TRUE
    RacyChanges = TRUE
INVARIANTS
    TypeOK
    NoNilIndex
PROPERTIES
    RefreshSpacing
    NeverGoesBack
    EveryRequestAnswered
