SPECIFICATION Spec
CONSTANTS
    c1 = c1
    c2 = c2
    Client <- MCClient
    None = None
    MaxAge = 2
    MaxTime = 7
    MaxVersion = 2
    ArbitraryStamps = TRUE
    RacyChanges = FALSE
INVARIANTS
    SkipOnlyUnchanged
