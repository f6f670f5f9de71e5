SPECIFICATION Spec
CONSTANTS
    c1 = c1
    c2 = c2
    Client <- MCClient
    None = None
    MaxAge = 2
    MaxTime = 8
    MaxVersion = 3
    ArbitraryStamps = FALSE
    RacyChanges = FALSE
SYMMETRY Symmetry
INVARIANTS
    SkipOnlyUnchanged
    BoundedStaleness
