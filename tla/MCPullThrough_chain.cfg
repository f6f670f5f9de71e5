SPECIFICATION FairSpec
CONSTANTS
    c1 = c1
    c2 = c2
    deb = deb
    Client <- MCClient
    Content <- MCContent
    Absent = Absent
    None = None
    Depth = 2
    TTL <- MCTTL
    Patience = 2
    Staleness <- MCStaleness
    Old = 8
INVARIANTS
    TypeOK
PROPERTIES
    AnswersAreRecent
    Settles
