SPECIFICATION Spec
CONSTANTS
    Alphabet <- MCAlphabet
    Space = Space
    Newline = Newline
    FieldId <- MCFieldId
    FieldValue <- MCFieldValue
    GitHubActions = "actions"
    Template = "template"
    Unset = Unset
    Repo <- MCRepo
    Release <- MCRelease
    Asset <- MCAsset
    Catalog <- MCCatalog
    Assets <- MCAssets
    Worlds <- MCWorlds
    File <- MCFile
    SumsName <- MCSumsName
    Testimony <- MCTestimony
    Early <- MCEarly
    Config <- MCConfig
    PerPage = 2
    AssetTTL = 1
    Names <- MCNames
    Text <- MCText
    DebOf <- MCDebOf
    Directories <- MCDirectories
    Gone = Gone
    MaxAge = 1
    Patience = 1
    MaxTime = 3
    MaxIncidents = 2
INVARIANTS
    TypeOK
    ListedIsTrusted
    PoolHoldsWhatIsListed
    ListedComesBack
    RestingFilesAreListed
PROPERTIES
    SkipsLoseOnlyQuietChanges
    ListsNewestRelease
    IndexReadsBack
