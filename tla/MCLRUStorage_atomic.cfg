SPECIFICATION Spec
CONSTANTS
    c1 = c1
    c2 = c2
    k1 = k1
    k2 = k2
    v1 = v1
    v2 = v2
    packages = packages
    Client <- MCClient
    Namespace = {packages}
    Key <- CrowdedKey
    NsOf <- CrowdedNsOf
    Value <- MCValue
    None = None
    Size = 1
    TTL = {1}
    MaxTime = 2
    MaxResets = 2
SYMMETRY Symmetry
INVARIANTS
    TypeOK
PROPERTIES
    ImplementsCacheStorage
