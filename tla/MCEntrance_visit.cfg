CONSTANTS
    a = a
    b = b
    c = c
    d = d
    vip = vip
    g1 = g1
    Visitors <- MCVisitors
    VIPs <- MCVIPs
    Kids <- MCKids
    Guides <- MCGuides
    VisitorsLimit = 2
    GroupSize = 2
    Slots = 2
    LastPhase = 2
SPECIFICATION FairSpec
INVARIANTS
    TypeOK
    RegistryHasRoom
    NobodyLost
    PointersValid
PROPERTIES
    EveryoneLeaves
CHECK_DEADLOCK FALSE
