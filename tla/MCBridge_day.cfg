SPECIFICATION FairSpec
CONSTANTS
    g1 = g1
    v1 = v1
    v2 = v2
    m1 = m1
    k1 = k1
    Guides <- MCGuides
    VIPs <- MCVIPs
    Members <- MCMembers
    GuideOf <- MCGuideOf
    Family <- MCFamily
    BridgeLimit = 2
    Capacity = 3
    LastPhase = 0
INVARIANTS
    TypeOK
    WithinLimit
    OneDirection
    GroupsCounted
    MutexBinary
    SeatComesFree
    QueueHonest
    NoLostWakeup
PROPERTIES
    ImplementsOneWayBridge
    Drains
