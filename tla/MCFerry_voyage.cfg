SPECIFICATION Spec
CONSTANTS
    g1 = g1
    v1 = v1
    v2 = v2
    m1 = m1
    k1 = k1
    Guides <- MCGuides
    VIPs <- MCVIPs
    Members <- MCMembers
    GuideOf <- MCGuideOf
    Family <- MCFamily
    FerryLimit = 4
    Capacity = 3
    Evenings = 1
    Visits = 3
SYMMETRY MCSymmetry
INVARIANTS
    TypeOK
    PlacesKept
    OneCaptain
    GuideWaits
    QueueHonest
CHECK_DEADLOCK FALSE
