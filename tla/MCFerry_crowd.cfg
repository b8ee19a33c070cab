SPECIFICATION FairSpec
CONSTANTS
    g1 = g1
    v1 = v1
    v2 = v2
    m1 = m1
    k1 = k1
    Guides <- MCGuides
    VIPs <- MCVIPs
    Members <- MCMembers
    GuideOf <- MCGuideOf
    Family <- MCFamily
    FerryLimit = 4
    Capacity = 3
    Evenings = 0
    Visits = 3
PROPERTIES
    Drains
CHECK_DEADLOCK FALSE
