SPECIFICATION Spec
CONSTANTS
    g1 = g1
    g2 = g2
    m1 = m1
    k1 = k1
    m2 = m2
    k2 = k2
    m3 = m3
    v1 = v1
    Guides <- MCGuides
    VIPs = {}
    Members <- MCTwoMembers
    GuideOf <- MCTwoGuideOf
    Family <- MCTwoFamily
    Allowed <- MCAllowed
    TowerLimit = 2
    Capacity = 4
    Commands = 2
    Nights = 1
INVARIANTS
    WithinTowerLimit
CHECK_DEADLOCK FALSE
