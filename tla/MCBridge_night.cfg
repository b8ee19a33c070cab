SPECIFICATION Spec
CONSTANTS
    v1 = v1
    v2 = v2
    Guides <- MCGuides
    VIPs <- MCVIPs
    Members <- MCMembers
    GuideOf <- MCGuideOf
    Family <- MCFamily
    BridgeLimit = 1
    Capacity = 2
    LastPhase = 1
SYMMETRY MCSymmetry
INVARIANTS
    WithinLimit
CHECK_DEADLOCK FALSE
