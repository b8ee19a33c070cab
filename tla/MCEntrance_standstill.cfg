CONSTANTS
    a = a
    b = b
    c = c
    d = d
    vip = vip
    g1 = g1
    Visitors <- MCFourVisitors
    VIPs <- MCNoVIPs
    Kids <- MCFourKids
    Guides <- MCGuides
    VisitorsLimit = 5
    GroupSize = 2
    Slots = 2
    LastPhase = 0
SPECIFICATION Spec
INVARIANTS
    NoStandstill
CHECK_DEADLOCK FALSE
