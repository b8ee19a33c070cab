SPECIFICATION FairSpec
CONSTANTS
    m1 = m1
    v1 = v1
    g1 = g1
    cashier = cashier
    main = main
    Members <- MCMember
    VIPs <- MCVIP
    Guides = {}
    Cashier = cashier
    Main = main
    VisitorsLimit = 2
    TowerLimit = 1
    Slots = 2
INVARIANTS
    NotedAreReady
PROPERTIES
    NotedIsEnd
CHECK_DEADLOCK FALSE
