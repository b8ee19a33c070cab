SPECIFICATION FairSpec
CONSTANTS
    m1 = m1
    v1 = v1
    g1 = g1
    cashier = cashier
    main = main
    Members <- MCMember
    VIPs <- MCVIP
    Guides <- MCGuide
    Cashier = cashier
    Main = main
    VisitorsLimit = 1
    TowerLimit = 1
    Slots = 2
INVARIANTS
    TypeOK
PROPERTIES
    AgainAndAgain
CHECK_DEADLOCK FALSE
