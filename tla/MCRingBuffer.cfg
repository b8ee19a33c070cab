SPECIFICATION Spec
CONSTANTS
    p1 = p1
    p2 = p2
    p3 = p3
    Elements <- MCElements
    NoPid = NoPid
    Capacity = 5
INVARIANTS
    TypeOK
    IndicesAgree
PROPERTY
    ImplementsFifo
    EraseIsExact
