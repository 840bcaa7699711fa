CONSTANTS
    a = a
    b = b
    c = c
    d = d
    e = e
    Uid = {a, b, c, d, e}
    Inputs <- MCInputs
SPECIFICATION FairSpec
INVARIANTS
    TypeOK
    EveryRelationPrintedOnce
    DepthHonoured
    DrawingIsATree
    RecursionBounded
    ReadyAgreesWithStatus
    TroubleShown
PROPERTY Terminates
CHECK_DEADLOCK FALSE
