CONSTANTS
    a = a
    b = b
    c = c
    d = d
    Uid = {a, b, c, d}
    Delimiter = delimiter
    Inputs <- MCInputs
SPECIFICATION FairSpec
INVARIANTS
    TypeOK
    QueueAccountsForAll
    ExactlyReachable
    DepthsAreDistances
    DepthBounded
PROPERTIES
    Terminates
    ImplementsReachability
CHECK_DEADLOCK FALSE
