CONSTANTS
    a = a
    b = b
    c = c
    d = d
    e = e
    Uid = {a, b, c, d, e}
    Inputs <- SharedInputs
SPECIFICATION FairSpec
INVARIANT WithinDepthPrinted
CHECK_DEADLOCK FALSE
