CONSTANTS
    a = a
    b = b
    c = c
    d = d
    Delimiter = delimiter
    Uid = {a, delimiter}
    Inputs <- EmptyUidInputs
SPECIFICATION FairSpec
INVARIANT DepthBounded
CHECK_DEADLOCK FALSE
