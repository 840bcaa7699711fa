CONSTANTS
    u1 = u1
    u2 = u2
    u3 = u3
    u4 = u4
    Uid = {u1, u2, u3, u4}
    Inputs <- LostInputs
SPECIFICATION Spec
INVARIANT FoundIsShown
CHECK_DEADLOCK FALSE
