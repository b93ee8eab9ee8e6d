SPECIFICATION Spec
CONSTANTS
    c1 = c1
    c2 = c2
    c3 = c3
    Clients = {c1}
    Slots = 2
    Descriptors = {1, 2}
    MaxQuits = 1
INVARIANT
    NoCrash
CHECK_DEADLOCK FALSE
