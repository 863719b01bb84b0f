CONSTANTS
    a = a
    b = b
    v = v
    w = w
    none = none
    torn = torn
    None = none
    Torn = torn
    Names = {a, b}
    Values = {v}
    StateHome = b
    Retain = 2
    MaxGen = 3
    MaxFaults = 1
SPECIFICATION Spec
INVARIANT NothingTornServed
CHECK_DEADLOCK FALSE
