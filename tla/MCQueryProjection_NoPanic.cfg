CONSTANTS
    a = a
    b = b
    t = t
    none = none
    NoName = none
    Names <- MCNames
    Selects <- MCOffsetSelects
SPECIFICATION Spec
CHECK_DEADLOCK FALSE
INVARIANT
    NoPanic
