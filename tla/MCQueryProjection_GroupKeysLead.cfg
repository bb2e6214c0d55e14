CONSTANTS
    a = a
    b = b
    t = t
    none = none
    NoName = none
    Names <- MCNames
    Selects <- MCGroupedSelects
SPECIFICATION Spec
CHECK_DEADLOCK FALSE
INVARIANT
    GroupKeysLead
