CONSTANTS
    a = a
    b = b
    t = t
    none = none
    NoName = none
    Names <- MCNames
    Selects <- MCSelects
SPECIFICATION Spec
CHECK_DEADLOCK FALSE
INVARIANTS
    TypeOK
    SelectListFaithful
    OrderByFaithful
    GroupKeysOrdered
PROPERTY
    OrderExprsResolved
