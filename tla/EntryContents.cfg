SPECIFICATION Spec
CONSTANTS
    cn = cn
    mail = mail
    p = p
    b = b
    None = None
    Names <- MCNames
    Spellings <- MCSpellings
    Fold <- MCFold
    Plain = {p}
    Binary = {b}
    Lists <- MCLists
    MaxLen = 2
INVARIANTS OneOfEachName
PROPERTIES IsMap
CHECK_DEADLOCK FALSE
