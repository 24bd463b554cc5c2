SPECIFICATION Spec
CONSTANTS
    mail = mail
    shadowMax = shadowMax
    shadowAccount = shadowAccount
    v1 = v1
    v2 = v2
    d1 = d1
    Names = {mail, shadowMax}
    Values = {v1, v2, d1}
    Syntax <- MCSyntax
    Empty = Empty
    Aux = {shadowAccount}
    AttrsOf <- MCAttrsOf
    Base = {mail}
SYMMETRY Symmetry
PROPERTIES SavesWhatWasSeen DeletesOnlyWhatWasRead OnlyReplacedValuesStay
