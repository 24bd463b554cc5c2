SPECIFICATION ClassesSpec
CONSTANTS
    NoName = NoName
    top = top
    person = person
    inetPerson = inetPerson
    device = device
    mail = mail
    Mail = Mail
    posix = posix
    ghost = ghost
    cn = cn
    uid = uid
    Attrs = {cn, uid}
    ClassNames <- MCNames
    Key <- MCKey
    Schemas <- MCSchemas
    Found <- MCFound
INVARIANTS
    StructuralClassKept
    ListsFit
    FormIsSufficient
