---- MODULE MCSchemaClasses ----
(* A tree of structural classes, auxiliary classes at two heights, a class *)
(* in two spellings and one that no schema has.  In the second schema the  *)
(* top class is not published.                                             *)
EXTENDS SchemaClasses, TLC

CONSTANTS top, person, inetPerson, device, mail, Mail, posix, ghost, cn, uid

MCNames == {NoName, top, person, inetPerson, device, mail, Mail, posix, ghost}

MCKey == [n \in MCNames |-> IF n = Mail THEN mail ELSE n]

C(name, kind, sups, must, may) ==
    [name |-> name, kind |-> kind, sups |-> sups, must |-> must, may |-> may]

Published ==
    top        :> C(top, Abstract, <<>>, {}, {}) @@
    person     :> C(person, Structural, <<top>>, {cn}, {}) @@
    inetPerson :> C(inetPerson, Structural, <<person>>, {}, {uid}) @@
    device     :> C(device, Structural, <<top>>, {cn}, {}) @@
    mail       :> C(mail, Auxiliary, <<top>>, {}, {cn}) @@
    posix      :> C(posix, Auxiliary, <<person, top>>, {uid}, {})

MCSchemas == {Published, [k \in DOMAIN Published \ {top} |-> Published[k]]}

MCFound ==
    {[classes |-> c, structural |-> inetPerson] :
        c \in {<<top, person, inetPerson>>, <<inetPerson, posix, person, top>>,
               <<top, Mail, person, ghost, inetPerson>>}}
    \union {[classes |-> <<top, device, mail>>, structural |-> device]}
================================
