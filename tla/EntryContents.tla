----------------------------- MODULE EntryContents -----------------------------
(***************************************************************************)
(* The entry as the wrapper library keeps it (LDAPEntry, a list of         *)
(* LDAPAttribute): reading one from a message of the server, changing it,  *)
(* and the modifications made of its attributes.                           *)
(*                                                                         *)
(* Names are compared without regard to case (nocase_compare) and kept in  *)
(* the spelling they came in.  A value is binary if one of its bytes is    *)
(* not from 2 to 127: isCharBinary means to allow up to 255, but is given  *)
(* a signed char.  From the first binary value on, an attribute's values   *)
(* are joined into hexData, from which nothing is read back.               *)
(***************************************************************************)
EXTENDS Integers, Sequences, FiniteSets, SequencesExt

CONSTANTS
    Names, Spellings, Fold,   \* Fold[s]: the name that s spells
    Plain, Binary,            \* values
    Lists,                    \* the lists of values given to the library
    MaxLen,                   \* bound: values of one attribute
    None

Values == Plain \union Binary

ASSUME NamesAssumption == Fold \in [Spellings -> Names]
ASSUME ValuesAssumption ==
    /\ Plain \cap Binary = {} /\ Lists \subseteq Seq(Values)
    /\ None \notin [name : Spellings, values : Seq(Values), hexData : Seq(Values)]

Attribute == [name : Spellings, values : Seq(Values), hexData : Seq(Values)]

VARIABLES
    server,   \* what the server holds of the entry
    attrs,    \* LDAPEntry::m_attrs
    unread,   \* the attributes still to be read from the message
    current,  \* the attribute being read, or None
    coming    \* its values still to be read

vars == <<server, attrs, unread, current, coming>>

TypeOK ==
    /\ server \in [Names -> SUBSET Values]
    /\ attrs \in Seq(Attribute)
    /\ unread \subseteq Names /\ coming \subseteq Values
    /\ current \in Attribute \union {None}

Init == /\ server \in [Names -> SUBSET Values]
        /\ attrs = <<>> /\ unread = {} /\ current = None /\ coming = {}

------------------------------------------------------------------------------
(* LDAPAttribute. *)

\* LDAPAttribute(name, StringList), with or without values.
NewAttribute(s, vs) == [name |-> s, values |-> vs, hexData |-> <<>>]

\* addValue(string).
AddString(attr, v) == [attr EXCEPT !.values = Append(@, v)]

\* Mutant: what came before the first binary value stays.
AddBerValueKeeping(attr, v) ==
    IF v \in Binary \/ attr.hexData # <<>>
    THEN [attr EXCEPT !.hexData = Append(@, v)]
    ELSE AddString(attr, v)

\* addValue(BerValue).
AddBerValue(attr, v) ==
    IF attr.hexData # <<>> THEN [attr EXCEPT !.hexData = Append(@, v)]
    ELSE IF v \in Binary
    THEN [attr EXCEPT !.hexData = attr.values \o <<v>>, !.values = <<>>]
    ELSE AddString(attr, v)

\* setValues(StringList): hexData stays.
SetValues(attr, vs) == [attr EXCEPT !.values = vs]

(* LDAPAttributeList. *)

IsNamed(list, i, s) == i \in DOMAIN list /\ Fold[list[i].name] = Fold[s]
Has(list, s) == \E i \in DOMAIN list : IsNamed(list, i, s)

\* getAttributeByName: the first one.
AttributeByName(list, s) ==
    CHOOSE i \in DOMAIN list :
        IsNamed(list, i, s) /\ \A j \in 1..(i - 1) : ~IsNamed(list, j, s)

\* Mutant: the spelling decides.
AddSpelled(list, attr) ==
    IF \E i \in DOMAIN list : list[i].name = attr.name
    THEN LET i == CHOOSE i \in DOMAIN list : list[i].name = attr.name
         IN  [list EXCEPT ![i].values = @ \o attr.values]
    ELSE Append(list, attr)

\* addAttribute: only the values go to the attribute that is there.
AddAttribute(list, attr) ==
    IF Has(list, attr.name)
    THEN [list EXCEPT ![AttributeByName(list, attr.name)].values = @ \o attr.values]
    ELSE Append(list, attr)

\* delAttribute.
DelAttribute(list, s) ==
    IF Has(list, s) THEN RemoveAt(list, AttributeByName(list, s)) ELSE list

\* replaceAttribute.
ReplaceAttribute(list, attr) == Append(DelAttribute(list, attr.name), attr)

(* LDAPModification. *)

Mod(op, attr) == [op |-> op, type |-> attr.name, values |-> attr.values]

\* What a server makes of it (RFC 4511, 4.6).
Executed(entry, mod) ==
    LET given == Range(mod.values)
    IN  [entry EXCEPT ![Fold[mod.type]] =
            CASE mod.op = "add"     -> @ \union given
              [] mod.op = "replace" -> given
              [] mod.op = "delete"  -> IF given = {} THEN {} ELSE @ \ given]

------------------------------------------------------------------------------
(* Reading an entry: LDAPEntry(ld, msg), LDAPAttributeList(ld, msg). *)

Reading == unread # {} \/ current # None

BeginRead ==
    /\ ~Reading
    /\ attrs' = <<>>
    /\ unread' = {n \in Names : server[n] # {}}
    /\ UNCHANGED <<server, current, coming>>

\* ldap_first_attribute, ldap_next_attribute.
NextAttribute(s) ==
    /\ current = None /\ Fold[s] \in unread
    /\ current' = NewAttribute(s, <<>>)
    /\ coming' = server[Fold[s]] /\ unread' = unread \ {Fold[s]}
    /\ UNCHANGED <<server, attrs>>

\* setValues(BerValue).
NextValue(v) ==
    /\ current # None /\ v \in coming
    /\ current' = AddBerValue(current, v) /\ coming' = coming \ {v}
    /\ UNCHANGED <<server, attrs, unread>>

EndAttribute ==
    /\ current # None /\ coming = {}
    /\ attrs' = AddAttribute(attrs, current) /\ current' = None
    /\ UNCHANGED <<server, unread, coming>>

(* Changing it. *)

Changed(list) == /\ ~Reading
                 /\ attrs' = list
                 /\ UNCHANGED <<server, unread, current, coming>>

\* One value after the other, as CLdapServer::add gives them.
Add(s, v) ==
    /\ Has(attrs, s) => Len(attrs[AttributeByName(attrs, s)].values) < MaxLen
    /\ Changed(AddAttribute(attrs, NewAttribute(s, <<v>>)))

Delete(s)      == Changed(DelAttribute(attrs, s))
Replace(s, vs) == Changed(ReplaceAttribute(attrs, NewAttribute(s, vs)))

\* On what getAttributeByName found, as CLdapServer::updateAttributes does.
Set(s, vs) ==
    /\ Has(attrs, s)
    /\ LET i == AttributeByName(attrs, s)
       IN  Changed([attrs EXCEPT ![i] = SetValues(@, vs)])

(* Sending modifications of it. *)

Sent(mod) == /\ ~Reading
             /\ server' = Executed(server, mod)
             /\ UNCHANGED <<attrs, unread, current, coming>>

SendReplace(s)   == /\ Has(attrs, s)
                    /\ Sent(Mod("replace", attrs[AttributeByName(attrs, s)]))
SendAdd(s, v)    == Sent(Mod("add", AddString(NewAttribute(s, <<>>), v)))
SendDelete(s)    == Sent(Mod("delete", NewAttribute(s, <<>>)))

Next == \/ BeginRead
        \/ \E s \in Spellings : NextAttribute(s)
        \/ \E v \in Values : NextValue(v)
        \/ EndAttribute
        \/ \E s \in Spellings :
               \/ Delete(s) \/ SendReplace(s) \/ SendDelete(s)
               \/ \E v \in Values : Add(s, v) \/ SendAdd(s, v)
               \/ \E vs \in Lists : Replace(s, vs) \/ Set(s, vs)

Spec == Init /\ [][Next]_vars

------------------------------------------------------------------------------
(* Properties. *)

\* However attributes come, in whichever case they are spelled and in
\* whatever order they are added, deleted and replaced, there is one of each
\* name: getAttributeByName stops at the first, and delAttribute removes no
\* other (LDAPAttributeList::addAttribute, delAttribute, replaceAttribute).
OneOfEachName ==
    \A i, j \in DOMAIN attrs : Fold[attrs[i].name] = Fold[attrs[j].name] => i = j

Held == [n \in Names |->
            IF \E i \in DOMAIN attrs : Fold[attrs[i].name] = n
            THEN attrs[CHOOSE i \in DOMAIN attrs : Fold[attrs[i].name] = n].values
            ELSE <<>>]

Lost == {n \in Names : \E i \in DOMAIN attrs :
            Fold[attrs[i].name] = n /\ attrs[i].hexData # <<>>}

Promise == INSTANCE EntryPromise WITH held <- Held, lost <- Lost

\* The list of attributes, each with its two ways to keep values, is the map
\* from names to values its callers take it for: an attribute without a
\* binary value is read completely, and one with a binary value shows no
\* value at all, plain or binary, until it is deleted or replaced; what is
\* sent is what was set (LDAPAttribute::addValue, LDAPModification).
IsMap == Promise!Spec
===============================================================================
