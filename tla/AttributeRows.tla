---------------------------- MODULE AttributeRows ----------------------------
(***************************************************************************)
(* The attribute table of one LDAP entry and the difference between that   *)
(* table and the entry the editor last read from the server.               *)
(*                                                                         *)
(* The program keeps both as QVector<CLdapAttribute>: the rows the user    *)
(* sees (CLdapEntry::m_attributes) and, built on demand from the cached    *)
(* LDAPEntry (CLdapEntry::m_pEntry), the "really" rows.  A save is driven  *)
(* only by the comparison of the two, CLdapAttributesModel::changedRows.   *)
(*                                                                         *)
(* A cached entry is a function from attribute names to sets of values, an *)
(* absent attribute having none.  A row keeps its identity while its value *)
(* is edited: a loaded row is identified by the name and value it was      *)
(* loaded with, an added row by its name and a slot.  The order of the     *)
(* rows is presentation and is left out.                                   *)
(***************************************************************************)
CONSTANTS
    Names,    \* attribute names of the entry
    Values,   \* attribute values the server can hold
    Empty,    \* the empty string a row can hold
    Slots,    \* identities for rows the user adds (bounds the table)
    NoRow     \* marks a row identity that is not in the table

ASSUME ValuesAssumption ==
    /\ Empty \notin Values
    /\ Slots \cap Values = {}
    /\ NoRow \notin [value : Values \cup {Empty}, modified : BOOLEAN]

Entry == [Names -> SUBSET Values]
RowId == Names \X (Values \cup Slots)
Row   == [value : Values \cup {Empty}, modified : BOOLEAN]
Table == [RowId -> Row \cup {NoRow}]

NoEntryValues == [n \in Names |-> {}]

(* CLdapEntry::loadAttributes: one unmodified row per value of the entry.  *)
LoadedRows(entry) ==
    [id \in RowId |-> IF id[2] \in entry[id[1]]
                      THEN [value |-> id[2], modified |-> FALSE]
                      ELSE NoRow]

RowsOf(rows, n)  == {id \in RowId : id[1] = n /\ rows[id] # NoRow}
InTable(rows, n) == RowsOf(rows, n) # {}

(* What the table says the attributes are: empty rows stand for no value.  *)
ShownWithEmpty(rows, n) == {rows[id].value : id \in RowsOf(rows, n)}
ShownValues(rows, n) == {rows[id].value : id \in RowsOf(rows, n)} \ {Empty}
Shown(rows) == [n \in Names |-> ShownValues(rows, n)]

(* The same value of one attribute in two rows, which a server refuses.    *)
Repeats(rows, n) ==
    \E i, j \in RowsOf(rows, n) :
        i # j /\ rows[i].value # Empty /\ rows[i].value = rows[j].value

-----------------------------------------------------------------------------
(* CLdapAttributesModel::changedRows: newRows, deleteRows and updateMap.   *)
(* The definitions named ...Forgotten, ...OfModified and ...OfAll, and     *)
(* ShownWithEmpty above, are the mistakes the properties must notice.      *)

NewRows(rows, cache) ==
    {id \in RowId : /\ rows[id] # NoRow
                    /\ rows[id].modified
                    /\ cache[id[1]] = {}}

(* One request per cached value, although each deletes the whole attribute. *)
DeleteRows(rows, cache) ==
    {p \in Names \X Values : p[2] \in cache[p[1]] /\ ~InTable(rows, p[1])}

HasModifiedRow(rows, n) == \E id \in RowsOf(rows, n) : rows[id].modified

HasLostRow(rows, cache, n) ==
    \E v \in cache[n] : \A id \in RowsOf(rows, n) : rows[id].value # v

UpdateNamesOfModified(rows, cache) == {n \in Names : HasModifiedRow(rows, n)}
UpdateNamesOfAll(rows, cache)      == {n \in Names : InTable(rows, n)}

(* updateMap is keyed by name; its value is every row of that name.        *)
UpdateNames(rows, cache) ==
    {n \in Names : \/ HasModifiedRow(rows, n)
                   \/ InTable(rows, n) /\ HasLostRow(rows, cache, n)}

HasChanges(rows, cache) ==
    \/ NewRows(rows, cache) # {}
    \/ DeleteRows(rows, cache) # {}
    \/ UpdateNames(rows, cache) # {}
=============================================================================
