------------------------------- MODULE Accounts -------------------------------
(***************************************************************************)
(* What the tree's context menu does with one entry that is a user or a    *)
(* group: adding the user, its account flag and password, and the dialog   *)
(* that chooses the members of the group.                                  *)
(*                                                                         *)
(* stored is the entry on the server, which other clients write too; seen  *)
(* is the editor's copy (CLdapEntry::m_pEntry), which decides the menu, the*)
(* icon and the number written back.  The account flag is one bit of       *)
(* userAccountControl: the number is the set of its bits.  The table's     *)
(* rows (CLdapEntry::m_attributes) matter here as far as they hold names   *)
(* of entries: the members, and one other attribute that sorts before them.*)
(***************************************************************************)
EXTENDS Integers, FiniteSets, Lists, SequencesExt

CONSTANTS
    ClassLists,   \* lists of classes the entry may have
    Fold,         \* Fold[c]: the class that c spells
    Users,        \* users that can be members
    OtherBits,    \* bits of userAccountControl besides the flag
    MaxNames,     \* bound: names of entries in the group at first
    MaxRows       \* bound: rows of the table

Disabled == "disabled"
Bits == OtherBits \union {Disabled}
Unset == "unset"
Control == SUBSET Bits
Account == {Unset, "cn", "own"}   \* sAMAccountName: as cn, or another one
Attributes == {"managedBy", "member"}
Row == [name : Attributes, value : Users]

ASSUME ClassesAssumption ==
    \A cs \in ClassLists : \A i \in DOMAIN cs : cs[i] \in DOMAIN Fold
ASSUME UsersAssumption == IsFiniteSet(Users)
ASSUME BitsAssumption == Disabled \notin OtherBits /\ Unset \notin Bits

VARIABLES
    classes,   \* CLdapEntry::m_classes
    stored, seen,
    rows,
    phase,     \* "new", "idle", or the request of the editor that is next
    menu,      \* the text of the account action while the menu is open
    all, group,\* copies of each user in the lists of the group dialog
    calm,      \* history: since the entry was last read no other client wrote,
               \* and no search after a request of the editor failed
    added      \* history: what became of the account's name when the entry was
               \* added, "no" if it was not or other clients wrote since

accountsVars == <<classes, stored, seen, rows, phase, menu, all, group, calm, added>>
dialog == <<all, group>>
history == <<calm, added>>

NoItems == [d \in Users |-> 0]

------------------------------------------------------------------------------
(* What the editor makes of the entry. *)

Directory == {"group", "user", "organizationalUnit", "container"}

\* CLdapEntry::kind: the first class that tells.
Kind(cs) == LET telling == SelectSeq(cs, LAMBDA c : Fold[c] \in Directory)
            IN  IF telling = <<>> THEN "unknown" ELSE Fold[Head(telling)]

\* Mutant: the last class decides.
LastIsUser(cs) == Last(cs) = "user"

\* CLdapServer::add looks for the one spelling.
IsUser(cs) == \E i \in DOMAIN cs : cs[i] = "user"

\* CLdapEntry::userEnabled: without the attribute a user counts as disabled.
UserEnabled(entry) == Disabled \notin entry.control /\ Unset \notin entry.control

\* CLdapTreeModel::data, the icon of an entry below the root.
Icon(entry) ==
    CASE Kind(classes) = "group" -> "group"
      [] Kind(classes) = "user" -> IF UserEnabled(entry) THEN "person" ELSE "locked"
      [] Kind(classes) = "organizationalUnit" -> "diagram"
      [] OTHER -> "folder"

\* CLdapEntry::loadAttributes: a row for each value, sorted by name.
Loaded(entry) ==
    {rs \in SetToSeqs(entry.names) :
        \A i, j \in DOMAIN rs : rs[i].name = "member" /\ i < j => rs[j].name = "member"}

\* CLdapEntry::flushAttributesCache: a failed search changes nothing.  The
\* table's rows are made anew under the table, whatever was typed in them.
Flush(ok) ==
    IF ok THEN seen' = stored /\ rows' \in Loaded(stored)
          ELSE UNCHANGED <<seen, rows>>

\* A new entry's copy has its name and nothing else.
NothingSeen == [control |-> {Unset}, account |-> Unset, names |-> {}, password |-> "old"]

AccountsInit ==
    /\ classes \in ClassLists
    /\ stored \in [control : IF Kind(classes) = "user" THEN Control \union {{Unset}}
                                                     ELSE {{Unset}},
                   account : {Unset, "own"}, password : {"old"},
                   names : IF Kind(classes) = "group"
                           THEN {rs \in SUBSET Row : Cardinality(rs) <= MaxNames}
                           ELSE {{}}]
    /\ \/ phase = "new" /\ rows = <<>> /\ seen = NothingSeen
       \/ phase = "idle" /\ rows \in Loaded(stored) /\ seen = stored
    /\ menu = "closed" /\ all = NoItems /\ group = NoItems
    /\ calm = TRUE /\ added = "no"

Idle == phase = "idle" /\ menu = "closed"
UserMenu == menu \in {"Disable user", "Enable user"}

------------------------------------------------------------------------------
(* Adding the entry (CLdapServer::add).  The server chooses what it adds.   *)

Add(ok) ==
    /\ phase = "new"
    /\ phase' = IF ok THEN "added" ELSE "new"
    /\ added' = IF ok THEN "named" ELSE added
    /\ UNCHANGED <<classes, stored, seen, rows, menu, dialog, calm>>

ReadAdded(ok) ==
    /\ phase = "added"
    /\ Flush(ok)
    /\ phase' = IF IsUser(classes) /\ seen'.account # Unset THEN "naming" ELSE "idle"
    /\ calm' = ok
    /\ added' = IF added = "named" /\ ~ok THEN "unnamed" ELSE added
    /\ UNCHANGED <<classes, stored, menu, dialog>>

\* The account is named as the entry; a refusal is passed over in silence.
NameAccount(ok) ==
    /\ phase = "naming"
    /\ stored' = IF ok THEN [stored EXCEPT !.account = "cn"] ELSE stored
    /\ phase' = IF ok THEN "reading" ELSE "idle"
    /\ added' = IF added = "named" /\ ~ok THEN "unnamed" ELSE added
    /\ UNCHANGED <<classes, seen, rows, menu, dialog, calm>>

\* The last read of CLdapServer::add, enableUser and disableUser, and that of
\* selecting the entry in the tree.
Read(ok) ==
    /\ phase = "reading" \/ Idle
    /\ Flush(ok)
    /\ phase' = "idle"
    /\ calm' = (ok \/ (calm /\ phase = "idle"))
    /\ UNCHANGED <<classes, stored, menu, dialog, added>>

------------------------------------------------------------------------------
(* The menu of a user (CLdapTreeView::customContextMenuRequested). *)

OpenMenu ==
    /\ Idle /\ Kind(classes) = "user"
    /\ menu' = IF UserEnabled(seen) THEN "Disable user" ELSE "Enable user"
    /\ UNCHANGED <<classes, stored, seen, rows, phase, dialog, history>>

CloseMenu ==
    /\ UserMenu /\ menu' = "closed"
    /\ UNCHANGED <<classes, stored, seen, rows, phase, dialog, history>>

\* Mutant: the number is the flag alone.
FlagAlone(entry) == IF UserEnabled(entry) THEN {Disabled} ELSE {}

\* CLdapServer::enableUser and disableUser, chosen by onEnableUser.
Toggled(entry) == IF UserEnabled(entry) THEN entry.control \union {Disabled}
                                        ELSE entry.control \ {Disabled}

\* Without the attribute nothing is done.  A refusal is thrown past
\* onEnableUser, and the entry is not read again.
EnableUser(ok) ==
    /\ UserMenu /\ menu' = "closed"
    /\ IF Unset \in seen.control
       THEN UNCHANGED <<stored, phase>>
       ELSE /\ stored' = IF ok THEN [stored EXCEPT !.control = Toggled(seen)] ELSE stored
            /\ phase' = IF ok THEN "reading" ELSE "idle"
    /\ UNCHANGED <<classes, seen, rows, dialog, history>>

\* CLdapTreeView::onChangePassword and CLdapData::changeUserPassword: the
\* dialog wants the same text twice; the entry is not read again.
ChangePassword(same, ok) ==
    /\ UserMenu /\ menu' = "closed"
    /\ stored' = IF same /\ ok THEN [stored EXCEPT !.password = "new"] ELSE stored
    /\ UNCHANGED <<classes, seen, rows, phase, dialog, history>>

------------------------------------------------------------------------------
(* The members of a group (CAttributesList::onManageUsersInGroup).  The     *)
(* dialog's lists hold items: one user can be in both, and twice in one.    *)

MemberRows == {r \in Row : r.name = "member"}
Members(rs) == Only(rs, MemberRows)
Copies(rs, d) == Cardinality({i \in DOMAIN rs : rs[i].value = d})

\* The users are searched in one place; a failed search finds some of them.
OpenDialog(found) ==
    /\ Idle /\ Kind(classes) = "group" /\ menu' = "members"
    /\ all' = [d \in Users |-> IF d \in found THEN 1 ELSE 0]
    /\ group' = [d \in Users |-> Copies(Members(rows), d)]
    /\ UNCHANGED <<classes, stored, seen, rows, phase, history>>

\* moveItemBettwenLists, of the items selected.
Moved(from, to, ds) ==
    /\ from' = [d \in Users |-> from[d] - (IF d \in ds THEN 1 ELSE 0)]
    /\ to' = [d \in Users |-> to[d] + (IF d \in ds THEN 1 ELSE 0)]

MoveItems(ds) ==
    /\ menu = "members" /\ ds # {}
    /\ \/ (\A d \in ds : all[d] > 0) /\ Moved(all, group, ds)
       \/ (\A d \in ds : group[d] > 0) /\ Moved(group, all, ds)
    /\ UNCHANGED <<classes, stored, seen, rows, phase, menu, history>>

\* QAbstractItemModel::match from the first row, one hit.
FirstRow(rs, d) == SelectInSeq(rs, LAMBDA r : r.value = d)

WithoutFirst(rs, d) ==
    IF FirstRow(rs, d) = 0 THEN rs ELSE RemoveAt(rs, FirstRow(rs, d))

\* Mutant: of several rows of one member only one is looked for.
RemovedOnce(rs, originals, chosen) ==
    FoldLeft(WithoutFirst, rs, SetToSeq({originals[i].value : i \in DOMAIN originals} \ chosen))

\* Each original member that is no longer chosen.
Removed(rs, originals, chosen) ==
    LET removed[i \in 0 .. Len(originals)] ==
            IF i = 0 THEN rs
            ELSE IF originals[i].value \in chosen THEN removed[i - 1]
            ELSE WithoutFirst(removed[i - 1], originals[i].value)
    IN  removed[Len(originals)]

\* The chosen users who were not members, in the order of the list.
Added(rs, originals, chosen) ==
    LET new == chosen \ {originals[i].value : i \in DOMAIN originals}
    IN  {rs \o [i \in DOMAIN ds |-> [name |-> "member", value |-> ds[i]]] :
         ds \in SetToSeqs(new)}

Chosen == {d \in Users : group[d] > 0}

AcceptMembers ==
    /\ menu = "members" /\ menu' = "closed"
    /\ \E rs \in Added(rows, Members(rows), Chosen) :
          rows' = Removed(rs, Members(rows), Chosen)
    /\ all' = NoItems /\ group' = NoItems
    /\ UNCHANGED <<classes, stored, seen, phase, history>>

CancelMembers ==
    /\ menu = "members" /\ menu' = "closed"
    /\ all' = NoItems /\ group' = NoItems
    /\ UNCHANGED <<classes, stored, seen, rows, phase, history>>

------------------------------------------------------------------------------
(* The table meanwhile, and the other clients. *)

Edit(i, d) ==
    /\ Idle /\ i \in DOMAIN rows /\ rows[i].value # d
    /\ rows' = [rows EXCEPT ![i].value = d]
    /\ UNCHANGED <<classes, stored, seen, phase, menu, dialog, history>>

AddRow(r) ==
    /\ Idle /\ Kind(classes) = "group" /\ Len(rows) < MaxRows
    /\ rows' = Append(rows, r)
    /\ UNCHANGED <<classes, stored, seen, phase, menu, dialog, history>>

OtherWrites(control, account) ==
    /\ Kind(classes) = "user" /\ phase # "new"
    /\ stored' = [stored EXCEPT !.control = control, !.account = account]
    /\ stored' # stored
    /\ calm' = FALSE /\ added' = "no"
    /\ UNCHANGED <<classes, seen, rows, phase, menu, dialog>>

AccountsNext ==
    \/ \E ok \in BOOLEAN :
          \/ Add(ok) \/ ReadAdded(ok) \/ NameAccount(ok) \/ Read(ok) \/ EnableUser(ok)
          \/ \E same \in BOOLEAN : ChangePassword(same, ok)
    \/ OpenMenu \/ CloseMenu \/ AcceptMembers \/ CancelMembers
    \/ \E ds \in SUBSET Users : OpenDialog(ds) \/ MoveItems(ds)
    \/ \E i \in 1..MaxRows, d \in Users : Edit(i, d)
    \/ \E r \in Row : AddRow(r)
    \/ \E control \in Control, account \in Account : OtherWrites(control, account)

AccountsSpec == AccountsInit /\ [][AccountsNext]_accountsVars

------------------------------------------------------------------------------
(* Properties. *)

(***************************************************************************)
(* Whatever other clients did since the editor read the entry, the account *)
(* ends as the menu said, and the other bits of the number are those the   *)
(* editor read, so that what another client did to them meanwhile is lost  *)
(* (enableUser and disableUser compute the number from the copy).  With no *)
(* other client and no failed search since, they are those the server held,*)
(* however many requests were made or refused before.                      *)
(***************************************************************************)
ToggleIsExact ==
    [][\A ok \in BOOLEAN : EnableUser(ok) /\ stored' # stored =>
          /\ Disabled \in stored'.control <=> menu = "Disable user"
          /\ stored'.control \ {Disabled} = seen.control \ {Disabled}
          /\ calm => stored'.control \ {Disabled} = stored.control \ {Disabled}]_accountsVars

(***************************************************************************)
(* While no other client writes and no search after a request fails, what  *)
(* the tree shows of the account is what the server holds, in every order  *)
(* of toggles, adding and reading, refused ones too (the reads after each  *)
(* request).  A user added here goes by the entry's name, wherever "user"  *)
(* stands among its classes, if it has an account name at all; when the    *)
(* second request of CLdapServer::add was refused, which nobody reports,   *)
(* or never made, it keeps the name the server chose, whatever is done     *)
(* later, and the tree's copy has that name.                               *)
(***************************************************************************)
TreeTellsTheTruth ==
    phase = "idle" =>
        /\ calm => Icon(seen) = Icon(stored) /\ seen.account = stored.account
        /\ added = "named" /\ (\E i \in DOMAIN classes : classes[i] = "user") =>
              stored.account # "own"
        /\ added = "unnamed" => stored.account # "cn"

(***************************************************************************)
(* The dialog deletes as many rows with the name of a member given up as   *)
(* there were members of that name, the first ones in the table, whatever  *)
(* their attribute: rows are looked for by their value alone.  So the      *)
(* members are those chosen and the rows of other attributes are as they   *)
(* were, but for those that name a member given up; where there are such   *)
(* rows, they go first and members given up are left.  All this whatever   *)
(* was typed into the rows before, and however the items were moved.       *)
(***************************************************************************)
Values(rs) == {rs[i].value : i \in DOMAIN rs}
GivenUp == Values(Members(rows)) \ Chosen

Of(d) == {r \in Row : r.value = d}
Unnamed == {r \in Row \ MemberRows : r.value \notin GivenUp}
After(list, n) == SubSeq(list, n + 1, Len(list))

MembersAsChosen ==
    [][AcceptMembers =>
          /\ \A d \in GivenUp : Only(rows', Of(d)) =
                 After(Only(rows, Of(d)), Len(Only(Members(rows), Of(d))))
          /\ Values(Members(rows')) \ GivenUp = Chosen
          /\ Only(rows', Unnamed) = Only(rows, Unnamed)]_accountsVars
==============================================================================
