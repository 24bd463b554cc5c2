---------------------------- MODULE DirectoryTree ----------------------------
(***************************************************************************)
(* The directory tree: CLdapEntry objects that read their children when    *)
(* they are first expanded, the model that shows them to Qt's view and     *)
(* proxy, and the life of the objects under new, deleted and reloaded      *)
(* entries.                                                                *)
(*                                                                         *)
(* node is the heap: the objects ever allocated, in that order; live are   *)
(* those not deleted yet.  view is what the proxy and the tree view were   *)
(* told of each object's rows, by beginInsertRows, beginRemoveRows and     *)
(* resets.  used holds the objects the last command followed a pointer to. *)
(*                                                                         *)
(* What is inside an entry is left out (AttributeEditing, EntryUpdate), as *)
(* are questions about changes to entries that exist (EntrySelection).     *)
(* Other clients add and remove entries at any time.                       *)
(***************************************************************************)
EXTENDS Naturals, Sequences, FiniteSets, SequencesExt

CONSTANTS
    Dns,       \* names of entries
    Base,      \* the base DN
    Above,     \* the name above each of the others
    MaxNodes,  \* bound on objects allocated
    None       \* nullptr

ASSUME TreeAssumption ==
    /\ IsFiniteSet(Dns) /\ Base \in Dns /\ None \notin Dns
    /\ Above \in [Dns \ {Base} -> Dns]
    /\ MaxNodes \in Nat

VARIABLES
    held,     \* names the server has
    node,     \* the objects: m_pEntry, m_pParent, m_vChildren, m_isLoaded, m_isNew
    live,     \* those allocated
    top,      \* CLdapData::m_Entries, m_topItems
    view,     \* the rows announced for each object
    current,  \* the tree's current item, None for none
    table,    \* m_entry of the attribute table
    running,
    used      \* history: objects the last command dereferenced

vars == <<held, node, live, top, view, current, table, running, used>>

Below(names, dn) == {d \in names \ {Base} : Above[d] = dn}

Object(dn, above, children, loaded, new) ==
    [dn |-> dn, parent |-> above, children |-> children, loaded |-> loaded, new |-> new]

(* The objects that dns get at the end of heap n: their positions.         *)
Places(n, dns) == [i \in 1 .. Len(dns) |-> Len(n) + i]

(* construct(): one object for each entry the search returned.             *)
Constructed(n, o, dns) ==
    [n EXCEPT ![o].children = @ \o Places(n, dns), ![o].loaded = TRUE]
        \o [i \in 1 .. Len(dns) |-> Object(dns[i], o, <<>>, FALSE, FALSE)]

(* What a search of one level returns before it ends or is refused.        *)
Results(names, dn) ==
    LET all == SetToSeq(Below(names, dn))
    IN  {SubSeq(all, 1, k) : k \in 0 .. Len(all)}

(* CLdapTreeModel::rowCount                                                *)
RowCount(n, o) == IF n[o].loaded THEN Len(n[o].children) ELSE 0

(* insertRows: the view is told of rows, and reads them from the model.    *)
Announced(v, n, o, row, count) ==
    SubSeq(v[o], 1, row) \o SubSeq(n[o].children, row + 1, row + count)
        \o SubSeq(v[o], row + 1, Len(v[o]))

RowOf(n, o) == CHOOSE i \in 1 .. Len(n[n[o].parent].children) : n[n[o].parent].children[i] = o

(* Sets of objects that have the children of all their members.            *)
Closed(n) == {s \in SUBSET DOMAIN n : \A o \in s : Range(n[o].children) \subseteq s}

(* An object and all that is reached from it, the least such set.          *)
Subtree(n, o) == {x \in DOMAIN n : \A s \in Closed(n) : o \in s => x \in s}

Shown == Subtree(node, top)

TableIsNew == table # None /\ node[table].new

(* What the server may hold after the table's entry is sent to it, if it   *)
(* is a new one.                                                           *)
AfterSave ==
    {held} \union
        IF TableIsNew /\ node[node[table].parent].dn \in held
        THEN {held \union {node[table].dn}} ELSE {}

Grow(v, n) == v \o [i \in 1 .. Len(n) - Len(v) |-> <<>>]

\* The tree just built and announced by a reset.
Init ==
    /\ held \in {s \in SUBSET Dns : Base \in s /\ \A d \in s \ {Base} : Above[d] \in s}
    /\ \E found \in Results(held, Base) :
           node = Constructed(<<Object(Base, None, <<>>, FALSE, FALSE)>>, 1, found)
    /\ live = 1 .. Len(node)
    /\ top = 1
    /\ view = [o \in 1 .. Len(node) |-> node[o].children]
    /\ current = 1 /\ table = 1
    /\ running = TRUE /\ used = {}

-----------------------------------------------------------------------------
(* Other clients.                                                          *)

ServerAdds(d) ==
    /\ d \notin held /\ Above[d] \in held
    /\ held' = held \union {d} /\ used' = {}
    /\ UNCHANGED <<node, live, top, view, current, table, running>>

ServerRemoves(d) ==
    /\ d \in held \ {Base} /\ Below(held, d) = {}
    /\ held' = held \ {d} /\ used' = {}
    /\ UNCHANGED <<node, live, top, view, current, table, running>>

-----------------------------------------------------------------------------
(* Steps of a command.                                                     *)

\* Mutant: the object removed is deleted as well.
FreesChild(o) ==
    /\ node' = [node EXCEPT ![node[o].parent].children = RemoveFirst(@, o)]
    /\ view' = [view EXCEPT ![node[o].parent] = RemoveAt(@, RowOf(node, o))]
    /\ live' = live \ Subtree(node, o)

(* removeRows and CLdapEntry::removeChild: the row is announced, the       *)
(* object only unlinked ("Known issue: delete child").                     *)
RemovesChild(o) ==
    /\ node' = [node EXCEPT ![node[o].parent].children = RemoveFirst(@, o)]
    /\ view' = [view EXCEPT ![node[o].parent] = RemoveAt(@, RowOf(node, o))]
    /\ live' = live

(* onTreeItemChanged, at its end: the table takes the flag of editing from *)
(* the entry it leaves, then reads the new one.                            *)
Arrives(o) ==
    /\ table' = o
    /\ used' = {o} \union ({table} \ {None})

-----------------------------------------------------------------------------
(* The user.                                                               *)

\* Mutant: the rows are announced whenever the item is expanded.
ExpandTwice(o) ==
    \E found \in Results(held, node[o].dn) :
        /\ running
        /\ Len(node) + Len(found) <= MaxNodes
        /\ node' = IF node[o].loaded THEN node ELSE Constructed(node, o, found)
        /\ view' = [Grow(view, node') EXCEPT
                       ![o] = Announced(view, node', o, 0, Len(node'[o].children))]
        /\ live' = live \union Len(node) + 1 .. Len(node')
        /\ used' = {o}
        /\ UNCHANGED <<held, top, current, table, running>>

(* CLdapTreeView::expand: the first time, children() reads the entries     *)
(* below; a search that fails leaves those read so far, and the object     *)
(* loaded.                                                                 *)
Expand(o) ==
    \E found \in Results(held, node[o].dn) :
        /\ running /\ ~node[o].loaded
        /\ Len(node) + Len(found) <= MaxNodes
        /\ node' = Constructed(node, o, found)
        /\ view' = [Grow(view, node') EXCEPT
                       ![o] = Announced(view, node', o, 0, Len(node'[o].children))]
        /\ live' = live \union Len(node) + 1 .. Len(node')
        /\ used' = {o}
        /\ UNCHANGED <<held, top, current, table, running>>

(* Another item is selected.  Coming from an item, the user is asked about *)
(* a new entry in the table: it is saved first, or refused and kept in the *)
(* table, or given up, by removing the item the tree was on.               *)
Asks == TableIsNew /\ current # None

SelectSaved(o) ==
    /\ running
    /\ o # current
    /\ current' = o
    /\ IF Asks
       THEN /\ held' \in AfterSave \ {held}
            /\ node' = [node EXCEPT ![table].new = FALSE]
       ELSE UNCHANGED <<held, node>>
    /\ Arrives(o)
    /\ UNCHANGED <<live, top, view, running>>

SelectRefused(o) ==
    /\ running
    /\ o # current
    /\ Asks
    /\ current' = o
    /\ used' = {table}
    /\ UNCHANGED <<held, node, live, top, view, table, running>>

(* The root has no parent it could be removed from.  An item below the one *)
(* removed is gone from the view when the table arrives at its entry: the  *)
(* tree is left without a current item.                                    *)
SelectGivenUp(o) ==
    /\ running
    /\ o # current
    /\ Asks
    /\ \/ /\ current = top
          /\ current' = o
          /\ UNCHANGED <<node, live, view>>
       \/ /\ current # top
          /\ RemovesChild(current)
          /\ current' = IF o \in Subtree(node, current) THEN None ELSE o
    /\ Arrives(o)
    /\ UNCHANGED <<held, top, running>>

(* New entry, offered below the root only and for loaded entries; its name *)
(* was looked for on the server.  The tree moves to it.  Left out: a table *)
(* that still has a new entry the server refused (see EntrySelection).     *)
NewEntry(d) ==
    LET o == Len(node) + 1
        row == RowCount(node, current)
    IN  /\ running
        /\ current \notin {top, None} /\ node[current].loaded
        /\ ~TableIsNew
        /\ d \in Below(Dns \ held, node[current].dn)
        /\ o <= MaxNodes
        /\ node' = Append([node EXCEPT ![current].children = Append(@, o)],
                          Object(d, current, <<>>, FALSE, TRUE))
        /\ view' = [Grow(view, node') EXCEPT ![current] = Announced(view, node', current, row, 1)]
        /\ live' = live \union {o}
        /\ current' = o
        /\ Arrives(o)
        /\ UNCHANGED <<held, top, running>>

(* Delete entry: the row is removed once the server has removed the entry. *)
(* Before it goes, the tree moves to a neighbour, and the table with it;   *)
(* afterwards both move to the parent.                                     *)
DeleteEntry ==
    /\ running
    /\ current \notin {top, None} /\ current = table
    /\ node[current].dn \in held /\ ~node[current].new
    /\ Below(held, node[current].dn) = {}
    /\ held' = held \ {node[current].dn}
    /\ RemovesChild(current)
    /\ current' = node[current].parent
    /\ table' = current' /\ used' = {current'}
    /\ UNCHANGED <<top, running>>

(* Revert of a new entry.  The move to the parent is not handled; the      *)
(* table is emptied, after the entry was removed.                          *)
RevertNew ==
    /\ running
    /\ TableIsNew
    /\ current \notin {top, None}
    /\ RemovesChild(current)
    /\ current' = node[current].parent
    /\ table' = None /\ used' = {current, table}
    /\ UNCHANGED <<held, top, running>>

(* With the tree on the root, the parent asked to remove it is a nullptr:  *)
(* the program ends.                                                       *)
RevertOnRoot ==
    /\ running
    /\ TableIsNew
    /\ current = top
    /\ running' = FALSE
    /\ used' = {current, table}
    /\ UNCHANGED <<held, node, live, top, view, current, table>>

(* Reload: what the table has is saved or not, the table is emptied, the   *)
(* tree's objects are deleted, the root is built again, the model reset    *)
(* and the root selected.  Without an entry in the table nothing can be    *)
(* saved (see EntrySelection).                                             *)
Reload ==
    LET o == Len(node) + 1
    IN  \E names \in AfterSave : \E found \in Results(names, Base) :
        /\ running /\ table # None
        /\ o + Len(found) <= MaxNodes
        /\ held' = names
        /\ node' = Constructed(Append(node, Object(Base, None, <<>>, FALSE, FALSE)), o, found)
        /\ live' = (live \ Shown) \union o .. Len(node')
        /\ top' = o
        /\ view' = [i \in 1 .. Len(node') |-> IF i = o THEN node'[o].children ELSE <<>>]
        /\ current' = o
        /\ table' = o /\ used' = {o}
        /\ UNCHANGED running

Next ==
    \/ \E d \in Dns \ {Base} : ServerAdds(d) \/ ServerRemoves(d) \/ NewEntry(d)
    \/ \E o \in Shown :
           Expand(o) \/ SelectSaved(o) \/ SelectRefused(o) \/ SelectGivenUp(o)
    \/ DeleteEntry \/ RevertNew \/ RevertOnRoot \/ Reload

Spec == Init /\ [][Next]_vars

-----------------------------------------------------------------------------
(* Properties.                                                             *)

(* The model and its view agree on the rows of every entry in the tree:    *)
(* what was announced, and in which order, is what rowCount and index      *)
(* answer.                                                                 *)
RowsAreAnnounced ==
    \A o \in Shown : view[o] = SubSeq(node[o].children, 1, RowCount(node, o))

(* No command follows a pointer to an object that was deleted, and none    *)
(* is reachable from the tree, the table or the selection.                 *)
UsesAreLive ==
    /\ used \subseteq live
    /\ Shown \union {top} \union ({current, table} \ {None}) \subseteq live
=============================================================================
