--------------------------- MODULE AttributeEditing ---------------------------
(***************************************************************************)
(* Editing and saving the attributes of one existing entry while another   *)
(* client works on the same directory.                                     *)
(*                                                                         *)
(*   dir      what the LDAP server holds                                   *)
(*   cache    what the editor last read (CLdapEntry::m_pEntry)             *)
(*   rows     the attribute table (CLdapEntry::m_attributes)               *)
(*                                                                         *)
(* The GUI runs on one thread, but a save (SaveAttributes) is a series of  *)
(* independent server requests, so the other client may write between any  *)
(* two of them; each request is a step here.  A request may be refused by  *)
(* the server for reasons of its own (access control, syntax, a lost       *)
(* connection); the editor shows the error and goes on with the next one.  *)
(***************************************************************************)
EXTENDS AttributeRows

CONSTANTS
    Must,      \* names whose rows may not be deleted (CLdapAttribute::isMust)
    ReadOnly,  \* names whose loaded rows may not be edited
    NoName

ASSUME NamesAssumption ==
    /\ Must \subseteq ReadOnly
    /\ ReadOnly \subseteq Names
    /\ NoName \notin Names

VARIABLES
    dir, cache, rows,
    phase,     \* "editing", "saving", or "done": Save has just returned true
    adds,      \* newRows still to be sent
    dels,      \* deleteRows still to be sent
    upds,      \* keys of updateMap still to be sent
    upd,       \* the key whose search succeeded and whose modify is next
    touched,   \* history: names the user edited since the table was loaded
    wanted,    \* history: what the table showed when this save began
    clean      \* history: names this save began for with an up-to-date
               \* cache, and that nothing else has interfered with: no
               \* other client, no refused request, no failed last read

vars == <<dir, cache, rows, phase, adds, dels, upds, upd, touched, wanted, clean>>
saveVars == <<adds, dels, upds, upd>>

TypeOK ==
    /\ dir \in Entry /\ cache \in Entry /\ wanted \in Entry
    /\ rows \in Table
    /\ phase \in {"editing", "saving", "done"}
    /\ adds \subseteq RowId
    /\ dels \subseteq Names \X Values
    /\ upds \subseteq Names
    /\ upd \in Names \cup {NoName}
    /\ touched \subseteq Names
    /\ clean \subseteq Names

Init ==
    /\ dir \in Entry
    /\ cache = dir
    /\ rows = LoadedRows(cache)
    /\ phase = "editing"
    /\ adds = {} /\ dels = {} /\ upds = {} /\ upd = NoName
    /\ clean = {}
    /\ touched = {}
    /\ wanted = NoEntryValues

-----------------------------------------------------------------------------
(* The user, between two saves. *)

Idle == phase # "saving"

Edited(n, newRows) ==
    /\ Idle
    /\ rows' = newRows
    /\ touched' = touched \cup {n}
    /\ phase' = "editing"
    /\ clean' = {} /\ wanted' = NoEntryValues
    /\ UNCHANGED <<dir, cache, saveVars>>

(* A row added by the user stays editable whatever its attribute.          *)
Editable(id) == id[1] \notin ReadOnly \/ id[2] \in Slots

(* CLdapAttributesModel::setData and CLdapAttribute::setValue.             *)
SetValue(id, v) ==
    /\ rows[id] # NoRow /\ Editable(id) /\ rows[id].value # v
    /\ Edited(id[1], [rows EXCEPT ![id] = [value |-> v, modified |-> TRUE]])

(* CLdapAttributesModel::addAttribute: the New Attribute dialog gives it   *)
(* an empty value, the group dialog a member.                              *)
AddAttribute(id, v) ==
    /\ id[2] \in Slots /\ rows[id] = NoRow
    /\ Edited(id[1], [rows EXCEPT ![id] = [value |-> v, modified |-> TRUE]])

(* CAttributesList::onDeleteAttribute, allowed by canDeleteRow.            *)
DeleteAttribute(id) ==
    /\ rows[id] # NoRow /\ id[1] \notin Must
    /\ Edited(id[1], [rows EXCEPT ![id] = NoRow])

(* The table is filled from the cache again (setLdapEntry).                *)
Shows(entry) ==
    /\ rows' = LoadedRows(entry)
    /\ touched' = {}

(* MainWindow::onRevertChanges, last branch: the cache is not re-read.     *)
Revert ==
    /\ Idle
    /\ Shows(cache)
    /\ phase' = "editing"
    /\ clean' = {} /\ wanted' = NoEntryValues
    /\ UNCHANGED <<dir, cache, saveVars>>

(* MainWindow::onTreeItemChanged onto the entry, unsaved edits given up:   *)
(* flushAttributesCache re-reads, a failed read keeps the old cache.       *)
Reselect(ok) ==
    /\ Idle
    /\ cache' = IF ok THEN dir ELSE cache
    /\ Shows(cache')
    /\ phase' = "editing"
    /\ clean' = {} /\ wanted' = NoEntryValues
    /\ UNCHANGED <<dir, saveVars>>

(* CLdapAttributesModel::SaveAttributes up to its first request; with      *)
(* nothing changed Save refills the table and returns true at once.        *)
BeginSave ==
    /\ Idle
    /\ adds' = NewRows(rows, cache)
    /\ dels' = DeleteRows(rows, cache)
    /\ upds' = UpdateNames(rows, cache)
    /\ wanted' = Shown(rows)
    /\ clean' = {n \in Names : cache[n] = dir[n] /\ ~Repeats(rows, n)}
    /\ IF HasChanges(rows, cache)
       THEN phase' = "saving" /\ UNCHANGED <<rows, touched>>
       ELSE phase' = "done" /\ Shows(cache)
    /\ UNCHANGED <<dir, cache, upd>>

-----------------------------------------------------------------------------
(* The requests of one save.  ok is the server's own freedom to refuse.    *)

Request(n, accepted, values, ok) ==
    /\ phase = "saving"
    /\ dir' = IF accepted THEN [dir EXCEPT ![n] = values] ELSE dir
    /\ clean' = IF ok THEN clean ELSE clean \ {n}
    /\ UNCHANGED <<cache, rows, phase, touched, wanted>>

(* A mistaken SendAdd that gives up the other values once one is refused.  *)
SendAddOrStop(id, ok) ==
    LET n == id[1]
        v == rows[id].value
    IN  /\ id \in adds
        /\ adds' = IF ok THEN adds \ {id} ELSE {}
        /\ Request(n, ok /\ v # Empty /\ v \notin dir[n], dir[n] \cup {v}, ok)
        /\ UNCHANGED <<dels, upds, upd>>

(* CLdapServer::addAttribute: one value added; a value the attribute       *)
(* already has, or an empty one, is refused.                               *)
SendAdd(id, ok) ==
    LET n == id[1]
        v == rows[id].value
    IN  /\ id \in adds
        /\ adds' = adds \ {id}
        /\ Request(n, ok /\ v # Empty /\ v \notin dir[n], dir[n] \cup {v}, ok)
        /\ UNCHANGED <<dels, upds, upd>>

(* CLdapServer::delAttribute: the attribute as a whole is deleted; a       *)
(* second request for a multi-valued attribute finds nothing to delete.    *)
SendDelete(p, ok) ==
    /\ adds = {} /\ p \in dels
    /\ dels' = dels \ {p}
    /\ Request(p[1], ok /\ dir[p[1]] # {}, {}, ok)
    /\ UNCHANGED <<adds, upds, upd>>

(* A mistaken SearchForUpdate that keeps a missing attribute in the queue. *)
SearchForUpdateKeeping(n, ok) ==
    /\ adds = {} /\ dels = {} /\ upd = NoName /\ n \in upds
    /\ LET found == ok /\ dir[n] # {}
       IN  upd' = (IF found THEN n ELSE NoName) /\ Request(n, found, dir[n], ok)
    /\ UNCHANGED <<adds, dels, upds>>

(* CLdapServer::updateAttributes, its search: an attribute the entry does  *)
(* not have raises "No found attribute".                                   *)
SearchForUpdate(n, ok) ==
    /\ adds = {} /\ dels = {} /\ upd = NoName /\ n \in upds
    /\ LET found == ok /\ dir[n] # {}
       IN  /\ upd'  = IF found THEN n ELSE NoName
           /\ upds' = IF found THEN upds ELSE upds \ {n}
           /\ Request(n, found, dir[n], ok)
    /\ UNCHANGED <<adds, dels>>

(* A mistaken ReplaceValues that sends only the rows the user edited.      *)
ReplaceWithModifiedOnly(n) ==
    {rows[id].value : id \in {i \in RowsOf(rows, n) : rows[i].modified}} \ {Empty}

ReplaceValues(n) == ShownValues(rows, n)

(* ... and its modify: every non-empty row of that name replaces what the  *)
(* server has; a list with a repeated value is refused.                    *)
SendReplace(ok) ==
    /\ upd # NoName
    /\ Request(upd, ok /\ ~Repeats(rows, upd), ReplaceValues(upd), ok)
    /\ upds' = upds \ {upd}
    /\ upd' = NoName
    /\ UNCHANGED <<adds, dels>>

(* The end of SaveAttributes: flushAttributesCache, then setLdapEntry, and *)
(* true is returned whatever became of the requests.                       *)
EndSave(ok) ==
    /\ phase = "saving" /\ adds = {} /\ dels = {} /\ upds = {}
    /\ cache' = IF ok THEN dir ELSE cache
    /\ Shows(cache')
    /\ phase' = "done"
    /\ clean' = IF ok THEN clean ELSE {}
    /\ UNCHANGED <<dir, saveVars, wanted>>

(* Another client gives one attribute any other set of values.             *)
OtherClient(n, values) ==
    /\ dir[n] # values
    /\ dir' = [dir EXCEPT ![n] = values]
    /\ clean' = clean \ {n}
    /\ UNCHANGED <<cache, rows, phase, saveVars, touched, wanted>>

-----------------------------------------------------------------------------
UserStep ==
    \/ \E id \in RowId, v \in Values \cup {Empty} : SetValue(id, v) \/ AddAttribute(id, v)
    \/ \E id \in RowId : DeleteAttribute(id)
    \/ Revert
    \/ \E ok \in BOOLEAN : Reselect(ok)
    \/ BeginSave

SaveStep ==
    \E ok \in BOOLEAN :
        \/ \E id \in RowId : SendAdd(id, ok)
        \/ \E p \in Names \X Values : SendDelete(p, ok)
        \/ \E n \in Names : SearchForUpdate(n, ok)
        \/ SendReplace(ok)
        \/ EndSave(ok)

OtherStep == \E n \in Names, values \in SUBSET Values : OtherClient(n, values)

Next == UserStep \/ SaveStep \/ OtherStep

(* A save runs to its end on the GUI thread: every request is answered,    *)
(* by the server or by an error.  The user owes nothing.                   *)
Spec == Init /\ [][Next]_vars
FairSpec == Spec /\ WF_vars(SaveStep)

-----------------------------------------------------------------------------
(* A save writes no attribute the user left alone: what other clients did  *)
(* to the rest of the entry since it was read survives, although the       *)
(* requests are computed from a stale cache (changedRows, SaveAttributes). *)
SaveWritesOnlyTouched ==
    [][SaveStep => \A n \in Names : dir'[n] # dir[n] => n \in touched]_vars

(* An attribute that nobody interfered with during a save, begun from an   *)
(* up-to-date cache and without a repeated value, is in the end on the     *)
(* server, in the cache and in the table exactly what the table showed,    *)
(* whatever mixture of added, edited, emptied and deleted rows it was, and *)
(* whichever requests for other attributes were refused or overtaken.      *)
UndisturbedSaveIsExact ==
    phase = "done" =>
        \A n \in clean :
            /\ dir[n] = wanted[n] /\ cache[n] = wanted[n]
            /\ \A id \in RowId : id[1] = n => rows[id] = LoadedRows(wanted)[id]

(* When changedRows finds nothing to do there is nothing to lose: the      *)
(* table shows the cached entry.  The prompts of onTreeItemChanged and the *)
(* early return of SaveAttributes rely on it.                              *)
NoChangesMeansNothingToLose ==
    phase = "editing" /\ ~HasChanges(rows, cache) => Shown(rows) = cache

(* Rows and requests stay within what the user did: an attribute the user  *)
(* left alone shows the cached values, unmodified rows are always cached   *)
(* ones, and no outstanding request concerns an attribute left alone (the  *)
(* bookkeeping changedRows relies on).  With TypeOK this is inductive.     *)
PendingTouched ==
    /\ \A id \in adds : rows[id] # NoRow /\ id[1] \in touched
    /\ \A p \in dels : p[1] \in touched
    /\ upds \subseteq touched
    /\ upd # NoName => upd \in upds
    /\ Idle => adds = {} /\ dels = {} /\ upds = {}

UntouchedAsCached ==
    \A id \in RowId : id[1] \notin touched => rows[id] = LoadedRows(cache)[id]

UnmodifiedAsCached ==
    \A id \in RowId : rows[id] # NoRow /\ ~rows[id].modified
                     => rows[id] = LoadedRows(cache)[id]

TableTracksCache == PendingTouched /\ UntouchedAsCached /\ UnmodifiedAsCached

(* A save that has begun comes to its end, however many of its requests    *)
(* are refused.                                                            *)
SaveReturns == phase = "saving" ~> phase = "done"
=============================================================================
