---------------------------- MODULE EntrySelection ----------------------------
(***************************************************************************)
(* The main window: which entry the tree is on, which entry the attribute  *)
(* table shows, and what becomes of unsaved work when the two move.        *)
(*                                                                         *)
(* Everything here runs on the GUI thread, one user command at a time; a   *)
(* question to the user is modal, so command, answer and the outcome of    *)
(* the save it asks for are one step.  Deleting an entry is two steps, as  *)
(* the tree first moves to a neighbour and then to the parent.             *)
(*                                                                         *)
(* What is inside an entry is reduced to dirty: changedRows has something  *)
(* to send (AttributeEditing shows what that means).  Entries are created  *)
(* below existing ones only, which bounds the depth of the tree.           *)
(***************************************************************************)
EXTENDS FiniteSets

CONSTANTS
    Root,        \* the base DN
    Existing,    \* entries the server holds at first, children of the root
    NewEntries,  \* identities for entries the user creates
    None

ASSUME EntriesAssumption ==
    /\ Existing \cap NewEntries = {}
    /\ Root \notin Existing \cup NewEntries
    /\ None \notin Existing \cup NewEntries \cup {Root}

Entries == {Root} \cup Existing \cup NewEntries

VARIABLES
    server,    \* entries the server holds
    tree,      \* entries linked into the tree (CLdapEntry::m_vChildren)
    parent,    \* CLdapEntry::m_pParent of the created entries
    current,   \* the tree's current item
    shown,     \* m_entry of the attribute table, None for nullptr
    new, edit, \* entries whose m_isNew, m_isEdit is set
    dirty,     \* changedRows of the table is not empty
    saveOn,    \* m_saveDataAction, m_revertChangesAction enabled
    revertOn,
    goto,      \* parent the tree still has to move to after a deletion
    running,
    crashed,   \* "no", or the command that used an entry that is not there
    detached   \* history: the table has been left on an entry other than
               \* the tree's

vars == <<server, tree, parent, current, shown, new, edit, dirty, saveOn, revertOn,
          goto, running, crashed, detached>>
life == <<running, crashed>>

ParentIn(parents, e) == IF e \in NewEntries THEN parents[e] ELSE Root
ParentOf(e) == ParentIn(parent, e)
Displayed   == {e \in tree : e = Root \/ ParentOf(e) \in tree}

(* There is something MainWindow would ask about, or enable Save for.      *)
Unsaved == shown # None /\ (shown \in new \/ shown \in edit \/ dirty)

TypeOK ==
    /\ server \subseteq Entries /\ Root \in server
    /\ tree \subseteq Entries /\ Root \in tree
    /\ parent \in [NewEntries -> Existing \cup {None}]
    /\ current \in Displayed /\ shown \in Entries \cup {None}
    /\ new \subseteq NewEntries /\ edit \subseteq Entries \ {Root}
    /\ {dirty, saveOn, revertOn, running, detached} \subseteq BOOLEAN
    /\ crashed \in {"no", "saving", "reverting"}
    /\ goto \in Entries \cup {None}

Init ==
    /\ server = {Root} \cup Existing /\ tree = server
    /\ parent = [n \in NewEntries |-> None]
    /\ current = Root /\ shown = Root
    /\ new = {} /\ edit = {} /\ dirty = FALSE
    /\ saveOn = FALSE /\ revertOn = FALSE
    /\ goto = None
    /\ running = TRUE /\ crashed = "no"
    /\ detached = FALSE

Ready == running /\ goto = None

-----------------------------------------------------------------------------
(* A mistaken Enables that forgets Revert.                                 *)
EnablesSaveOnly(on) == saveOn' = on /\ UNCHANGED revertOn

(* MainWindow::onEntityClassesChanged, run by every signal of the table.   *)
Enables(on) == saveOn' = on /\ revertOn' = on

(* CLdapAttributesModel::setLdapEntry: the entry left loses its edit flag. *)
Shows(e) ==
    /\ shown' = e
    /\ edit' = edit \ ({shown} \ {e})
    /\ dirty' = FALSE

(* The end of onTreeItemChanged: the table's own signal enables both       *)
(* actions for a new entry or an edited one, then Save is disabled.        *)
Arrives(e) ==
    /\ Shows(e)
    /\ saveOn' = FALSE
    /\ revertOn' = (e \in new' \/ e \in edit')

(* A mistaken form of Unlink.                                              *)
UnlinkNothing(linked, e) == linked

(* Removing a row of the tree; the root has no parent to be removed from.  *)
Unlink(linked, e) == IF e = Root THEN linked ELSE linked \ {e}

(* MainWindow::onTreeItemChanged, the tree moving from current to e, with  *)
(* linked and newNow the tree and the new entries as of that moment.  yes  *)
(* is the answer to the question it may ask, ok the outcome of the save.   *)

(* The new entry could not be saved: the table stays on it.                *)
NewRefused(yes, ok, linked, newNow) ==
    /\ shown \in newNow /\ yes /\ ~ok
    /\ tree' = linked /\ new' = newNow /\ detached' = TRUE
    /\ UNCHANGED <<shown, edit, dirty, saveOn, revertOn>>

NewSaved(e, yes, ok, linked, newNow) ==
    /\ shown \in newNow /\ yes /\ ok
    /\ tree' = linked /\ new' = newNow \ {shown}
    /\ Arrives(e)
    /\ UNCHANGED detached

(* removeEntity(srcPrev): the item the tree was on is removed.  An e below *)
(* it would leave the tree without a current item: see DirectoryTree.      *)
NewGivenUp(e, yes, linked, newNow) ==
    /\ shown \in newNow /\ ~yes
    /\ current = Root \/ ParentIn(parent', e) # current
    /\ tree' = Unlink(linked, current) /\ new' = newNow
    /\ Arrives(e)
    /\ UNCHANGED detached

(* A mistaken OldLeft that stays with an entry it could not save.          *)
OldLeftOrStayed(e, yes, ok, linked, newNow) ==
    /\ shown \notin newNow
    /\ tree' = linked /\ new' = newNow
    /\ IF Unsaved /\ yes /\ ~ok
       THEN UNCHANGED <<shown, edit, dirty, saveOn, revertOn>>
       ELSE Arrives(e)
    /\ UNCHANGED detached

(* Nothing to ask, or changes to an old entry: whatever is answered and    *)
(* however its save ends, the table goes on to e.                          *)
OldLeft(e, yes, ok, linked, newNow) ==
    /\ shown \notin newNow
    /\ tree' = linked /\ new' = newNow
    /\ Arrives(e)
    /\ UNCHANGED detached

Moves(e, yes, ok, linked, newNow, held) ==
    /\ current' = e
    /\ \/ NewRefused(yes, ok, linked, newNow)
       \/ NewSaved(e, yes, ok, linked, newNow)
       \/ NewGivenUp(e, yes, linked, newNow)
       \/ OldLeft(e, yes, ok, linked, newNow)
    /\ (shown \in newNow /\ ok) => ParentOf(shown) \in held
    /\ server' = held \cup (newNow \ new')
    /\ UNCHANGED life

-----------------------------------------------------------------------------
(* The user's commands. *)

Select(e, yes, ok) ==
    /\ Ready /\ e \in Displayed \ {current}
    /\ UNCHANGED <<parent, goto>>
    /\ Moves(e, yes, ok, tree, new, server)

(* CLdapTreeView::onNewEntry: the entry is linked, then selected.          *)
NewEntry(n, yes, ok) ==
    /\ Ready /\ n \notin tree \cup new \cup server
    /\ current \in Existing
    /\ parent' = [parent EXCEPT ![n] = current]
    /\ UNCHANGED goto
    /\ Moves(n, yes, ok, tree \cup {n}, new \cup {n}, server)

(* CLdapTreeView::onEditEntry: rows of the table's entry come and go with  *)
(* the classes, the tree's entry gets the edit flag.                       *)
EditEntry(classesChanged, changes) ==
    /\ Ready /\ current # Root
    /\ edit' = edit \cup {current}
    /\ dirty' = IF shown = current \/ classesChanged THEN shown # None /\ changes ELSE dirty
    /\ IF classesChanged
       THEN Enables(shown # None /\ (shown \in new \/ shown \in edit' \/ dirty'))
       ELSE UNCHANGED <<saveOn, revertOn>>
    /\ UNCHANGED <<server, tree, parent, current, shown, new, goto, life, detached>>

(* Any edit of the table's rows and the signal it ends with.               *)
EditRows(changes) ==
    /\ Ready /\ shown # None
    /\ dirty' = changes
    /\ Enables(shown \in new \/ shown \in edit \/ changes)
    /\ UNCHANGED <<server, tree, parent, current, shown, new, edit, goto, life, detached>>

(* enableUser and disableUser of the tree's entry re-read its rows without *)
(* a signal of the table.                                                  *)
EnableUser ==
    /\ Ready /\ current \in server \ {Root}
    /\ dirty' = (dirty /\ shown # current)
    /\ UNCHANGED <<server, tree, parent, current, shown, new, edit, saveOn, revertOn,
                   goto, life, detached>>

(* CLdapTreeView::onDeleteEntry, the server having deleted the entry.  The *)
(* view leaves the row before it goes, for a neighbour or for the parent.  *)
DeleteEntry(e, yes, ok) ==
    /\ Ready
    /\ current \in server \ {Root}
    /\ \A child \in server \ {Root} : ParentOf(child) # current
    /\ e \in Displayed \ {current}
    /\ e # ParentOf(current) => e # Root /\ ParentOf(e) = ParentOf(current)
    /\ UNCHANGED parent
    /\ goto' = IF e = ParentOf(current) THEN None ELSE ParentOf(current)
    /\ Moves(e, yes, ok, Unlink(tree, current), new, server \ {current})

(* ... and then goes to the parent.                                        *)
GoToParent(yes, ok) ==
    /\ running /\ goto # None
    /\ goto' = None
    /\ UNCHANGED parent
    /\ Moves(goto, yes, ok, tree, new, server)

(* CLdapAttributesModel::Save: a refused new or edited entry keeps its     *)
(* rows, separate attributes are always given up.                          *)
Saves(ok) ==
    LET kept == ~ok /\ (shown \in new \/ shown \in edit)
    IN  /\ new' = IF kept THEN new ELSE new \ {shown}
        /\ edit' = IF kept \/ shown \in new THEN edit ELSE edit \ {shown}
        /\ server' = server \cup (new \ new')
        /\ dirty' = (dirty /\ kept)

(* MainWindow::onSaveData.  CAttributesList::SaveData uses its entry after *)
(* the save, and there may be none.                                        *)
SaveData(ok) ==
    /\ Ready /\ saveOn
    /\ ok => ParentOf(shown) \in server
    /\ IF shown = None
       THEN /\ crashed' = "saving" /\ running' = FALSE
            /\ UNCHANGED <<server, new, edit, dirty, saveOn, revertOn>>
       ELSE /\ Saves(ok)
            /\ LET kept == shown \in new' \/ shown \in edit'
               IN  IF kept /\ ~ok THEN UNCHANGED <<saveOn, revertOn>> ELSE Enables(kept)
            /\ UNCHANGED life
    /\ UNCHANGED <<tree, parent, current, shown, goto, detached>>

(* MainWindow::onRevertChanges.  With a new entry in the table, the item   *)
(* the tree is on is removed; the root has no parent to remove it from.    *)
Revert ==
    /\ Ready /\ revertOn
    /\ \/ /\ shown \in new /\ current # Root
          /\ tree' = Unlink(tree, current)
          /\ current' = ParentOf(current)
          /\ Shows(None) /\ Enables(TRUE)
          /\ detached' = TRUE
          /\ UNCHANGED life
       \/ /\ shown \in new /\ current = Root
          /\ crashed' = "reverting" /\ running' = FALSE
          /\ UNCHANGED <<tree, current, shown, edit, dirty, saveOn, revertOn, detached>>
       \/ /\ shown \notin new /\ shown \in edit
          /\ shown' = current /\ dirty' = FALSE
          /\ edit' = edit \ {current, shown}
          /\ Enables(current \in new)
          /\ UNCHANGED <<tree, current, life, detached>>
       \/ /\ shown \notin new \cup edit
          /\ Shows(current)
          /\ Enables(current \in new \/ current \in edit)
          /\ UNCHANGED <<tree, current, life, detached>>
    /\ UNCHANGED <<server, parent, new, goto>>

(* MainWindow::onReload saves first, whatever comes of it, and needs no    *)
(* enabled action; the tree is then read again and is on its root.         *)
Reload(ok) ==
    /\ Ready
    /\ ok => ParentOf(shown) \in server
    /\ IF shown = None
       THEN /\ crashed' = "saving" /\ running' = FALSE
            /\ UNCHANGED <<server, tree, current, shown, new, edit, dirty, saveOn, revertOn>>
       ELSE /\ server' = IF ok /\ shown \in new THEN server \cup {shown} ELSE server
            /\ tree' = server'
            /\ current' = Root /\ shown' = Root
            /\ new' = {} /\ edit' = {} /\ dirty' = FALSE
            /\ Enables(FALSE)
            /\ UNCHANGED life
    /\ UNCHANGED <<parent, goto, detached>>

(* MainWindow::onQuit closes the window.                                   *)
Quit ==
    /\ Ready
    /\ running' = FALSE
    /\ UNCHANGED <<server, tree, parent, current, shown, new, edit, dirty, saveOn, revertOn,
                   goto, crashed, detached>>

Next ==
    \/ \E e \in Entries, yes, ok \in BOOLEAN : Select(e, yes, ok) \/ DeleteEntry(e, yes, ok)
    \/ \E n \in NewEntries, yes, ok \in BOOLEAN : NewEntry(n, yes, ok)
    \/ \E classesChanged, changes \in BOOLEAN : EditEntry(classesChanged, changes)
    \/ \E changes \in BOOLEAN : EditRows(changes)
    \/ \E yes, ok \in BOOLEAN : GoToParent(yes, ok)
    \/ \E ok \in BOOLEAN : SaveData(ok) \/ Reload(ok)
    \/ EnableUser \/ Revert \/ Quit

Spec == Init /\ [][Next]_vars

-----------------------------------------------------------------------------
(* Until a new entry is refused by the server on leaving it, or reverted,  *)
(* tree and table agree: the table shows the tree's item, unsaved work and *)
(* edit mode are nowhere else, no entry of the server has left the tree,   *)
(* and the window has an entry to work on.                                 *)
AgreeUntilDetached ==
    ~detached => /\ shown = current
                 /\ new \cap tree \subseteq {shown}
                 /\ edit \subseteq {shown}
                 /\ server \subseteq tree
                 /\ crashed = "no"

(* Every item of the tree is an entry the server holds or a new one, even  *)
(* after refused saves, deletions and refreshes.                           *)
TreeIsKnown == tree \subseteq server \cup new

(* An edit of the rows of an entry can always be saved and reverted: the   *)
(* actions are enabled by signals, and disabled once more on arriving.     *)
EditsCanBeSaved == dirty /\ shown \notin edit => saveOn /\ revertOn
=============================================================================
