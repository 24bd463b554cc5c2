------------------------- MODULE EntrySelectionProofs -------------------------
(***************************************************************************)
(* What EntrySelection promises for any tree of entries.                   *)
(*                                                                         *)
(* Anatomy is what the promises rest on: a new entry is not on the server, *)
(* a created entry hangs below an existing one for as long as anything     *)
(* remembers it, and after a deletion the tree still has to go to the      *)
(* parent of the neighbour it is on.  Every command that moves the tree    *)
(* does so through Moves, whose effect MoveKeeps states once.              *)
(***************************************************************************)
EXTENDS EntrySelection, TLAPS

Anatomy ==
    /\ new \cap server = {}
    /\ \A n \in NewEntries : n \in tree \cup server \cup new => parent[n] \in Existing
    /\ goto # None => current # Root /\ goto = ParentOf(current)

IInv == TypeOK /\ Anatomy /\ TreeIsKnown /\ AgreeUntilDetached /\ EditsCanBeSaved

(* What the part of the state that Moves determines has to satisfy.        *)
Settled ==
    /\ server \subseteq Entries /\ Root \in server
    /\ tree \subseteq Entries /\ Root \in tree
    /\ current \in Displayed /\ shown \in Entries \cup {None}
    /\ new \subseteq NewEntries /\ edit \subseteq Entries \ {Root}
    /\ dirty \in BOOLEAN /\ saveOn \in BOOLEAN /\ revertOn \in BOOLEAN
    /\ running \in BOOLEAN /\ detached \in BOOLEAN
    /\ crashed \in {"no", "saving", "reverting"}
    /\ new \cap server = {}
    /\ TreeIsKnown /\ AgreeUntilDetached /\ EditsCanBeSaved

-----------------------------------------------------------------------------
(* IInv is Settled and what is left of it.                                 *)
LEMMA Parts ==
    IInv <=> /\ Settled
             /\ parent \in [NewEntries -> Existing \cup {None}]
             /\ goto \in Entries \cup {None}
             /\ Anatomy
  BY DEF IInv, TypeOK, Anatomy, Settled

LEMMA PartsNext ==
    ASSUME Settled', parent' \in [NewEntries -> Existing \cup {None}],
           goto' \in Entries \cup {None}, Anatomy'
    PROVE  IInv'
  BY DEF IInv, TypeOK, Anatomy, Settled

(* The window starts on the root, with nothing created or changed.         *)
LEMMA InitOK == Init => IInv
<1> SUFFICES ASSUME Init PROVE IInv
  OBVIOUS
<1>1. TypeOK
  BY DEF Init, TypeOK, Entries, Displayed, ParentOf, ParentIn
<1>2. Anatomy
  BY EntriesAssumption DEF Init, Anatomy
<1> QED
  BY <1>1, <1>2 DEF Init, IInv, TreeIsKnown, AgreeUntilDetached, EditsCanBeSaved

(* What a command has to hand to Moves: the item gone to is displayed and  *)
(* is not the one left, and the tree as it now is holds what it should.    *)
MayMove(e, linked, newNow, held) ==
    /\ Root \in linked /\ linked \subseteq Entries /\ linked \subseteq held \cup newNow
    /\ Root \in held /\ held \subseteq Entries
    /\ newNow \subseteq NewEntries /\ newNow \cap held = {}
    /\ e \in linked /\ e # current
    /\ e = Root \/ ParentIn(parent', e) \in linked
    /\ ~detached => /\ newNow \cap linked \subseteq {shown, e}
                    /\ shown \in newNow => shown \in linked
                    /\ held \subseteq linked

(* onTreeItemChanged: such a move keeps the window settled, whatever is    *)
(* answered and however saving ends; and nothing is remembered that was    *)
(* not before.                                                             *)
LEMMA MoveKeeps ==
    ASSUME Settled, NEW e, NEW yes, NEW ok, NEW linked, NEW newNow, NEW held,
           MayMove(e, linked, newNow, held), Moves(e, yes, ok, linked, newNow, held)
    PROVE  Settled' /\ tree' \cup server' \cup new' \subseteq linked \cup held \cup newNow
<1> USE EntriesAssumption DEF Settled, Entries, MayMove
<1>1. current' = e /\ server' = held \cup (newNow \ new') /\ UNCHANGED life
  BY DEF Moves
<1>2. CASE NewRefused(yes, ok, linked, newNow)
  <2>1. /\ tree' = linked /\ new' = newNow /\ server' = held /\ detached'
        /\ UNCHANGED <<shown, edit, dirty, saveOn, revertOn>>
    BY <1>1, <1>2 DEF NewRefused
  <2>2. current' \in Displayed'
    BY <1>1, <2>1 DEF Displayed, ParentOf
  <2>3. (TreeIsKnown /\ AgreeUntilDetached /\ EditsCanBeSaved)'
    BY <2>1 DEF TreeIsKnown, AgreeUntilDetached, EditsCanBeSaved
  <2> QED
    BY <1>1, <2>1, <2>2, <2>3 DEF life
<1>3. ASSUME Arrives(e)
      PROVE  /\ shown' = e /\ edit' = edit \ ({shown} \ {e}) /\ dirty' = FALSE
             /\ saveOn' \in BOOLEAN /\ revertOn' \in BOOLEAN
             /\ edit' \subseteq Entries \ {Root}
             /\ EditsCanBeSaved'
  BY <1>3 DEF Arrives, Shows, EditsCanBeSaved
<1>4. CASE NewSaved(e, yes, ok, linked, newNow)
  <2>1. /\ tree' = linked /\ new' = newNow \ {shown} /\ shown \in newNow
        /\ server' = held \cup {shown} /\ Arrives(e) /\ detached' = detached
    BY <1>1, <1>4 DEF NewSaved
  <2>2. current' \in Displayed'
    BY <1>1, <2>1 DEF Displayed, ParentOf
  <2>3. TreeIsKnown'
    BY <2>1 DEF TreeIsKnown
  <2>4. AgreeUntilDetached'
    BY <1>1, <1>3, <2>1 DEF AgreeUntilDetached, life
  <2> QED
    BY <1>1, <1>3, <2>1, <2>2, <2>3, <2>4 DEF life
<1>5. CASE NewGivenUp(e, yes, linked, newNow)
  <2>1. /\ tree' = Unlink(linked, current) /\ new' = newNow /\ shown \in newNow
        /\ server' = held /\ Arrives(e) /\ detached' = detached
        /\ current = Root \/ ParentIn(parent', e) # current
    BY <1>1, <1>5 DEF NewGivenUp
  <2>2. current' \in Displayed'
    BY <1>1, <2>1 DEF Displayed, ParentOf, Unlink
  <2>3. TreeIsKnown' /\ tree' \subseteq linked /\ Root \in tree'
    BY <2>1 DEF TreeIsKnown, Unlink
  <2>4. AgreeUntilDetached'
    BY <1>1, <1>3, <2>1 DEF AgreeUntilDetached, Unlink, life
  <2> QED
    BY <1>1, <1>3, <2>1, <2>2, <2>3, <2>4 DEF life
<1>6. CASE OldLeft(e, yes, ok, linked, newNow)
  <2>1. /\ tree' = linked /\ new' = newNow /\ shown \notin newNow
        /\ server' = held /\ Arrives(e) /\ detached' = detached
    BY <1>1, <1>6 DEF OldLeft
  <2>2. current' \in Displayed'
    BY <1>1, <2>1 DEF Displayed, ParentOf
  <2>3. TreeIsKnown'
    BY <2>1 DEF TreeIsKnown
  <2>4. AgreeUntilDetached'
    BY <1>1, <1>3, <2>1 DEF AgreeUntilDetached, life
  <2> QED
    BY <1>1, <1>3, <2>1, <2>2, <2>3, <2>4 DEF life
<1> QED
  BY <1>2, <1>4, <1>5, <1>6 DEF Moves

-----------------------------------------------------------------------------
(* Choosing another item. *)
LEMMA SelectKeeps ==
    ASSUME IInv, NEW e \in Entries, NEW yes \in BOOLEAN, NEW ok \in BOOLEAN, Select(e, yes, ok)
    PROVE  IInv'
<1> USE EntriesAssumption
<1>1. /\ Settled /\ Anatomy /\ goto = None /\ UNCHANGED <<parent, goto>>
      /\ e \in Displayed /\ e # current
  BY Parts DEF Select, Ready
<1> PICK l, w, h : l = tree /\ w = new /\ h = server
  OBVIOUS
<1>2. Moves(e, yes, ok, l, w, h)
  BY DEF Select, Moves, NewRefused, NewSaved, NewGivenUp, OldLeft
<1>3. e \in tree /\ (e = Root \/ ParentIn(parent', e) \in tree)
  BY <1>1 DEF Displayed, ParentOf, ParentIn
<1>4. MayMove(e, l, w, h)
  BY <1>1, <1>3 DEF MayMove, Settled, TreeIsKnown, AgreeUntilDetached, Displayed
<1>5. Settled' /\ tree' \cup server' \cup new' \subseteq tree \cup server \cup new
  BY <1>1, <1>2, <1>4, MoveKeeps
<1>6. Anatomy'
  BY <1>1, <1>5 DEF Anatomy, Settled
<1>7. parent \in [NewEntries -> Existing \cup {None}] /\ goto \in Entries \cup {None}
  BY Parts
<1> QED
  BY <1>1, <1>5, <1>6, <1>7, PartsNext

(* Creating an entry below the current one and going to it.                *)
LEMMA NewEntryKeeps ==
    ASSUME IInv, NEW n \in NewEntries, NEW yes \in BOOLEAN, NEW ok \in BOOLEAN,
           NewEntry(n, yes, ok)
    PROVE  IInv'
<1> USE EntriesAssumption
<1>1. /\ Settled /\ Anatomy /\ goto = None /\ goto' = goto
      /\ parent \in [NewEntries -> Existing \cup {None}]
      /\ n \notin tree \cup new \cup server /\ current \in Existing
      /\ parent' = [parent EXCEPT ![n] = current]
  BY Parts DEF NewEntry, Ready
<1> PICK l, w, h : l = tree \cup {n} /\ w = new \cup {n} /\ h = server
  OBVIOUS
<1>2. Moves(n, yes, ok, l, w, h)
  BY DEF NewEntry, Moves, NewRefused, NewSaved, NewGivenUp, OldLeft
<1>3. /\ parent' \in [NewEntries -> Existing \cup {None}] /\ parent'[n] = current
      /\ \A m \in NewEntries \ {n} : parent'[m] = parent[m]
  BY <1>1
<1>4. n \in l /\ n # current /\ ParentIn(parent', n) \in l
  BY <1>1, <1>3 DEF ParentIn, Settled, Displayed
<1>5. MayMove(n, l, w, h)
  BY <1>1, <1>4 DEF MayMove, Settled, TreeIsKnown, AgreeUntilDetached, Displayed, Entries
<1>6. Settled' /\ tree' \cup server' \cup new' \subseteq l \cup h \cup w
  BY <1>1, <1>2, <1>5, MoveKeeps
<1>7. Anatomy'
  BY <1>1, <1>3, <1>6 DEF Anatomy, Settled
<1> QED
  BY <1>1, <1>3, <1>6, <1>7, PartsNext

(* Deleting an entry: the tree leaves it for its parent or for a sibling,  *)
(* and neither hangs below it.                                             *)
LEMMA DeleteKeeps ==
    ASSUME IInv, NEW e \in Entries, NEW yes \in BOOLEAN, NEW ok \in BOOLEAN,
           DeleteEntry(e, yes, ok)
    PROVE  IInv'
<1> USE EntriesAssumption
<1>1. /\ Settled /\ Anatomy /\ UNCHANGED parent
      /\ parent \in [NewEntries -> Existing \cup {None}] /\ goto \in Entries \cup {None}
      /\ current \in server \ {Root} /\ e \in Displayed \ {current}
      /\ e # ParentOf(current) => e # Root /\ ParentOf(e) = ParentOf(current)
      /\ goto' = IF e = ParentOf(current) THEN None ELSE ParentOf(current)
  BY Parts DEF DeleteEntry
<1> PICK l, w, h : l = tree \ {current} /\ w = new /\ h = server \ {current}
  OBVIOUS
<1>2. Moves(e, yes, ok, l, w, h)
  BY <1>1 DEF DeleteEntry, Unlink, Moves, NewRefused, NewSaved, NewGivenUp, OldLeft
<1>3. /\ ParentOf(current) \in {Root} \cup Existing /\ ParentOf(current) # current
      /\ ParentOf(current) \in tree
      /\ ParentOf(current) # Root => ParentOf(ParentOf(current)) = Root
  BY <1>1 DEF Anatomy, ParentOf, ParentIn, Settled, Displayed
<1>4. ParentIn(parent', e) = ParentOf(e) /\ ParentOf(e)' = ParentOf(e)
  BY <1>1 DEF ParentOf
<1>5. e \in l /\ e # current /\ (e = Root \/ ParentIn(parent', e) \in l)
  <2>1. CASE e = ParentOf(current)
    BY <1>1, <1>3, <1>4, <2>1 DEF Displayed, Settled
  <2>2. CASE e # ParentOf(current)
    BY <1>1, <1>3, <1>4, <2>2 DEF Displayed
  <2> QED
    BY <2>1, <2>2
<1>6. MayMove(e, l, w, h)
  BY <1>1, <1>5 DEF MayMove, Settled, TreeIsKnown, AgreeUntilDetached
<1>7. Settled' /\ tree' \cup server' \cup new' \subseteq l \cup h \cup w
  BY <1>1, <1>2, <1>6, MoveKeeps
<1>8. /\ current' = e /\ goto' \in Entries \cup {None}
      /\ goto' # None => e # Root /\ goto' = ParentOf(e)
  BY <1>1, <1>2, <1>3 DEF Moves, Entries
<1>9. Anatomy'
  BY <1>1, <1>4, <1>7, <1>8 DEF Anatomy, Settled
<1> QED
  BY <1>1, <1>7, <1>8, <1>9, PartsNext

(* ... and then goes from the sibling to the parent of both.               *)
LEMMA GoToParentKeeps ==
    ASSUME IInv, NEW yes \in BOOLEAN, NEW ok \in BOOLEAN, GoToParent(yes, ok)
    PROVE  IInv'
<1> USE EntriesAssumption
<1>1. /\ Settled /\ Anatomy /\ goto # None /\ goto' = None /\ UNCHANGED parent
      /\ parent \in [NewEntries -> Existing \cup {None}]
      /\ current # Root /\ goto = ParentOf(current)
  BY Parts DEF GoToParent, Anatomy
<1> PICK e, l, w, h : e = goto /\ l = tree /\ w = new /\ h = server
  OBVIOUS
<1>2. Moves(e, yes, ok, l, w, h)
  BY DEF GoToParent, Moves, NewRefused, NewSaved, NewGivenUp, OldLeft, Arrives, Shows
<1>3. e \in {Root} \cup Existing /\ e \in tree /\ e # current
  BY <1>1 DEF Anatomy, ParentOf, ParentIn, Settled, Displayed, Entries
<1>4. e = Root \/ ParentIn(parent', e) \in l
  BY <1>1, <1>3 DEF ParentIn, Settled
<1>5. MayMove(e, l, w, h)
  BY <1>1, <1>3, <1>4 DEF MayMove, Settled, TreeIsKnown, AgreeUntilDetached, Displayed
<1>6. Settled' /\ tree' \cup server' \cup new' \subseteq tree \cup server \cup new
  BY <1>1, <1>2, <1>5, MoveKeeps
<1>7. Anatomy'
  BY <1>1, <1>6 DEF Anatomy, Settled
<1> QED
  BY <1>1, <1>6, <1>7, PartsNext

-----------------------------------------------------------------------------
(* onEditEntry, edits of the rows and enabling a user: tree and server     *)
(* stay, and the actions follow the rows.                                  *)
LEMMA EditKeeps ==
    ASSUME IInv, NEW classesChanged \in BOOLEAN, NEW changes \in BOOLEAN,
           EditEntry(classesChanged, changes) \/ EditRows(changes) \/ EnableUser
    PROVE  IInv'
<1> USE EntriesAssumption
<1>1. /\ Settled /\ Anatomy /\ parent \in [NewEntries -> Existing \cup {None}]
      /\ goto \in Entries \cup {None}
      /\ UNCHANGED <<server, tree, parent, current, shown, new, goto, life, detached>>
  BY Parts DEF EditEntry, EditRows, EnableUser
<1>2. /\ Displayed' = Displayed /\ Anatomy' /\ TreeIsKnown'
  BY <1>1 DEF Displayed, ParentOf, Anatomy, TreeIsKnown, Settled
<1>3. /\ dirty' \in BOOLEAN /\ saveOn' \in BOOLEAN /\ revertOn' \in BOOLEAN
      /\ edit' \subseteq Entries \ {Root} /\ edit' \subseteq edit \cup {current}
      /\ EditsCanBeSaved'
  <2>1. CASE EditEntry(classesChanged, changes)
    <3>1. /\ edit' = edit \cup {current} /\ current \in Entries \ {Root}
      BY <1>1, <2>1 DEF EditEntry, Settled, Displayed
    <3>2. CASE classesChanged
      BY <1>1, <2>1, <3>1, <3>2 DEF EditEntry, Enables, Settled, EditsCanBeSaved
    <3>3. CASE ~classesChanged
      BY <1>1, <2>1, <3>1, <3>3 DEF EditEntry, Settled, EditsCanBeSaved
    <3> QED
      BY <3>2, <3>3
  <2>2. CASE EditRows(changes)
    BY <1>1, <2>2 DEF EditRows, Enables, Settled, EditsCanBeSaved
  <2>3. CASE EnableUser
    BY <1>1, <2>3 DEF EnableUser, Settled, EditsCanBeSaved
  <2> QED
    BY <2>1, <2>2, <2>3
<1>4. Settled'
  BY <1>1, <1>2, <1>3 DEF Settled, AgreeUntilDetached, life
<1> QED
  BY <1>1, <1>2, <1>4, PartsNext

(* onSaveData: a new entry that was saved joins the server, one that was   *)
(* refused keeps its rows and its actions.                                 *)
LEMMA SaveDataKeeps ==
    ASSUME IInv, NEW ok \in BOOLEAN, SaveData(ok)
    PROVE  IInv'
<1> USE EntriesAssumption
<1>1. /\ Settled /\ Anatomy /\ parent \in [NewEntries -> Existing \cup {None}]
      /\ goto \in Entries \cup {None} /\ running
      /\ UNCHANGED <<tree, parent, current, shown, goto, detached>>
  BY Parts DEF SaveData, Ready
<1>2. current \in Displayed'
  BY <1>1 DEF Displayed, ParentOf, Settled
<1>3. CASE shown = None
  <2>1. UNCHANGED <<server, new, edit, dirty, saveOn, revertOn>> /\ crashed' = "saving" /\ running' = FALSE
    BY <1>3 DEF SaveData
  <2>2. detached /\ detached'
    BY <1>1, <1>3 DEF Settled, AgreeUntilDetached, Displayed, Entries
  <2>3. Settled'
    BY <1>1, <1>2, <2>1, <2>2 DEF Settled, TreeIsKnown, AgreeUntilDetached, EditsCanBeSaved
  <2>4. Anatomy'
    BY <1>1, <2>1 DEF Anatomy, ParentOf
  <2> QED
    BY <1>1, <2>3, <2>4, PartsNext
<1>4. CASE shown # None
  <2> DEFINE kept == ~ok /\ (shown \in new \/ shown \in edit)
  <2>1. /\ new' = (IF kept THEN new ELSE new \ {shown})
        /\ edit' = (IF kept \/ shown \in new THEN edit ELSE edit \ {shown})
        /\ server' = server \cup (new \ new')
        /\ dirty' = (dirty /\ kept)
        /\ UNCHANGED life
        /\ IF (shown \in new' \/ shown \in edit') /\ ~ok
           THEN UNCHANGED <<saveOn, revertOn>>
           ELSE saveOn' = (shown \in new' \/ shown \in edit') /\ revertOn' = saveOn'
    BY <1>4 DEF SaveData, Saves, Enables
  <2>2. /\ new' \subseteq new /\ edit' \subseteq edit /\ new \ new' \subseteq {shown}
        /\ server' \subseteq server \cup new /\ server' \cup new' = server \cup new
        /\ new' \cap server' = {}
    BY <1>1, <2>1 DEF Settled
  <2>3. dirty' \in BOOLEAN /\ saveOn' \in BOOLEAN /\ revertOn' \in BOOLEAN
    BY <1>1, <2>1 DEF Settled
  <2>4. EditsCanBeSaved'
    BY <1>1, <2>1 DEF Settled, EditsCanBeSaved
  <2>5. TreeIsKnown'
    BY <1>1, <2>2 DEF Settled, TreeIsKnown
  <2>6. AgreeUntilDetached'
    BY <1>1, <2>1, <2>2 DEF Settled, AgreeUntilDetached, Displayed, life
  <2>7. Settled'
    BY <1>1, <1>2, <2>1, <2>2, <2>3, <2>4, <2>5, <2>6 DEF Settled, Entries, life
  <2>8. Anatomy'
    BY <1>1, <2>2 DEF Anatomy, ParentOf
  <2> QED
    BY <1>1, <2>7, <2>8, PartsNext
<1> QED
  BY <1>3, <1>4

(* onRevertChanges: taking the tree's item out leaves its parent, which is *)
(* on display; the table is then on nothing, which detached records.       *)
LEMMA RevertKeeps == IInv /\ Revert => IInv'
<1> SUFFICES ASSUME IInv, Revert PROVE IInv'
  OBVIOUS
<1> USE EntriesAssumption
<1>1. /\ Settled /\ Anatomy /\ parent \in [NewEntries -> Existing \cup {None}]
      /\ goto = None /\ running /\ UNCHANGED <<server, parent, new, goto>>
  BY Parts DEF Revert, Ready
<1>2. ASSUME tree' \subseteq tree PROVE Anatomy' /\ TreeIsKnown'
  BY <1>1, <1>2 DEF Anatomy, Settled, TreeIsKnown
<1>3. CASE /\ shown \in new /\ current # Root
           /\ tree' = Unlink(tree, current)
           /\ current' = ParentOf(current)
           /\ Shows(None) /\ Enables(TRUE)
           /\ detached' = TRUE
           /\ UNCHANGED life
  <2>1. tree' = tree \ {current}
    BY <1>3 DEF Unlink
  <2>2. /\ ParentOf(current) \in tree \ {current}
        /\ ParentOf(current) \in {Root} \cup Existing
    BY <1>1, <1>3 DEF Settled, Displayed, Anatomy, ParentOf, ParentIn
  <2>3. current' \in Displayed'
    BY <1>1, <1>3, <2>1, <2>2 DEF Settled, Displayed, ParentOf, ParentIn
  <2>4. Settled'
    BY <1>1, <1>2, <1>3, <2>1, <2>3
       DEF Settled, Shows, Enables, AgreeUntilDetached, EditsCanBeSaved, life
  <2> QED
    BY <1>1, <1>2, <2>1, <2>4, PartsNext
<1>4. CASE /\ shown \in new /\ current = Root
           /\ crashed' = "reverting" /\ running' = FALSE
           /\ UNCHANGED <<tree, current, shown, edit, dirty, saveOn, revertOn, detached>>
  <2>1. current' \in Displayed'
    BY <1>1, <1>4 DEF Settled, Displayed, ParentOf
  <2>2. Settled'
    BY <1>1, <1>2, <1>4, <2>1 DEF Settled, AgreeUntilDetached, EditsCanBeSaved
  <2> QED
    BY <1>1, <1>2, <1>4, <2>2, PartsNext
<1>5. CASE /\ UNCHANGED <<tree, current, life, detached>>
           /\ shown' = current /\ dirty' = FALSE
           /\ edit' \subseteq edit /\ (shown \notin edit' \/ shown = current)
           /\ saveOn' \in BOOLEAN /\ revertOn' \in BOOLEAN
  <2>1. current' \in Displayed'
    BY <1>1, <1>5 DEF Settled, Displayed, ParentOf
  <2>2. Settled'
    BY <1>1, <1>2, <1>5, <2>1
       DEF Settled, AgreeUntilDetached, EditsCanBeSaved, Displayed, life
  <2> QED
    BY <1>1, <1>2, <1>5, <2>2, PartsNext
<1>6. CASE /\ shown' = current /\ dirty' = FALSE
           /\ edit' = edit \ {current, shown}
           /\ Enables(current \in new)
           /\ UNCHANGED <<tree, current, life, detached>>
  <2>1. saveOn' \in BOOLEAN /\ revertOn' \in BOOLEAN
    BY <1>6 DEF Enables
  <2>2. edit' \subseteq edit /\ shown \notin edit'
    BY <1>6
  <2> QED
    BY <1>5, <1>6, <2>1, <2>2
<1>7. CASE /\ Shows(current)
           /\ Enables(current \in new \/ current \in edit)
           /\ UNCHANGED <<tree, current, life, detached>>
  <2>1. saveOn' \in BOOLEAN /\ revertOn' \in BOOLEAN
    BY <1>7 DEF Enables
  <2>2. /\ edit' \subseteq edit /\ (shown \notin edit' \/ shown = current)
        /\ shown' = current /\ dirty' = FALSE
    BY <1>7 DEF Shows
  <2> QED
    BY <1>5, <1>7, <2>1, <2>2
<1> QED
  BY <1>3, <1>4, <1>6, <1>7 DEF Revert

(* onReload: whatever was saved, the tree is what the server now holds.    *)
LEMMA ReloadKeeps ==
    ASSUME IInv, NEW ok \in BOOLEAN, Reload(ok)
    PROVE  IInv'
<1> USE EntriesAssumption
<1>1. /\ Settled /\ Anatomy /\ parent \in [NewEntries -> Existing \cup {None}]
      /\ goto = None /\ goto' = None /\ running /\ UNCHANGED <<parent, goto, detached>>
  BY Parts DEF Reload, Ready
<1>2. CASE shown = None
  <2>1. /\ UNCHANGED <<server, tree, current, shown, new, edit, dirty, saveOn, revertOn>>
        /\ crashed' = "saving" /\ running' = FALSE
    BY <1>2 DEF Reload
  <2>2. current' \in Displayed'
    BY <1>1, <2>1 DEF Settled, Displayed, ParentOf
  <2>3. detached /\ detached'
    BY <1>1, <1>2 DEF Settled, AgreeUntilDetached, Displayed, Entries
  <2>4. Settled'
    BY <1>1, <2>1, <2>2, <2>3 DEF Settled, TreeIsKnown, AgreeUntilDetached, EditsCanBeSaved
  <2>5. Anatomy'
    BY <1>1, <2>1 DEF Anatomy
  <2> QED
    BY <1>1, <2>4, <2>5, PartsNext
<1>3. CASE shown # None
  <2>1. /\ server' = (IF ok /\ shown \in new THEN server \cup {shown} ELSE server)
        /\ tree' = server' /\ current' = Root /\ shown' = Root
        /\ new' = {} /\ edit' = {} /\ dirty' = FALSE
        /\ saveOn' = FALSE /\ revertOn' = FALSE /\ UNCHANGED life
    BY <1>3 DEF Reload, Enables
  <2>2. server' \subseteq server \cup new /\ Root \in server'
    BY <1>1, <2>1 DEF Settled
  <2>3. Settled'
    BY <1>1, <2>1, <2>2 DEF Settled, TreeIsKnown, AgreeUntilDetached, EditsCanBeSaved,
                            Displayed, Entries, life
  <2>4. Anatomy'
    BY <1>1, <2>1, <2>2 DEF Anatomy
  <2> QED
    BY <1>1, <2>3, <2>4, PartsNext
<1> QED
  BY <1>2, <1>3

(* Closing the window, and steps of anything else.                         *)
LEMMA RestKeeps == IInv /\ (Quit \/ UNCHANGED vars) => IInv'
<1> SUFFICES ASSUME IInv, Quit \/ UNCHANGED vars PROVE IInv'
  OBVIOUS
<1>1. /\ UNCHANGED <<server, tree, parent, current, shown, new, edit, dirty, saveOn, revertOn>>
      /\ UNCHANGED <<goto, crashed, detached>> /\ running' \in BOOLEAN
  BY DEF Quit, vars, IInv, TypeOK
<1>2. Displayed' = Displayed /\ ParentOf(current)' = ParentOf(current)
  BY <1>1 DEF Displayed, ParentOf
<1> QED
  BY <1>1, <1>2 DEF IInv, TypeOK, Anatomy, TreeIsKnown, AgreeUntilDetached, EditsCanBeSaved

-----------------------------------------------------------------------------
(* The five parts hold together in every reachable state.                  *)
THEOREM Inductive == Spec => []IInv
<1>1. IInv /\ [Next]_vars => IInv'
  BY SelectKeeps, NewEntryKeeps, DeleteKeeps, GoToParentKeeps, EditKeeps, SaveDataKeeps,
     RevertKeeps, ReloadKeeps, RestKeeps
     DEF Next
<1> QED
  BY <1>1, InitOK, PTL DEF Spec

(* The window's state keeps its type: in particular the tree's current     *)
(* item is on display whatever has been removed around it.                 *)
THEOREM TypeCorrect == Spec => []TypeOK
<1>1. IInv => TypeOK
  BY DEF IInv
<1> QED
  BY <1>1, Inductive, PTL

(* onTreeItemChanged, onSaveData, onReload: until a new entry is refused   *)
(* or reverted, the table shows the tree's item, nothing unsaved is        *)
(* elsewhere and no entry of the server has left the tree.                 *)
THEOREM TreeAndTableAgree == Spec => []AgreeUntilDetached
<1>1. IInv => AgreeUntilDetached
  BY DEF IInv
<1> QED
  BY <1>1, Inductive, PTL

(* addNewEntry, removeRows, rebuild: every item of the tree is an entry of *)
(* the server or a new one.                                                *)
THEOREM NoGhostInTree == Spec => []TreeIsKnown
<1>1. IInv => TreeIsKnown
  BY DEF IInv
<1> QED
  BY <1>1, Inductive, PTL

(* onEntityClassesChanged and the end of onTreeItemChanged: edited rows    *)
(* outside edit mode always leave Save and Revert enabled.                 *)
THEOREM SaveNeverOutOfReach == Spec => []EditsCanBeSaved
<1>1. IInv => EditsCanBeSaved
  BY DEF IInv
<1> QED
  BY <1>1, Inductive, PTL
=============================================================================
