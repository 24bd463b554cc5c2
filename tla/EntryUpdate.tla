----------------------------- MODULE EntryUpdate -----------------------------
(***************************************************************************)
(* Editing the classes and attributes of one existing entry ("Edit entry") *)
(* and saving it with the single modification of CLdapServer::update,      *)
(* while another client writes to the same entry.                          *)
(*                                                                         *)
(* An entry is a set of values for each attribute and a set of auxiliary   *)
(* classes; its structural classes never change.  The table shows a set of *)
(* values for each attribute: an attribute of none has no row, Empty is a  *)
(* row not filled yet, and two rows of one attribute never show the same.  *)
(*                                                                         *)
(* The table also has read-only rows for the server's system attributes,   *)
(* the time of the last modification among them.  update compares them     *)
(* with the server's current ones like any other row, so that an outdated  *)
(* time is sent back as a value to add, which no server takes: the save is *)
(* refused whenever anybody wrote to the entry since the rows were loaded. *)
(* stamp says what those rows show.                                        *)
(***************************************************************************)
EXTENDS Naturals, FiniteSets

CONSTANTS
    Names, Values, \* attributes and their values
    Syntax,        \* the values each attribute can have
    Empty,         \* the text of a row not filled yet
    Aux,           \* auxiliary classes
    AttrsOf,       \* the attributes each of them allows but does not demand
    Base           \* the attributes the structural classes allow

ASSUME SchemaAssumption ==
    /\ Empty \notin Values /\ Syntax \in [Names -> SUBSET Values]
    /\ AttrsOf \in [Aux -> SUBSET Names]
    /\ Base \subseteq Names

VARIABLES
    dir,      \* the entry the server holds
    cache,    \* m_pEntry: the entry last read
    table,    \* m_attributes: the values shown of each attribute
    classes,  \* m_classes
    known,    \* m_classes is not empty: it is not to be loaded
    editing,  \* m_isEdit
    stamp,    \* the system rows: "current", "old" or "absent"
    phase,    \* what the GUI thread is at
    outdated, \* the modification under way carries system attributes
    leaving,  \* the save was the answer to a question on leaving the entry
    paired,   \* history: entry and stamp were read with no write in between
    raced     \* history: another client wrote during the save

vars == <<dir, cache, table, classes, known, editing, stamp, phase, outdated,
          leaving, paired, raced>>

Entries == {e \in [values : [Names -> SUBSET Values], classes : SUBSET Aux] :
                \A n \in Names : e.values[n] \subseteq Syntax[n]}

\* attributeByClasses: the attributes a set of classes allows.
Allowed(cs) == Base \union UNION {AttrsOf[c] : c \in cs}

\* What the server accepts as an entry.
Valid(e) == \A n \in Names : e.values[n] # {} => n \in Allowed(e.classes)

TypeOK ==
    /\ dir \in Entries /\ cache \in Entries
    /\ table \in [Names -> SUBSET (Values \union {Empty})]
    /\ \A n \in Names : table[n] \subseteq Syntax[n] \union {Empty}
    /\ classes \subseteq Aux /\ known \in BOOLEAN /\ editing \in BOOLEAN
    /\ stamp \in {"current", "old", "absent"}
    /\ phase \in {"idle", "saving", "reading", "stamping"}
    /\ outdated \in BOOLEAN /\ leaving \in BOOLEAN
    /\ paired \in BOOLEAN /\ raced \in BOOLEAN
    /\ ~known => phase = "reading"
    /\ editing => phase \in {"idle", "saving"}
    /\ phase = "saving" => editing
    /\ outdated \/ leaving \/ raced => phase = "saving"

Init ==
    /\ dir \in Entries /\ Valid(dir)
    /\ cache = dir /\ table = dir.values /\ classes = dir.classes
    /\ known = TRUE /\ editing = FALSE /\ stamp = "current" /\ phase = "idle"
    /\ outdated = FALSE /\ leaving = FALSE
    /\ paired = TRUE /\ raced = FALSE

----------------------------------------------------------------------------
(* The user. *)

\* onEditEntry: rows of attributes the new classes do not allow are taken
\* away, one for each value of the cached entry; attributes they newly allow
\* get a row to fill in.
Shrunk(n, rows) ==
    LET shown  == Cardinality(table[n])
        cached == Cardinality(cache.values[n])
    IN  /\ rows \subseteq table[n]
        /\ Cardinality(rows) = IF cached < shown THEN shown - cached ELSE 0

EditEntry(new) ==
    LET before == Allowed(classes)
        after  == Allowed(new)
    IN  /\ phase = "idle"
        /\ table' \in [Names -> SUBSET (Values \union {Empty})]
        /\ \A n \in Names :
               CASE n \in before \ after -> Shrunk(n, table'[n])
                 [] n \in after \ before -> table'[n] = table[n] \union {Empty}
                 [] OTHER                -> table'[n] = table[n]
        /\ classes' = new
        /\ editing' = TRUE
        /\ UNCHANGED <<dir, cache, known, stamp, phase, outdated, leaving, paired, raced>>

Edited(n, shown) ==
    /\ phase = "idle" /\ editing
    /\ table' = [table EXCEPT ![n] = shown]
    /\ UNCHANGED <<dir, cache, classes, known, editing, stamp, phase, outdated,
                   leaving, paired, raced>>

SetValue(n, old, new) ==
    /\ old \in table[n] /\ new \notin table[n]
    /\ Edited(n, (table[n] \ {old}) \union {new})

AddAttribute(n) ==
    /\ Empty \notin table[n]
    /\ Edited(n, table[n] \union {Empty})

DeleteAttribute(n, v) ==
    /\ v \in table[n]
    /\ Edited(n, table[n] \ {v})

\* Revert, or leaving the entry and answering no: the classes are to be
\* loaded again with the entry.
GiveUp ==
    /\ phase = "idle" /\ editing
    /\ editing' = FALSE /\ known' = FALSE /\ phase' = "reading"
    /\ UNCHANGED <<dir, cache, table, classes, stamp, outdated, leaving, paired, raced>>

\* Leaving an entry that is not being edited and coming back.
Reselect ==
    /\ phase = "idle" /\ ~editing
    /\ phase' = "reading"
    /\ UNCHANGED <<dir, cache, table, classes, known, editing, stamp, outdated,
                   leaving, paired, raced>>

\* The administrator sets the user's password: a modification of the entry
\* after which nothing is read again.
ChangePassword ==
    /\ phase = "idle"
    /\ stamp' = IF stamp = "current" THEN "old" ELSE stamp
    /\ UNCHANGED <<dir, cache, table, classes, known, editing, phase, outdated,
                   leaving, paired, raced>>

----------------------------------------------------------------------------
(* Saving: a search for the system attributes, then the modification. *)

\* Mutant: the search without the system attributes.
BeginSaveWithoutStamp(leave, found) ==
    /\ phase = "idle" /\ editing
    /\ outdated' = FALSE
    /\ leaving' = leave /\ phase' = "saving"
    /\ UNCHANGED <<dir, cache, table, classes, known, editing, stamp, paired, raced>>

BeginSave(leave, found) ==
    /\ phase = "idle" /\ editing
    /\ outdated' = (stamp # IF found THEN "current" ELSE "absent")
    /\ leaving' = leave /\ phase' = "saving"
    /\ UNCHANGED <<dir, cache, table, classes, known, editing, stamp, paired, raced>>

\* A row the cached entry does not have is a value to add.
Adds(n) == table[n] \ (cache.values[n] \union {Empty})

\* Mutant: an attribute left without rows is not deleted.
NoDeletes(n) == {}

\* Mutant: an attribute left without rows is deleted whatever it holds.
DeletesAll(n) == IF table[n] = {} /\ cache.values[n] # {} THEN dir.values[n] ELSE {}

\* The values of an attribute without any row are deleted one by one.
Deletes(n) == IF table[n] = {} THEN cache.values[n] ELSE {}

Updated == [values  |-> [n \in Names |-> (dir.values[n] \ Deletes(n)) \union Adds(n)],
            classes |-> classes]

\* The server takes the modification as a whole or not at all: it may add
\* no value that is there, delete none that is not, nor touch a system
\* attribute.
Acceptable ==
    /\ ~outdated
    /\ \A n \in Names : /\ Adds(n) \intersect dir.values[n] = {}
                        /\ Deletes(n) \subseteq dir.values[n]
    /\ Valid(Updated)

EndSave == outdated' = FALSE /\ leaving' = FALSE /\ raced' = FALSE

Accepted ==
    /\ phase = "saving" /\ Acceptable
    /\ dir' = Updated
    /\ editing' = FALSE /\ phase' = "reading"
    /\ EndSave
    /\ UNCHANGED <<cache, table, classes, known, stamp, paired>>

\* For this or any other reason; leaving goes on all the same.
Refused ==
    /\ phase = "saving"
    /\ IF leaving THEN editing' = FALSE /\ phase' = "reading"
                  ELSE phase' = "idle" /\ UNCHANGED editing
    /\ EndSave
    /\ UNCHANGED <<dir, cache, table, classes, known, stamp, paired>>

\* flushAttributesCache, its first search: when it fails the cached entry is
\* shown again.  loadClasses only loads when no classes are known.
Read(ok) ==
    /\ phase = "reading"
    /\ cache' = IF ok THEN dir ELSE cache
    /\ table' = cache'.values
    /\ classes' = IF known THEN classes ELSE cache'.classes
    /\ known' = TRUE
    /\ phase' = "stamping"
    /\ UNCHANGED <<dir, editing, stamp, outdated, leaving, paired, raced>>

\* ... and its second, for the system attributes.
ReadStamp(ok) ==
    /\ phase = "stamping"
    /\ stamp' = IF ok THEN "current" ELSE "absent"
    /\ paired' = (ok /\ cache = dir)
    /\ phase' = "idle"
    /\ UNCHANGED <<dir, cache, table, classes, known, editing, outdated, leaving, raced>>

----------------------------------------------------------------------------
\* Another client.
OtherClient(e) ==
    /\ e # dir /\ Valid(e)
    /\ dir' = e
    /\ stamp' = IF stamp = "current" THEN "old" ELSE stamp
    /\ raced' = (raced \/ phase = "saving")
    /\ UNCHANGED <<cache, table, classes, known, editing, phase, outdated, leaving, paired>>

----------------------------------------------------------------------------
User ==
    \/ \E new \in SUBSET Aux : EditEntry(new)
    \/ \E n \in Names :
          \/ \E old, new \in Syntax[n] \union {Empty} : SetValue(n, old, new)
          \/ AddAttribute(n)
          \/ \E v \in Syntax[n] \union {Empty} : DeleteAttribute(n, v)
    \/ GiveUp \/ Reselect \/ ChangePassword
    \/ \E leave, found \in BOOLEAN : BeginSave(leave, found)

Requests == \/ Accepted \/ Refused
            \/ \E ok \in BOOLEAN : Read(ok) \/ ReadStamp(ok)

Next == User \/ Requests \/ \E e \in Entries : OtherClient(e)

Spec == Init /\ [][Next]_vars

----------------------------------------------------------------------------
(* Properties. *)

\* An accepted save was made on the very entry the user saw: whatever another
\* client did since it was read has it refused, unless that happened between
\* the two searches of a read or the two requests of the save (update,
\* loadAttributes).
SavesWhatWasSeen ==
    [][Accepted /\ paired /\ ~raced => dir = cache]_vars

\* Even then, it deletes no value that was never on the user's screen
\* (update deletes value by value).
DeletesOnlyWhatWasRead ==
    [][Accepted => \A n \in Names :
           dir.values[n] \ dir'.values[n] \subseteq cache.values[n]]_vars

\* The filled rows.
Shown == [n \in Names |-> table[n] \ {Empty}]

\* The values changed in their rows, or deleted beside other rows of their
\* attribute: update has no request for them.
Replaced(n) == IF table[n] = {} THEN {} ELSE cache.values[n] \ table[n]

\* An undisturbed save, whatever was edited before, leaves on the server the
\* chosen classes and every value of the table; of the others there are
\* exactly those changed in place or deleted beside other rows of their
\* attribute, the old value beside the new one, and no attribute deleted as a
\* whole (update).
OnlyReplacedValuesStay ==
    [][Accepted /\ paired /\ ~raced =>
           /\ dir'.classes = classes
           /\ \A n \in Names : /\ Shown[n] \subseteq dir'.values[n]
                               /\ dir'.values[n] \ Shown[n] = Replaced(n)]_vars
=============================================================================
