-------------------------- MODULE TableAndTextProofs --------------------------
(***************************************************************************)
(* What AttributeEditing guarantees for every set of names and values,     *)
(* AttributeCells for every text, old value and type of a cell, LdapUrl    *)
(* for every URL and DnValidator for every name.                           *)
(***************************************************************************)
EXTENDS AttributeEditing, AttributeCells, LdapUrl, DnValidator, ListLemmas

USE ValuesAssumption, NamesAssumption

-----------------------------------------------------------------------------
(* Facts about the operators of AttributeRows.                             *)

(* A table loaded from an entry is a table.                                *)
LEMMA LoadedRowsType ==
    ASSUME NEW entry \in Entry
    PROVE  LoadedRows(entry) \in Table
  BY DEF LoadedRows, Table, Row, RowId, Entry

(* Every loaded row is unmodified and holds a value of the entry.          *)
LEMMA LoadedRowsValue ==
    ASSUME NEW entry \in Entry, NEW id \in RowId
    PROVE  LoadedRows(entry)[id] = IF id[2] \in entry[id[1]]
                                   THEN [value |-> id[2], modified |-> FALSE]
                                   ELSE NoRow
  BY DEF LoadedRows

(* The values a table shows are values a server can hold.                  *)
LEMMA ShownValuesType ==
    ASSUME NEW t \in Table, NEW n \in Names
    PROVE  ShownValues(t, n) \in SUBSET Values
  <1> SUFFICES ASSUME NEW v \in ShownValues(t, n) PROVE v \in Values
    OBVIOUS
  <1>1. PICK id \in RowsOf(t, n) : t[id].value = v
    BY DEF ShownValues
  <1>2. t[id] \in Row
    BY DEF RowsOf, Table
  <1>3. QED
    BY <1>1, <1>2 DEF ShownValues, Row

LEMMA ShownType ==
    ASSUME NEW t \in Table
    PROVE  Shown(t) \in Entry
  BY ShownValuesType DEF Shown, Entry

(* changedRows names only attributes whose rows differ from the cached     *)
(* ones: rows that are all as loaded give it nothing to send.              *)
LEMMA ChangedRowsNeedAChange ==
    ASSUME NEW t \in Table, NEW entry \in Entry, NEW n \in Names,
           \A id \in RowId : id[1] = n => t[id] = LoadedRows(entry)[id]
    PROVE  /\ \A id \in NewRows(t, entry) : id[1] # n
           /\ \A p \in DeleteRows(t, entry) : p[1] # n
           /\ n \notin UpdateNames(t, entry)
  <1>1. ASSUME NEW id \in RowId, id[1] = n, t[id] # NoRow
        PROVE  ~t[id].modified
    <2>1. t[id] = LoadedRows(entry)[id]
      BY <1>1
    <2>2. LoadedRows(entry)[id] = [value |-> id[2], modified |-> FALSE]
      BY <1>1, <2>1, LoadedRowsValue
    <2>3. QED
      BY <2>1, <2>2
  <1>2. ASSUME NEW v \in entry[n]
        PROVE  <<n, v>> \in RowsOf(t, n) /\ t[<<n, v>>].value = v
    <2>1. v \in Values
      BY DEF Entry
    <2>2. <<n, v>> \in RowId
      BY <2>1 DEF RowId
    <2>3. t[<<n, v>>] = [value |-> v, modified |-> FALSE]
      BY <2>2, LoadedRowsValue
    <2>4. [value |-> v, modified |-> FALSE] \in [value : Values \cup {Empty}, modified : BOOLEAN]
      BY <2>1
    <2>5. t[<<n, v>>] # NoRow
      BY <2>3, <2>4
    <2>6. QED
      BY <2>2, <2>3, <2>5 DEF RowsOf
  <1>3. \A id \in NewRows(t, entry) : id[1] # n
    BY <1>1 DEF NewRows
  <1>4. \A p \in DeleteRows(t, entry) : p[1] # n
    BY <1>2 DEF DeleteRows, InTable
  <1>5. ~HasModifiedRow(t, n)
    BY <1>1 DEF HasModifiedRow, RowsOf
  <1>6. ~HasLostRow(t, entry, n)
    BY <1>2 DEF HasLostRow
  <1>7. QED
    BY <1>3, <1>4, <1>5, <1>6 DEF UpdateNames
-----------------------------------------------------------------------------
(* Type correctness.                                                        *)

(* One row replaced in a table leaves a table.                              *)
LEMMA EditedTableType ==
    ASSUME NEW t \in Table, NEW id, NEW row \in Row \cup {NoRow}
    PROVE  [t EXCEPT ![id] = row] \in Table
  BY DEF Table

LEMMA UserStepType ==
    ASSUME TypeOK, UserStep
    PROVE  TypeOK'
  <1>1. ASSUME NEW id \in RowId, NEW v \in Values \cup {Empty},
               SetValue(id, v) \/ AddAttribute(id, v)
        PROVE  TypeOK'
    <2> DEFINE row == [value |-> v, modified |-> TRUE]
    <2>1. row \in Row \cup {NoRow}
      BY DEF Row
    <2>2. Edited(id[1], [rows EXCEPT ![id] = row])
      BY <1>1 DEF SetValue, AddAttribute
    <2> HIDE DEF row
    <2>3. rows' \in Table
      BY <2>1, <2>2, EditedTableType DEF TypeOK, Edited
    <2>4. id[1] \in Names
      BY DEF RowId
    <2>5. QED
      BY <2>2, <2>3, <2>4 DEF TypeOK, Edited, saveVars, Entry, NoEntryValues
  <1>2. ASSUME NEW id \in RowId, DeleteAttribute(id)
        PROVE  TypeOK'
    <2>1. rows' \in Table
      BY <1>2, EditedTableType DEF TypeOK, DeleteAttribute, Edited
    <2>2. id[1] \in Names
      BY DEF RowId
    <2>3. QED
      BY <1>2, <2>1, <2>2 DEF TypeOK, DeleteAttribute, Edited, saveVars, Entry, NoEntryValues
  <1>3. ASSUME Revert
        PROVE  TypeOK'
    BY <1>3, LoadedRowsType DEF TypeOK, Revert, Shows, saveVars, Entry, NoEntryValues
  <1>4. ASSUME NEW ok \in BOOLEAN, Reselect(ok)
        PROVE  TypeOK'
    <2>1. cache' \in Entry
      BY <1>4 DEF TypeOK, Reselect
    <2>2. rows' \in Table
      BY <1>4, <2>1, LoadedRowsType DEF Reselect, Shows
    <2>3. QED
      BY <1>4, <2>1, <2>2 DEF TypeOK, Reselect, Shows, saveVars, Entry, NoEntryValues
  <1>5. ASSUME BeginSave
        PROVE  TypeOK'
    <2>1. wanted' \in Entry
      BY <1>5, ShownType DEF TypeOK, BeginSave
    <2>2. /\ adds' \subseteq RowId
          /\ dels' \subseteq Names \X Values
          /\ upds' \subseteq Names
      BY <1>5 DEF BeginSave, NewRows, DeleteRows, UpdateNames
    <2>3. rows' \in Table /\ touched' \subseteq Names
      BY <1>5, LoadedRowsType DEF TypeOK, BeginSave, Shows
    <2>4. clean' \subseteq Names /\ phase' \in {"editing", "saving", "done"}
      BY <1>5 DEF BeginSave
    <2>5. QED
      BY <1>5, <2>1, <2>2, <2>3, <2>4 DEF TypeOK, BeginSave
  <1>6. QED
    BY <1>1, <1>2, <1>3, <1>4, <1>5 DEF UserStep

(* A request changes nothing but one attribute of the directory.            *)
LEMMA RequestType ==
    ASSUME TypeOK, NEW n \in Names, NEW accepted \in BOOLEAN,
           NEW values, accepted => values \in SUBSET Values, NEW ok \in BOOLEAN,
           Request(n, accepted, values, ok)
    PROVE  /\ dir' \in Entry
           /\ clean' \subseteq Names
  BY DEF Request, TypeOK, Entry

LEMMA SaveStepType ==
    ASSUME TypeOK, PendingTouched, SaveStep
    PROVE  TypeOK'
  <1> SUFFICES ASSUME NEW ok \in BOOLEAN,
                      \/ \E id \in RowId : SendAdd(id, ok)
                      \/ \E p \in Names \X Values : SendDelete(p, ok)
                      \/ \E n \in Names : SearchForUpdate(n, ok)
                      \/ SendReplace(ok)
                      \/ EndSave(ok)
               PROVE  TypeOK'
    BY DEF SaveStep
  <1>1. ASSUME NEW id \in RowId, SendAdd(id, ok)
        PROVE  TypeOK'
    <2> DEFINE n == id[1]
               v == rows[id].value
               accepted == ok /\ v # Empty /\ v \notin dir[n]
    <2>1. n \in Names
      BY DEF RowId
    <2>2. rows[id] \in Row
      BY <1>1 DEF SendAdd, PendingTouched, TypeOK, Table
    <2>3. accepted => dir[n] \cup {v} \in SUBSET Values
      BY <2>1, <2>2 DEF Row, TypeOK, Entry
    <2>4. Request(n, accepted, dir[n] \cup {v}, ok)
      BY <1>1 DEF SendAdd
    <2>5. accepted \in BOOLEAN
      OBVIOUS
    <2> HIDE DEF n, v, accepted
    <2>6. dir' \in Entry /\ clean' \subseteq Names
      BY <2>1, <2>3, <2>4, <2>5, RequestType
    <2>7. QED
      BY <1>1, <2>4, <2>6 DEF SendAdd, Request, TypeOK
  <1>2. ASSUME NEW p \in Names \X Values, SendDelete(p, ok)
        PROVE  TypeOK'
    <2>1. dir' \in Entry /\ clean' \subseteq Names
      BY <1>2, RequestType DEF SendDelete
    <2>2. QED
      BY <1>2, <2>1 DEF SendDelete, Request, TypeOK
  <1>3. ASSUME NEW n \in Names, SearchForUpdate(n, ok)
        PROVE  TypeOK'
    <2> DEFINE found == ok /\ dir[n] # {}
    <2>1. dir[n] \in SUBSET Values
      BY DEF TypeOK, Entry
    <2>2. Request(n, found, dir[n], ok)
      BY <1>3 DEF SearchForUpdate
    <2>3. found \in BOOLEAN
      OBVIOUS
    <2> HIDE DEF found
    <2>4. dir' \in Entry /\ clean' \subseteq Names
      BY <2>1, <2>2, <2>3, RequestType
    <2>5. QED
      BY <1>3, <2>4 DEF SearchForUpdate, Request, TypeOK
  <1>4. ASSUME SendReplace(ok)
        PROVE  TypeOK'
    <2> DEFINE accepted == ok /\ ~Repeats(rows, upd)
    <2>1. upd \in Names
      BY <1>4 DEF SendReplace, TypeOK
    <2>2. ReplaceValues(upd) \in SUBSET Values
      BY <2>1, ShownValuesType DEF ReplaceValues, TypeOK
    <2>3. Request(upd, accepted, ReplaceValues(upd), ok)
      BY <1>4 DEF SendReplace
    <2>4. accepted \in BOOLEAN
      BY DEF Repeats
    <2> HIDE DEF accepted
    <2>5. dir' \in Entry /\ clean' \subseteq Names
      BY <2>1, <2>2, <2>3, <2>4, RequestType
    <2>6. QED
      BY <1>4, <2>5 DEF SendReplace, Request, TypeOK
  <1>5. ASSUME EndSave(ok)
        PROVE  TypeOK'
    <2>1. cache' \in Entry
      BY <1>5 DEF TypeOK, EndSave
    <2>2. rows' \in Table
      BY <1>5, <2>1, LoadedRowsType DEF EndSave, Shows
    <2>3. QED
      BY <1>5, <2>1, <2>2 DEF TypeOK, EndSave, Shows, saveVars
  <1>6. QED
    BY <1>1, <1>2, <1>3, <1>4, <1>5

LEMMA OtherStepType ==
    ASSUME TypeOK, OtherStep
    PROVE  TypeOK'
  <1>1. PICK n \in Names, values \in SUBSET Values : OtherClient(n, values)
    BY DEF OtherStep
  <1>2. dir' \in Entry /\ clean' \subseteq Names
    BY <1>1 DEF OtherClient, TypeOK, Entry
  <1>3. QED
    BY <1>1, <1>2 DEF OtherClient, saveVars, TypeOK

-----------------------------------------------------------------------------
(* The bookkeeping of the table: TableTracksCache is inductive with TypeOK. *)

TableInv == TypeOK /\ TableTracksCache

LEMMA InitTableInv == Init => TableInv
  <1> SUFFICES ASSUME Init PROVE TableInv
    OBVIOUS
  <1>1. TypeOK
    BY LoadedRowsType DEF Init, TypeOK, Entry, NoEntryValues
  <1>2. PendingTouched
    BY DEF Init, PendingTouched
  <1>3. UntouchedAsCached /\ UnmodifiedAsCached
    BY DEF Init, UntouchedAsCached, UnmodifiedAsCached
  <1>4. QED
    BY <1>1, <1>2, <1>3 DEF TableInv, TableTracksCache

(* A table just filled from the cache tracks it.                            *)
LEMMA ShowsTracks ==
    ASSUME NEW entry, Shows(entry), cache' = entry
    PROVE  UntouchedAsCached' /\ UnmodifiedAsCached'
  BY DEF Shows, UntouchedAsCached, UnmodifiedAsCached

(* An edit marks the row as modified, and its attribute as touched.         *)
LEMMA EditedTracks ==
    ASSUME TableInv, NEW id \in RowId, NEW row \in Row \cup {NoRow},
           row # NoRow => row.modified,
           Edited(id[1], [rows EXCEPT ![id] = row])
    PROVE  TableTracksCache'
  <1>1. \A i \in RowId : rows'[i] = IF i = id THEN row ELSE rows[i]
    BY DEF Edited, TableInv, TypeOK, Table
  <1>2. cache' = cache /\ touched' = touched \cup {id[1]}
    BY DEF Edited
  <1>3. PendingTouched'
    BY DEF Edited, Idle, saveVars, TableInv, TableTracksCache, PendingTouched
  <1>4. UntouchedAsCached'
    BY <1>1, <1>2 DEF TableInv, TableTracksCache, UntouchedAsCached
  <1>5. UnmodifiedAsCached'
    BY <1>1, <1>2 DEF TableInv, TableTracksCache, UnmodifiedAsCached
  <1>6. QED
    BY <1>3, <1>4, <1>5 DEF TableTracksCache

LEMMA UserStepTracks ==
    ASSUME TableInv, UserStep
    PROVE  TableTracksCache'
  <1>1. ASSUME NEW id \in RowId, NEW v \in Values \cup {Empty},
               SetValue(id, v) \/ AddAttribute(id, v)
        PROVE  TableTracksCache'
    <2> DEFINE row == [value |-> v, modified |-> TRUE]
    <2>1. row \in Row \cup {NoRow} /\ row.modified
      BY DEF Row
    <2>2. Edited(id[1], [rows EXCEPT ![id] = row])
      BY <1>1 DEF SetValue, AddAttribute
    <2> HIDE DEF row
    <2>3. QED
      BY <2>1, <2>2, EditedTracks
  <1>2. ASSUME NEW id \in RowId, DeleteAttribute(id)
        PROVE  TableTracksCache'
    BY <1>2, EditedTracks DEF DeleteAttribute
  <1>3. ASSUME Revert \/ \E ok \in BOOLEAN : Reselect(ok)
        PROVE  TableTracksCache'
    <2>1. Shows(cache')
      BY <1>3 DEF Revert, Reselect
    <2>2. PendingTouched'
      BY <1>3 DEF Revert, Reselect, Idle, saveVars, TableInv, TableTracksCache, PendingTouched
    <2>3. QED
      BY <2>1, <2>2, ShowsTracks DEF TableTracksCache
  <1>4. ASSUME BeginSave
        PROVE  TableTracksCache'
    <2>1. ASSUME NEW n \in Names, n \notin touched
          PROVE  /\ \A id \in adds' : id[1] # n
                 /\ \A p \in dels' : p[1] # n
                 /\ n \notin upds'
      <3>1. \A id \in RowId : id[1] = n => rows[id] = LoadedRows(cache)[id]
        BY <2>1 DEF TableInv, TableTracksCache, UntouchedAsCached
      <3>2. rows \in Table /\ cache \in Entry
        BY DEF TableInv, TypeOK
      <3>3. QED
        BY <1>4, <3>1, <3>2, ChangedRowsNeedAChange DEF BeginSave
    <2>2. \A id \in adds' : id[1] \in Names /\ rows[id] # NoRow
      BY <1>4 DEF BeginSave, NewRows, RowId
    <2>3. \A p \in dels' : p[1] \in Names
      BY <1>4 DEF BeginSave, DeleteRows
    <2>4. upds' \subseteq Names
      BY <1>4 DEF BeginSave, UpdateNames
    <2>5. upd' = NoName
      BY <1>4 DEF BeginSave, TableInv, TableTracksCache, PendingTouched, Idle
    <2>6. CASE HasChanges(rows, cache)
      <3>1. rows' = rows /\ touched' = touched /\ cache' = cache /\ phase' = "saving"
        BY <1>4, <2>6 DEF BeginSave
      <3>2. PendingTouched'
        BY <2>1, <2>2, <2>3, <2>4, <2>5, <3>1 DEF PendingTouched, Idle
      <3>3. UntouchedAsCached' /\ UnmodifiedAsCached'
        BY <3>1 DEF TableInv, TableTracksCache, UntouchedAsCached, UnmodifiedAsCached
      <3>4. QED
        BY <3>2, <3>3 DEF TableTracksCache
    <2>7. CASE ~HasChanges(rows, cache)
      <3>1. Shows(cache) /\ cache' = cache
        BY <1>4, <2>7 DEF BeginSave
      <3>2. adds' = {} /\ dels' = {} /\ upds' = {}
        BY <1>4, <2>7 DEF BeginSave, HasChanges
      <3>3. PendingTouched'
        BY <2>5, <3>2 DEF PendingTouched
      <3>4. QED
        BY <3>1, <3>3, ShowsTracks DEF TableTracksCache
    <2>8. QED
      BY <2>6, <2>7
  <1>5. QED
    BY <1>1, <1>2, <1>3, <1>4 DEF UserStep

(* A request leaves the table, the cache and the rest of the queue alone.   *)
LEMMA SaveStepTracks ==
    ASSUME TableInv, SaveStep
    PROVE  TableTracksCache'
  <1>1. ASSUME phase = "saving", UNCHANGED <<cache, rows, phase, touched>>,
               adds' \subseteq adds, dels' \subseteq dels, upds' \subseteq upds,
               upd' # NoName => upd' \in upds'
        PROVE  TableTracksCache'
    <2>1. PendingTouched'
      BY <1>1 DEF TableInv, TableTracksCache, PendingTouched, Idle
    <2>2. UntouchedAsCached' /\ UnmodifiedAsCached'
      BY <1>1 DEF TableInv, TableTracksCache, UntouchedAsCached, UnmodifiedAsCached
    <2>3. QED
      BY <2>1, <2>2 DEF TableTracksCache
  <1>2. PICK ok \in BOOLEAN :
            \/ \E id \in RowId : SendAdd(id, ok)
            \/ \E p \in Names \X Values : SendDelete(p, ok)
            \/ \E n \in Names : SearchForUpdate(n, ok)
            \/ SendReplace(ok)
            \/ EndSave(ok)
    BY DEF SaveStep
  <1>3. CASE \E id \in RowId : SendAdd(id, ok)
    BY <1>1, <1>3 DEF SendAdd, Request, TableInv, TableTracksCache, PendingTouched
  <1>4. CASE \E p \in Names \X Values : SendDelete(p, ok)
    BY <1>1, <1>4 DEF SendDelete, Request, TableInv, TableTracksCache, PendingTouched
  <1>5. CASE \E n \in Names : SearchForUpdate(n, ok)
    BY <1>1, <1>5 DEF SearchForUpdate, Request, TableInv, TableTracksCache, PendingTouched
  <1>6. CASE SendReplace(ok)
    BY <1>1, <1>6 DEF SendReplace, Request
  <1>7. CASE EndSave(ok)
    <2>1. Shows(cache')
      BY <1>7 DEF EndSave
    <2>2. adds' = {} /\ dels' = {} /\ upds' = {} /\ upd' = NoName
      BY <1>7 DEF EndSave, saveVars, TableInv, TableTracksCache, PendingTouched
    <2>3. PendingTouched'
      BY <2>2 DEF PendingTouched
    <2>4. QED
      BY <2>1, <2>3, ShowsTracks DEF TableTracksCache
  <1>8. QED
    BY <1>2, <1>3, <1>4, <1>5, <1>6, <1>7

LEMMA NextTableInv ==
    ASSUME TableInv, [Next]_vars
    PROVE  TableInv'
  <1>1. CASE UserStep
    BY <1>1, UserStepType, UserStepTracks DEF TableInv
  <1>2. CASE SaveStep
    BY <1>2, SaveStepType, SaveStepTracks DEF TableInv, TableTracksCache
  <1>3. CASE OtherStep
    <2>1. TypeOK'
      BY <1>3, OtherStepType DEF TableInv
    <2>2. UNCHANGED <<cache, rows, phase, saveVars, touched>>
      BY <1>3 DEF OtherStep, OtherClient
    <2>3. TableTracksCache'
      BY <2>2 DEF saveVars, TableInv, TableTracksCache, PendingTouched, Idle,
                  UntouchedAsCached, UnmodifiedAsCached
    <2>4. QED
      BY <2>1, <2>3 DEF TableInv
  <1>4. CASE UNCHANGED vars
    BY <1>4 DEF vars, saveVars, TableInv, TypeOK, TableTracksCache, PendingTouched,
                Idle, UntouchedAsCached, UnmodifiedAsCached
  <1>5. QED
    BY <1>1, <1>2, <1>3, <1>4 DEF Next

(* The state is always well formed.                                         *)
THEOREM TypeCorrect == Spec => []TypeOK
  <1>1. TableInv => TypeOK
    BY DEF TableInv
  <1>2. QED
    BY <1>1, InitTableInv, NextTableInv, PTL DEF Spec

(* The rows and the outstanding requests never go beyond what the user did. *)
THEOREM TableAlwaysTracksCache == Spec => []TableTracksCache
  <1>1. TableInv => TableTracksCache
    BY DEF TableInv
  <1>2. QED
    BY <1>1, InitTableInv, NextTableInv, PTL DEF Spec

(* Whatever other clients do in between, a save writes only attributes the  *)
(* user edited.                                                             *)
THEOREM SaveNeverWritesOthersAttributes == Spec => SaveWritesOnlyTouched
  <1>1. ASSUME TableInv, SaveStep
        PROVE  \A n \in Names : dir'[n] # dir[n] => n \in touched
    <2>1. PICK ok \in BOOLEAN :
              \/ \E id \in RowId : SendAdd(id, ok)
              \/ \E p \in Names \X Values : SendDelete(p, ok)
              \/ \E n \in Names : SearchForUpdate(n, ok)
              \/ SendReplace(ok)
              \/ EndSave(ok)
      BY <1>1 DEF SaveStep
    <2>2. dir \in Entry
      BY <1>1 DEF TableInv, TypeOK
    <2>3. CASE \E id \in RowId : SendAdd(id, ok)
      BY <1>1, <2>2, <2>3 DEF SendAdd, Request, TableInv, TableTracksCache, PendingTouched, Entry
    <2>4. CASE \E p \in Names \X Values : SendDelete(p, ok)
      BY <1>1, <2>2, <2>4 DEF SendDelete, Request, TableInv, TableTracksCache, PendingTouched, Entry
    <2>5. CASE \E n \in Names : SearchForUpdate(n, ok)
      BY <1>1, <2>2, <2>5 DEF SearchForUpdate, Request, TableInv, TableTracksCache, PendingTouched, Entry
    <2>6. CASE SendReplace(ok)
      BY <1>1, <2>2, <2>6 DEF SendReplace, Request, TableInv, TableTracksCache, PendingTouched, Entry
    <2>7. CASE EndSave(ok)
      BY <2>7 DEF EndSave
    <2>8. QED
      BY <2>1, <2>3, <2>4, <2>5, <2>6, <2>7
  <1>2. TableInv /\ [Next]_vars
            => [SaveStep => \A n \in Names : dir'[n] # dir[n] => n \in touched]_vars
    BY <1>1
  <1>3. QED
    BY <1>2, InitTableInv, NextTableInv, PTL DEF Spec, SaveWritesOnlyTouched

-----------------------------------------------------------------------------
(* What a save nobody interferes with does, request by request.             *)

(* An attribute changedRows finds nothing to do for shows its cached values. *)
LEMMA UnlistedIsAsCached ==
    ASSUME TableInv, NEW n \in Names,
           n \notin UpdateNames(rows, cache),
           \A p \in DeleteRows(rows, cache) : p[1] # n
    PROVE  ShownValues(rows, n) = cache[n]
  <1>1. cache[n] \in SUBSET Values
    BY DEF TableInv, TypeOK, Entry
  <1>2. ASSUME NEW v \in ShownValues(rows, n)
        PROVE  v \in cache[n]
    <2>1. PICK id \in RowsOf(rows, n) : rows[id].value = v
      BY <1>2 DEF ShownValues
    <2>2. id \in RowId /\ id[1] = n /\ rows[id] # NoRow
      BY DEF RowsOf
    <2>3. ~rows[id].modified
      BY DEF UpdateNames, HasModifiedRow
    <2>4. rows[id] = LoadedRows(cache)[id]
      BY <2>2, <2>3 DEF TableInv, TableTracksCache, UnmodifiedAsCached
    <2>5. cache \in Entry
      BY DEF TableInv, TypeOK
    <2>6. LoadedRows(cache)[id] = IF id[2] \in cache[id[1]]
                                 THEN [value |-> id[2], modified |-> FALSE]
                                 ELSE NoRow
      BY <2>2, <2>5, LoadedRowsValue
    <2>7. QED
      BY <2>1, <2>2, <2>4, <2>6
  <1>3. ASSUME NEW v \in cache[n]
        PROVE  v \in ShownValues(rows, n)
    <2>1. v \in Values /\ v # Empty
      BY <1>1
    <2>2. InTable(rows, n)
      <3>1. ~InTable(rows, n) => <<n, v>> \in DeleteRows(rows, cache)
        BY <1>3, <2>1 DEF DeleteRows
      <3>2. QED
        BY <3>1
    <2>3. PICK id \in RowsOf(rows, n) : rows[id].value = v
      BY <2>2 DEF UpdateNames, HasLostRow
    <2>4. QED
      BY <2>1, <2>3 DEF ShownValues
  <1>4. QED
    BY <1>2, <1>3

(* A row of an attribute the cache does not have was made by the user.      *)
LEMMA RowsOfAbsentAreNew ==
    ASSUME TableInv, NEW n \in Names, cache[n] = {}
    PROVE  RowsOf(rows, n) \subseteq NewRows(rows, cache)
  <1> SUFFICES ASSUME NEW id \in RowsOf(rows, n)
               PROVE  id \in NewRows(rows, cache)
    OBVIOUS
  <1>1. id \in RowId /\ id[1] = n /\ rows[id] # NoRow
    BY DEF RowsOf
  <1>2. cache \in Entry
    BY DEF TableInv, TypeOK
  <1>3. LoadedRows(cache)[id] = NoRow
    BY <1>1, <1>2, LoadedRowsValue
  <1>4. rows[id].modified
    BY <1>1, <1>3 DEF TableInv, TableTracksCache, UnmodifiedAsCached
  <1>5. QED
    BY <1>1, <1>4 DEF NewRows

(* What the directory holds of attribute n while such a save runs: of an    *)
(* attribute it did not have, the values sent so far; of an attribute that  *)
(* is still in the table, the old values until its modify is sent; of one   *)
(* that is not, the old values until the first of its requests is sent.     *)
Progress(n) ==
    IF cache[n] = {}
    THEN {rows[id].value : id \in RowsOf(rows, n) \ adds} \ {Empty}
    ELSE IF InTable(rows, n)
         THEN IF n \in upds THEN cache[n] ELSE ShownValues(rows, n)
         ELSE IF {<<n, v>> : v \in cache[n]} \subseteq dels THEN cache[n] ELSE {}

(* The save's own bookkeeping: what it still has to send is part of what    *)
(* changedRows found, and a modify is sent only after every other request.  *)
SaveBegan ==
    /\ wanted = Shown(rows)
    /\ \A n \in clean : ~Repeats(rows, n)
    /\ adds \subseteq NewRows(rows, cache)
    /\ dels \subseteq DeleteRows(rows, cache)
    /\ upd # NoName => adds = {} /\ dels = {}

DirProgresses == \A n \in clean : dir[n] = Progress(n)

CleanSave == phase = "saving" => SaveBegan /\ DirProgresses

SaveInv == TableInv /\ CleanSave /\ UndisturbedSaveIsExact

(* Nothing has been sent yet.                                               *)
LEMMA ProgressAtBegin ==
    ASSUME TableInv, NEW n \in Names, phase # "saving", BeginSave,
           HasChanges(rows, cache)
    PROVE  Progress(n)' = cache[n]
  <1>1. /\ rows' = rows /\ cache' = cache
        /\ adds' = NewRows(rows, cache)
        /\ dels' = DeleteRows(rows, cache)
        /\ upds' = UpdateNames(rows, cache)
    BY DEF BeginSave
  <1>2. cache[n] \in SUBSET Values
    BY DEF TableInv, TypeOK, Entry
  <1>3. CASE cache[n] = {}
    <2>1. RowsOf(rows, n) \ NewRows(rows, cache) = {}
      BY <1>3, RowsOfAbsentAreNew
    <2>2. QED
      BY <1>1, <1>3, <2>1 DEF Progress
  <1>4. CASE cache[n] # {} /\ InTable(rows, n)
    <2>1. n \notin UpdateNames(rows, cache) => ShownValues(rows, n) = cache[n]
      <3>1. \A p \in DeleteRows(rows, cache) : p[1] # n
        BY <1>4 DEF DeleteRows
      <3>2. QED
        BY <3>1, UnlistedIsAsCached
    <2>2. QED
      BY <1>1, <1>4, <2>1 DEF Progress
  <1>5. CASE cache[n] # {} /\ ~InTable(rows, n)
    <2>1. {<<n, v>> : v \in cache[n]} \subseteq DeleteRows(rows, cache)
      BY <1>2, <1>5 DEF DeleteRows
    <2>2. QED
      BY <1>1, <1>5, <2>1 DEF Progress
  <1>6. QED
    BY <1>3, <1>4, <1>5

(* Everything has been sent.                                                *)
LEMMA ProgressAtEnd ==
    ASSUME NEW n \in Names, adds = {}, dels = {}, upds = {}
    PROVE  Progress(n) = ShownValues(rows, n)
  <1>1. CASE cache[n] = {}
    BY <1>1 DEF Progress, ShownValues
  <1>2. CASE cache[n] # {} /\ InTable(rows, n)
    BY <1>2 DEF Progress
  <1>3. CASE cache[n] # {} /\ ~InTable(rows, n)
    <2>1. ~({<<n, v>> : v \in cache[n]} \subseteq dels)
      BY <1>3
    <2>2. QED
      BY <1>3, <2>1 DEF Progress, ShownValues, InTable
  <1>4. QED
    BY <1>1, <1>2, <1>3

(* A request changes one attribute, and soils it if it is refused.          *)
LEMMA RequestKeeps ==
    ASSUME SaveInv, NEW n \in Names, NEW accepted, NEW values, NEW ok \in BOOLEAN,
           Request(n, accepted, values, ok)
    PROVE  /\ SaveBegan /\ DirProgresses
           /\ UNCHANGED <<cache, rows, wanted, phase>>
           /\ clean' \subseteq clean /\ clean \subseteq Names /\ (n \in clean' => ok)
           /\ \A m \in Names : dir'[m] = IF m = n /\ accepted THEN values ELSE dir[m]
  <1>1. phase = "saving" /\ UNCHANGED <<cache, rows, wanted, phase>>
    BY DEF Request
  <1>2. SaveBegan /\ DirProgresses
    BY <1>1 DEF SaveInv, CleanSave
  <1>3. dir \in [Names -> SUBSET Values] /\ clean \subseteq Names
    BY DEF SaveInv, TableInv, TypeOK, Entry
  <1>4. \A m \in Names : dir'[m] = IF m = n /\ accepted THEN values ELSE dir[m]
    BY <1>3 DEF Request
  <1>5. clean' \subseteq clean /\ (n \in clean' => ok)
    BY DEF Request
  <1>6. QED
    BY <1>1, <1>2, <1>3, <1>4, <1>5

(* A value added is the one row more that has been sent.                    *)
LEMMA AddProgresses ==
    ASSUME SaveInv, NEW id \in RowId, NEW ok \in BOOLEAN, SendAdd(id, ok)
    PROVE  SaveBegan' /\ DirProgresses'
  <1> DEFINE n == id[1]
             v == rows[id].value
             accepted == ok /\ v # Empty /\ v \notin dir[n]
  <1>1. n \in Names
    BY DEF RowId
  <1>2. Request(n, accepted, dir[n] \cup {v}, ok) /\ id \in adds /\ adds' = adds \ {id}
        /\ dels' = dels /\ upds' = upds /\ upd' = upd
    BY DEF SendAdd
  <1>3. /\ SaveBegan /\ DirProgresses
        /\ rows' = rows /\ cache' = cache /\ wanted' = wanted
        /\ clean' \subseteq clean /\ clean \subseteq Names /\ (n \in clean' => ok)
        /\ \A m \in Names : dir'[m] = IF m = n /\ accepted THEN dir[n] \cup {v} ELSE dir[m]
    <2> HIDE DEF n, v, accepted
    <2>1. QED
      BY <1>1, <1>2, RequestKeeps
  <1>4. cache[n] = {} /\ rows[id] # NoRow
    BY <1>2, <1>3 DEF SaveBegan, NewRows
  <1>5. id \in RowsOf(rows, n)
    BY <1>4 DEF RowsOf
  <1>6. RowsOf(rows, n) \ adds' = (RowsOf(rows, n) \ adds) \cup {id}
    BY <1>2, <1>5
  <1>7. ASSUME n \in clean'
        PROVE  dir'[n] = {rows[i].value : i \in RowsOf(rows, n) \ adds'} \ {Empty}
    <2>1. dir[n] = {rows[i].value : i \in RowsOf(rows, n) \ adds} \ {Empty}
      BY <1>3, <1>4, <1>7 DEF DirProgresses, Progress
    <2>2. v # Empty => v \notin dir[n]
      <3>1. ASSUME v # Empty, v \in dir[n]
            PROVE  FALSE
        <4>1. PICK i \in RowsOf(rows, n) \ adds : rows[i].value = v
          BY <2>1, <3>1
        <4>2. i # id
          BY <1>2
        <4>3. Repeats(rows, n)
          BY <1>5, <3>1, <4>1, <4>2 DEF Repeats
        <4>4. QED
          BY <1>3, <1>7, <4>3 DEF SaveBegan
      <3>2. QED
        BY <3>1
    <2>3. CASE v = Empty
      BY <1>1, <1>3, <1>6, <2>1, <2>3
    <2>4. CASE v # Empty
      <3>1. dir'[n] = dir[n] \cup {v}
        BY <1>1, <1>3, <1>7, <2>2, <2>4
      <3>2. {rows[i].value : i \in (RowsOf(rows, n) \ adds) \cup {id}}
              = {rows[i].value : i \in RowsOf(rows, n) \ adds} \cup {v}
        OBVIOUS
      <3>3. {rows[i].value : i \in RowsOf(rows, n) \ adds'}
              = {rows[i].value : i \in RowsOf(rows, n) \ adds} \cup {v}
        BY <1>6, <3>2
      <3>4. QED
        BY <2>1, <2>4, <3>1, <3>3
    <2>5. QED
      BY <2>3, <2>4
  <1>8. ASSUME NEW m \in clean'
        PROVE  dir'[m] = Progress(m)'
    <2>1. CASE m = n
      BY <1>3, <1>4, <1>7, <2>1 DEF Progress
    <2>2. CASE m # n
      <3>1. RowsOf(rows, m) \ adds' = RowsOf(rows, m) \ adds
        BY <1>2, <2>2 DEF RowsOf
      <3>2. {rows[i].value : i \in RowsOf(rows, m) \ adds'}
              = {rows[i].value : i \in RowsOf(rows, m) \ adds}
        BY <3>1
      <3>3. Progress(m)' = Progress(m)
        <4>1. CASE cache[m] = {}
          BY <1>2, <1>3, <3>2, <4>1 DEF Progress
        <4>2. CASE cache[m] # {}
          BY <1>2, <1>3, <4>2 DEF Progress
        <4>3. QED
          BY <4>1, <4>2
      <3>4. QED
        BY <1>3, <2>2, <3>3 DEF DirProgresses
    <2>3. QED
      BY <2>1, <2>2
  <1>9. SaveBegan'
    BY <1>2, <1>3 DEF SaveBegan
  <1>10. QED
    BY <1>8, <1>9 DEF DirProgresses

(* The first request for an attribute deletes it, a further one finds       *)
(* nothing.                                                                 *)
LEMMA DeleteProgresses ==
    ASSUME SaveInv, NEW p \in Names \X Values, NEW ok \in BOOLEAN, SendDelete(p, ok)
    PROVE  SaveBegan' /\ DirProgresses'
  <1> DEFINE n == p[1]
             accepted == ok /\ dir[n] # {}
  <1>1. n \in Names
    OBVIOUS
  <1>2. Request(n, accepted, {}, ok) /\ p \in dels /\ dels' = dels \ {p}
        /\ adds = {} /\ adds' = adds /\ upds' = upds /\ upd' = upd
    BY DEF SendDelete
  <1>3. /\ SaveBegan /\ DirProgresses
        /\ rows' = rows /\ cache' = cache /\ wanted' = wanted
        /\ clean' \subseteq clean /\ clean \subseteq Names /\ (n \in clean' => ok)
        /\ \A m \in Names : dir'[m] = IF m = n /\ accepted THEN {} ELSE dir[m]
    <2> HIDE DEF n, accepted
    <2>1. QED
      BY <1>1, <1>2, RequestKeeps
  <1>4. p[2] \in cache[n] /\ ~InTable(rows, n)
    BY <1>2, <1>3 DEF SaveBegan, DeleteRows
  <1>5. n \in clean' => dir'[n] = {}
    BY <1>1, <1>3
  <1>6. ASSUME NEW m \in clean'
        PROVE  dir'[m] = Progress(m)'
    <2>1. CASE m = n
      <3>1. p = <<n, p[2]>>
        OBVIOUS
      <3>2. ~({<<n, v>> : v \in cache[n]} \subseteq dels')
        BY <1>2, <1>4, <3>1
      <3>3. QED
        BY <1>3, <1>4, <1>5, <2>1, <3>2 DEF Progress
    <2>2. CASE m # n
      <3>1. ({<<m, v>> : v \in cache[m]} \subseteq dels') <=> ({<<m, v>> : v \in cache[m]} \subseteq dels)
        BY <1>2, <2>2
      <3>2. Progress(m)' = Progress(m)
        BY <1>2, <1>3, <3>1 DEF Progress
      <3>3. QED
        BY <1>3, <2>2, <3>2 DEF DirProgresses
    <2>3. QED
      BY <2>1, <2>2
  <1>7. SaveBegan'
    BY <1>2, <1>3 DEF SaveBegan
  <1>8. QED
    BY <1>6, <1>7 DEF DirProgresses

(* The search before a modify finds every attribute that was in the cache;  *)
(* one it does not find has no values to keep.                              *)
LEMMA SearchProgresses ==
    ASSUME SaveInv, NEW n \in Names, NEW ok \in BOOLEAN, SearchForUpdate(n, ok)
    PROVE  SaveBegan' /\ DirProgresses'
  <1> DEFINE found == ok /\ dir[n] # {}
  <1>1. /\ Request(n, found, dir[n], ok) /\ n \in upds
        /\ adds = {} /\ dels = {} /\ adds' = adds /\ dels' = dels
        /\ upds' = IF found THEN upds ELSE upds \ {n}
    BY DEF SearchForUpdate
  <1>2. /\ SaveBegan /\ DirProgresses
        /\ rows' = rows /\ cache' = cache /\ wanted' = wanted
        /\ clean' \subseteq clean /\ clean \subseteq Names /\ (n \in clean' => ok)
        /\ \A m \in Names : dir'[m] = IF m = n /\ found THEN dir[n] ELSE dir[m]
    <2> HIDE DEF found
    <2>1. QED
      BY <1>1, RequestKeeps
  <1>3. SaveBegan'
    BY <1>1, <1>2 DEF SaveBegan
  <1>4. ASSUME NEW m \in clean'
        PROVE  dir'[m] = Progress(m)'
    <2>1. m \in clean /\ m \in Names /\ dir'[m] = Progress(m)
      BY <1>2 DEF DirProgresses
    <2>2. CASE cache[m] = {} \/ ~InTable(rows, m)
      <3>1. Progress(m)' = Progress(m)
        BY <1>1, <1>2, <2>2 DEF Progress
      <3>2. QED
        BY <2>1, <3>1
    <2>3. CASE cache[m] # {} /\ InTable(rows, m)
      <3>1. m = n => found
        <4>1. m = n => dir[m] = cache[m]
          BY <1>1, <1>2, <2>1, <2>3 DEF DirProgresses, Progress
        <4>2. QED
          BY <1>2, <2>3, <4>1
      <3>2. m \in upds' <=> m \in upds
        BY <1>1, <3>1
      <3>3. Progress(m)' = Progress(m)
        BY <1>1, <1>2, <3>2 DEF Progress
      <3>4. QED
        BY <2>1, <3>3
    <2>4. QED
      BY <2>2, <2>3
  <1>5. QED
    BY <1>3, <1>4 DEF DirProgresses

(* The modify gives its attribute what the table shows.                     *)
LEMMA ReplaceProgresses ==
    ASSUME SaveInv, NEW ok \in BOOLEAN, SendReplace(ok)
    PROVE  SaveBegan' /\ DirProgresses'
  <1> DEFINE accepted == ok /\ ~Repeats(rows, upd)
  <1>1. /\ Request(upd, accepted, ReplaceValues(upd), ok)
        /\ upd # NoName /\ upd' = NoName
        /\ upds' = upds \ {upd} /\ adds' = adds /\ dels' = dels
    BY DEF SendReplace
  <1>2. upd \in Names
    BY <1>1 DEF SaveInv, TableInv, TypeOK
  <1>3. /\ SaveBegan /\ DirProgresses
        /\ rows' = rows /\ cache' = cache /\ wanted' = wanted
        /\ clean' \subseteq clean /\ clean \subseteq Names /\ (upd \in clean' => ok)
        /\ \A m \in Names : dir'[m] = IF m = upd /\ accepted THEN ReplaceValues(upd) ELSE dir[m]
    <2> HIDE DEF accepted
    <2>1. QED
      BY <1>1, <1>2, RequestKeeps
  <1>4. (upd \in clean' => accepted) /\ adds = {} /\ dels = {}
    BY <1>1, <1>2, <1>3 DEF SaveBegan
  <1>5. SaveBegan'
    BY <1>1, <1>3 DEF SaveBegan
  <1>6. ASSUME NEW m \in clean'
        PROVE  dir'[m] = Progress(m)'
    <2>1. CASE m # upd
      <3>1. Progress(m)' = Progress(m)
        BY <1>1, <1>3, <2>1 DEF Progress
      <3>2. QED
        BY <1>3, <2>1, <3>1 DEF DirProgresses
    <2>2. CASE m = upd
      <3>1. dir'[m] = ShownValues(rows, m)
        BY <1>2, <1>3, <1>4, <2>2 DEF ReplaceValues
      <3>2. CASE cache[m] = {}
        BY <1>1, <1>3, <1>4, <3>1, <3>2 DEF Progress, ShownValues
      <3>3. CASE cache[m] # {} /\ InTable(rows, m)
        BY <1>1, <1>3, <2>2, <3>1, <3>3 DEF Progress
      <3>4. CASE cache[m] # {} /\ ~InTable(rows, m)
        <4>1. ~({<<m, v>> : v \in cache[m]} \subseteq dels')
          BY <1>1, <1>4, <3>4
        <4>2. ShownValues(rows, m) = {}
          BY <3>4 DEF ShownValues, InTable
        <4>3. QED
          BY <1>3, <3>1, <3>4, <4>1, <4>2 DEF Progress
      <3>5. QED
        BY <3>2, <3>3, <3>4
    <2>3. QED
      BY <2>1, <2>2
  <1>7. QED
    BY <1>5, <1>6 DEF DirProgresses

LEMMA InitSaveInv == Init => SaveInv
  BY InitTableInv DEF Init, SaveInv, CleanSave, UndisturbedSaveIsExact

(* A save that sends nothing, or begins to send.                            *)
LEMMA BeginSaveInv ==
    ASSUME SaveInv, BeginSave
    PROVE  CleanSave' /\ UndisturbedSaveIsExact'
  <1>1. /\ phase # "saving" /\ TableInv
        /\ dir' = dir /\ cache' = cache /\ wanted' = Shown(rows)
        /\ clean' = {n \in Names : cache[n] = dir[n] /\ ~Repeats(rows, n)}
    BY DEF SaveInv, BeginSave, Idle
  <1>2. cache \in [Names -> SUBSET Values]
    BY <1>1 DEF TableInv, TypeOK, Entry
  <1>3. CASE HasChanges(rows, cache)
    <2>1. phase' = "saving" /\ rows' = rows /\ upd' = NoName
      BY <1>3 DEF BeginSave, SaveInv, TableInv, TableTracksCache, PendingTouched, Idle
    <2>2. SaveBegan'
      BY <1>1, <2>1 DEF SaveBegan, BeginSave
    <2>3. DirProgresses'
      <3> SUFFICES ASSUME NEW n \in clean'
                   PROVE  dir'[n] = Progress(n)'
        BY DEF DirProgresses
      <3>1. n \in Names /\ cache[n] = dir[n]
        BY <1>1
      <3>2. Progress(n)' = cache[n]
        BY <1>1, <1>3, <3>1, ProgressAtBegin
      <3>3. QED
        BY <1>1, <3>1, <3>2
    <2>4. QED
      BY <2>1, <2>2, <2>3 DEF CleanSave, UndisturbedSaveIsExact
  <1>4. CASE ~HasChanges(rows, cache)
    <2>1. phase' = "done" /\ rows' = LoadedRows(cache)
      BY <1>4 DEF BeginSave, Shows
    <2>2. \A n \in Names : ShownValues(rows, n) = cache[n]
      BY <1>1, <1>4, UnlistedIsAsCached DEF HasChanges
    <2>3. Shown(rows) = cache
      BY <1>2, <2>2 DEF Shown
    <2>4. QED
      BY <1>1, <2>1, <2>3 DEF CleanSave, UndisturbedSaveIsExact
  <1>5. QED
    BY <1>3, <1>4

LEMMA EndSaveInv ==
    ASSUME SaveInv, NEW ok \in BOOLEAN, EndSave(ok)
    PROVE  CleanSave' /\ UndisturbedSaveIsExact'
  <1>1. phase = "saving" /\ phase' = "done" /\ clean' = (IF ok THEN clean ELSE {})
        /\ adds = {} /\ dels = {} /\ upds = {} /\ dir' = dir /\ wanted' = wanted
        /\ cache' = (IF ok THEN dir ELSE cache) /\ rows' = LoadedRows(cache')
    BY DEF EndSave, Shows
  <1>2. /\ dir \in Entry /\ wanted \in Entry /\ clean \subseteq Names
    BY DEF SaveInv, TableInv, TypeOK
  <1>3. ASSUME NEW n \in clean'
        PROVE  ok /\ n \in Names /\ dir[n] = wanted[n]
    <2>1. ok /\ n \in clean /\ n \in Names
      BY <1>1, <1>2
    <2>2. SaveBegan /\ DirProgresses
      BY <1>1 DEF SaveInv, CleanSave
    <2>3. dir[n] = ShownValues(rows, n)
      BY <1>1, <2>1, <2>2, ProgressAtEnd DEF DirProgresses
    <2>4. QED
      BY <2>1, <2>2, <2>3 DEF SaveBegan, Shown
  <1>4. ASSUME NEW n \in clean', NEW id \in RowId, id[1] = n
        PROVE  rows'[id] = LoadedRows(wanted)[id]
    BY <1>1, <1>2, <1>3, <1>4, LoadedRowsValue
  <1>5. QED
    BY <1>1, <1>3, <1>4 DEF CleanSave, UndisturbedSaveIsExact

LEMMA NextSaveInv ==
    ASSUME SaveInv, [Next]_vars
    PROVE  SaveInv'
  <1>1. TableInv'
    BY NextTableInv DEF SaveInv
  <1>2. CASE UserStep
    <2>1. CASE BeginSave
      BY <1>1, <2>1, BeginSaveInv DEF SaveInv
    <2>2. CASE ~BeginSave
      <3>1. phase' = "editing"
        BY <1>2, <2>2 DEF UserStep, SetValue, AddAttribute, DeleteAttribute, Edited, Revert, Reselect
      <3>2. QED
        BY <1>1, <3>1 DEF SaveInv, CleanSave, UndisturbedSaveIsExact
    <2>3. QED
      BY <2>1, <2>2
  <1>3. CASE SaveStep
    <2>1. PICK ok \in BOOLEAN :
              \/ \E id \in RowId : SendAdd(id, ok)
              \/ \E p \in Names \X Values : SendDelete(p, ok)
              \/ \E n \in Names : SearchForUpdate(n, ok)
              \/ SendReplace(ok)
              \/ EndSave(ok)
      BY <1>3 DEF SaveStep
    <2>2. CASE EndSave(ok)
      BY <1>1, <2>2, EndSaveInv DEF SaveInv
    <2>3. CASE ~EndSave(ok)
      <3>1. SaveBegan' /\ DirProgresses'
        BY <2>1, <2>3, AddProgresses, DeleteProgresses, SearchProgresses, ReplaceProgresses
      <3>2. phase' = "saving"
        BY <2>1, <2>3 DEF SendAdd, SendDelete, SearchForUpdate, SendReplace, Request
      <3>3. QED
        BY <1>1, <3>1, <3>2 DEF SaveInv, CleanSave, UndisturbedSaveIsExact
    <2>4. QED
      BY <2>2, <2>3
  <1>4. CASE OtherStep
    <2>1. PICK n \in Names, values \in SUBSET Values : OtherClient(n, values)
      BY <1>4 DEF OtherStep
    <2>2. /\ dir' = [dir EXCEPT ![n] = values] /\ clean' = clean \ {n}
          /\ UNCHANGED <<cache, rows, phase, adds, dels, upds, upd, wanted>>
      BY <2>1 DEF OtherClient, saveVars
    <2>3. \A m \in clean' : m \in clean /\ dir'[m] = dir[m]
      BY <2>2 DEF SaveInv, TableInv, TypeOK, Entry
    <2>4. CleanSave'
      BY <2>2, <2>3 DEF SaveInv, CleanSave, SaveBegan, DirProgresses, Progress
    <2>5. UndisturbedSaveIsExact'
      BY <2>2, <2>3 DEF SaveInv, UndisturbedSaveIsExact
    <2>6. QED
      BY <1>1, <2>4, <2>5 DEF SaveInv
  <1>5. CASE UNCHANGED vars
    <2>1. UNCHANGED <<dir, cache, rows, phase, adds, dels, upds, upd, wanted, clean>>
      BY <1>5 DEF vars
    <2>2. CleanSave'
      BY <2>1 DEF SaveInv, CleanSave, SaveBegan, DirProgresses, Progress
    <2>3. UndisturbedSaveIsExact'
      BY <2>1 DEF SaveInv, UndisturbedSaveIsExact
    <2>4. QED
      BY <1>1, <2>2, <2>3 DEF SaveInv
  <1>6. QED
    BY <1>2, <1>3, <1>4, <1>5 DEF Next

(* An attribute that was up to date in the cache, is not repeated in the    *)
(* table and is left alone by other clients and by refusals is, when a save *)
(* has ended, what the table showed on the server, in the cache and in the  *)
(* table, whatever became of the requests for the other attributes.         *)
THEOREM UndisturbedSavesAreExact == Spec => []UndisturbedSaveIsExact
  <1>1. SaveInv => UndisturbedSaveIsExact
    BY DEF SaveInv
  <1>2. QED
    BY <1>1, InitSaveInv, NextSaveInv, PTL DEF Spec

(* With nothing to send, no edit is lost by leaving the entry: the table    *)
(* shows the cached values.                                                 *)
THEOREM NothingToSendNothingToLose == Spec => []NoChangesMeansNothingToLose
  <1>1. TableInv => NoChangesMeansNothingToLose
    <2> SUFFICES ASSUME TableInv, ~HasChanges(rows, cache)
                 PROVE  Shown(rows) = cache
      BY DEF NoChangesMeansNothingToLose
    <2>1. cache \in [Names -> SUBSET Values]
      BY DEF TableInv, TypeOK, Entry
    <2>2. \A n \in Names : ShownValues(rows, n) = cache[n]
      BY UnlistedIsAsCached DEF HasChanges
    <2>3. QED
      BY <2>1, <2>2 DEF Shown
  <1>2. QED
    BY <1>1, InitTableInv, NextTableInv, PTL DEF Spec

-----------------------------------------------------------------------------
(* Numbers as texts.                                                       *)

HIDE NamesAssumption

HIDE ValuesAssumption

\* What the first i digits of a word amount to.
Reading(g, w) ==
    g[0] = 0 /\ \A i \in 1 .. Len(w) : g[i] = 10 * g[i - 1] + (w[i] - 48)

\* Decimals computes that of the whole word.
LEMMA DecimalsAreRead ==
    ASSUME NEW w \in Seq(Nat)
    PROVE  \E g \in [0 .. Len(w) -> Int] : Reading(g, w) /\ Decimals(w) = g[Len(w)]
<1> DEFINE n == Len(w)
           F == [i \in 1 .. n |-> [v \in Int |-> 10 * v + (w[i] - 48)]]
           Unfolds(g) == g = [i \in 0 .. Len(w) |->
               IF i = 0 THEN 0 ELSE 10 * g[i - 1] + (w[i] - 48)]
           read[i \in 0 .. Len(w)] == IF i = 0 THEN 0 ELSE 10 * read[i - 1] + (w[i] - 48)
<1>1. n \in Nat /\ \A i \in 1 .. n : w[i] \in Nat
  OBVIOUS
<1>2. F \in [1 .. n -> [Int -> Int]]
  BY <1>1
<1>3. PICK g \in [0 .. n -> Int] : Runs(g, n, 0, F)
  <2> HIDE DEF F, n
  <2> QED
    BY <1>1, <1>2, LoopRuns, 0 \in Int, Zenon
<1>4. ASSUME NEW i \in 1 .. n
      PROVE  g[i] = 10 * g[i - 1] + (w[i] - 48)
  <2>1. i - 1 \in 0 .. n
    BY <1>1
  <2>2. g[i - 1] \in Int /\ g[i] = F[i][g[i - 1]]
    BY <1>3, <2>1 DEF Runs
  <2> QED
    BY <2>2
<1>5. Unfolds(g)
  <2>1. \A i \in 0 .. n : g[i] = IF i = 0 THEN 0 ELSE 10 * g[i - 1] + (w[i] - 48)
    <3> TAKE i \in 0 .. n
    <3>1. CASE i = 0
      BY <1>3, <3>1 DEF Runs
    <3>2. CASE i # 0
      <4>1. i \in 1 .. n
        BY <1>1, <3>2
      <4> QED
        BY <1>4, <3>2, <4>1
    <3> QED
      BY <3>1, <3>2
  <2>2. g = [i \in 0 .. n |-> g[i]]
    BY <1>3 DEF Runs
  <2> QED
    BY <2>1, <2>2
<1>6. Unfolds(read)
  <2>1. read = CHOOSE f : Unfolds(f)
    BY DEF read
  <2> HIDE DEF Unfolds, read
  <2> QED
    BY <1>5, <2>1
<1>7. read \in [0 .. n -> Int] /\ Reading(read, w)
  <2> HIDE DEF read
  <2>1. /\ read[0] = 0 /\ read = [i \in 0 .. n |-> read[i]]
        /\ \A i \in 1 .. n : read[i] = 10 * read[i - 1] + (w[i] - 48)
    <3>1. 0 \in 0 .. n /\ \A i \in 1 .. n : i \in 0 .. n /\ i # 0
      BY <1>1
    <3>2. read = [i \in 0 .. n |-> read[i]]
      BY <1>6
    <3> QED
      BY <1>6, <3>1, <3>2
  <2>2. Reading(read, w)
    BY <2>1 DEF Reading
  <2> DEFINE Typed == {i \in 0 .. n : read[i] \in Int}
  <2>3. 0 \in Typed
    BY <1>1, <2>1
  <2>4. ASSUME NEW i \in 1 .. n, i - 1 \in Typed
        PROVE  i \in Typed
    <3>1. read[i - 1] \in Int /\ w[i] \in Nat /\ i \in 0 .. n
      BY <1>1, <2>4
    <3>2. read[i] = 10 * read[i - 1] + (w[i] - 48)
      BY <2>1
    <3>3. read[i] \in Int
      BY <3>1, <3>2
    <3> QED
      BY <3>1, <3>3
  <2>5. Typed \in SUBSET (0 .. n)
    OBVIOUS
  <2>6. Typed = 0 .. n
    <3> HIDE DEF Typed, n
    <3> QED
      BY <1>1, <2>3, <2>4, <2>5, OneByOne
  <2>7. \A i \in 0 .. n : read[i] \in Int
    BY <2>6
  <2> QED
    BY <2>1, <2>2, <2>7
<1>8. Decimals(w) = read[Len(w)]
  BY DEF Decimals
<1> QED
  BY <1>7, <1>8

\* No digits amount to nothing, ...
LEMMA DecimalsOfNone == Decimals(<<>>) = 0
<1>1. <<>> \in Seq(Nat) /\ Len(<<>>) = 0
  OBVIOUS
<1> QED
  BY <1>1, DecimalsAreRead DEF Reading

\* ... and one more counts for one, the others for ten times as much.
LEMMA DecimalsOfAppend ==
    ASSUME NEW w \in Seq(Nat), NEW d \in Nat
    PROVE  Decimals(Append(w, d)) = 10 * Decimals(w) + (d - 48)
<1> DEFINE n == Len(w)
           v == Append(w, d)
<1>1. /\ n \in Nat /\ v \in Seq(Nat) /\ Len(v) = n + 1 /\ v[n + 1] = d
      /\ \A i \in 1 .. n : v[i] = w[i]
  OBVIOUS
<1> HIDE DEF v
<1>2. PICK g \in [0 .. Len(w) -> Int] : Reading(g, w) /\ Decimals(w) = g[Len(w)]
  BY DecimalsAreRead
<1>3. PICK h \in [0 .. Len(v) -> Int] : Reading(h, v) /\ Decimals(v) = h[Len(v)]
  BY <1>1, DecimalsAreRead
<1> DEFINE Same == {i \in 0 .. n : g[i] = h[i]}
<1>4. 0 \in Same
  BY <1>1, <1>2, <1>3 DEF Reading
<1>5. ASSUME NEW i \in 1 .. n, i - 1 \in Same
      PROVE  i \in Same
  <2>1. g[i - 1] = h[i - 1] /\ i \in 0 .. n /\ i \in 1 .. Len(v) /\ v[i] = w[i]
    BY <1>1, <1>5
  <2> QED
    BY <1>2, <1>3, <2>1 DEF Reading
<1>6. Same \in SUBSET (0 .. n)
  OBVIOUS
<1>7. n \in Same
  <2> HIDE DEF Same
  <2>1. Same = 0 .. n
    <3> HIDE DEF n
    <3> QED
      BY <1>1, <1>4, <1>5, <1>6, OneByOne
  <2> QED
    BY <1>1, <2>1
<1>8. h[n + 1] = 10 * h[n] + (v[n + 1] - 48)
  <2>1. n + 1 \in 1 .. Len(v) /\ (n + 1) - 1 = n
    BY <1>1
  <2> QED
    BY <1>3, <2>1 DEF Reading
<1> QED
  BY <1>1, <1>2, <1>3, <1>7, <1>8 DEF v

\* The digits of the numbers up to n.
Spelling(g, n) ==
    \A k \in 0 .. n :
        g[k] = IF k < 10 THEN <<k + 48>> ELSE Append(g[k \div 10], (k % 10) + 48)

\* A number is its last digit and ten times the others.
LEMMA Halving ==
    ASSUME NEW k \in Nat, ~(k < 10)
    PROVE  /\ k \div 10 \in Nat /\ k \div 10 < k /\ k % 10 \in 0 .. 9
           /\ 10 * (k \div 10) + (k % 10) = k
OBVIOUS

\* Digits computes them.
LEMMA DigitsAreSpelt ==
    ASSUME NEW n \in Nat
    PROVE  \E g \in [0 .. n -> Seq(DIGITS)] : Spelling(g, n) /\ Digits(n) = g[n]
<1> DEFINE T == Seq(DIGITS)
           Unfolds(g) == g = [k \in 0 .. n |->
               IF k < 10 THEN <<k + 48>> ELSE Append(g[k \div 10], (k % 10) + 48)]
           digits[k \in 0 .. n] ==
               IF k < 10 THEN <<k + 48>> ELSE Append(digits[k \div 10], (k % 10) + 48)
           Good == {m \in 0 .. n : \E g \in [0 .. m -> T] : Spelling(g, m)}
<1>0. \A k \in 0 .. 9 : <<k + 48>> \in T
  BY DEF DIGITS
<1>1. 0 \in Good
  <2> DEFINE g == [k \in 0 .. 0 |-> <<48>>]
  <2>1. g \in [0 .. 0 -> T] /\ g[0] = <<0 + 48>> /\ 0 \in 0 .. n
    BY DEF DIGITS
  <2> HIDE DEF g, T
  <2>2. \A k \in 0 .. 0 : k = 0
    OBVIOUS
  <2>3. Spelling(g, 0)
    BY <2>1, <2>2 DEF Spelling
  <2> QED
    BY <2>1, <2>3
<1>2. ASSUME NEW m \in 1 .. n, m - 1 \in Good
      PROVE  m \in Good
  <2>1. PICK g \in [0 .. m - 1 -> T] : Spelling(g, m - 1)
    BY <1>2
  <2> DEFINE next == IF m < 10 THEN <<m + 48>> ELSE Append(g[m \div 10], (m % 10) + 48)
             h == [k \in 0 .. m |-> IF k = m THEN next ELSE g[k]]
  <2>2. next \in T
    <3>1. CASE m < 10
      <4>1. m \in 0 .. 9
        BY <3>1
      <4> HIDE DEF T
      <4> QED
        BY <1>0, <3>1, <4>1
    <3>2. CASE ~(m < 10)
      <4>1. m \div 10 \in 0 .. m - 1 /\ m % 10 \in 0 .. 9
        BY <3>2, Halving
      <4>2. g[m \div 10] \in T /\ (m % 10) + 48 \in DIGITS
        <5> HIDE DEF T
        <5> QED
          BY <4>1 DEF DIGITS
      <4>3. Append(g[m \div 10], (m % 10) + 48) \in T
        BY <4>2, AppendProperties
      <4> QED
        BY <3>2, <4>3
    <3> QED
      BY <3>1, <3>2
  <2> HIDE DEF next, T
  <2>3. \A k \in 0 .. m : k # m => k \in 0 .. m - 1
    OBVIOUS
  <2>4. h \in [0 .. m -> T]
    BY <2>2, <2>3
  <2>5. \A k \in 0 .. m - 1 : h[k] = g[k]
    OBVIOUS
  <2>6. h[m] = next
    OBVIOUS
  <2> HIDE DEF h
  <2>7. ASSUME NEW k \in 0 .. m
        PROVE  h[k] = IF k < 10 THEN <<k + 48>> ELSE Append(h[k \div 10], (k % 10) + 48)
    <3>1. ~(k < 10) => k \div 10 \in 0 .. m - 1
      BY Halving
    <3>2. ~(k < 10) => h[k \div 10] = g[k \div 10]
      BY <2>5, <3>1
    <3>3. CASE k = m
      BY <2>6, <3>2, <3>3 DEF next
    <3>4. CASE k # m
      <4>1. k \in 0 .. m - 1
        BY <3>4
      <4>2. g[k] = IF k < 10 THEN <<k + 48>> ELSE Append(g[k \div 10], (k % 10) + 48)
        BY <2>1, <4>1 DEF Spelling
      <4> QED
        BY <2>5, <3>2, <4>1, <4>2
    <3> QED
      BY <3>3, <3>4
  <2>8. Spelling(h, m)
    BY <2>7 DEF Spelling
  <2>9. m \in 0 .. n
    OBVIOUS
  <2> QED
    BY <2>4, <2>8, <2>9
<1>3. Good \in SUBSET (0 .. n)
  OBVIOUS
<1>4. n \in Good
  <2> HIDE DEF Good
  <2>1. Good = 0 .. n
    BY <1>1, <1>2, <1>3, OneByOne
  <2> QED
    BY <2>1
<1>5. PICK g \in [0 .. n -> T] : Spelling(g, n)
  BY <1>4
<1>6. Unfolds(g)
  <2>1. [k \in 0 .. n |-> g[k]] = [k \in 0 .. n |->
            IF k < 10 THEN <<k + 48>> ELSE Append(g[k \div 10], (k % 10) + 48)]
    BY <1>5 DEF Spelling
  <2>2. g = [k \in 0 .. n |-> g[k]]
    OBVIOUS
  <2> QED
    BY <2>1, <2>2
<1>7. Unfolds(digits)
  <2>1. digits = CHOOSE f : Unfolds(f)
    BY DEF digits
  <2> HIDE DEF Unfolds, digits
  <2> QED
    BY <1>6, <2>1
<1>8. Digits(n) = digits[n]
  BY DEF Digits
<1> HIDE DEF digits
<1>9. Spelling(digits, n) /\ digits = [k \in 0 .. n |-> digits[k]]
  BY <1>7 DEF Spelling
<1>10. \A k \in 0 .. n : digits[k] \in T
  <2> DEFINE Typed == {m \in 0 .. n : \A k \in 0 .. m : digits[k] \in T}
  <2>1. 0 \in Typed
    <3>1. \A k \in 0 .. 0 : k = 0 /\ k < 10 /\ k \in 0 .. n /\ k \in 0 .. 9
      OBVIOUS
    <3>2. 0 \in 0 .. n
      OBVIOUS
    <3> HIDE DEF T
    <3> QED
      BY <1>0, <1>9, <3>1, <3>2 DEF Spelling
  <2>2. ASSUME NEW m \in 1 .. n, m - 1 \in Typed
        PROVE  m \in Typed
    <3> SUFFICES ASSUME NEW k \in 0 .. m PROVE digits[k] \in T
      OBVIOUS
    <3>1. \A i \in 0 .. m - 1 : digits[i] \in T
      BY <2>2
    <3>2. digits[k] = IF k < 10 THEN <<k + 48>> ELSE Append(digits[k \div 10], (k % 10) + 48)
      <4>1. k \in 0 .. n
        OBVIOUS
      <4> QED
        BY <1>9, <4>1 DEF Spelling
    <3> HIDE DEF T
    <3>3. CASE k < 10
      <4>1. k \in 0 .. 9
        BY <3>3
      <4> QED
        BY <1>0, <3>2, <3>3, <4>1
    <3>4. CASE ~(k < 10)
      <4>1. k \div 10 \in 0 .. m - 1 /\ k % 10 \in 0 .. 9
        BY <3>4, Halving
      <4>2. digits[k \div 10] \in T /\ (k % 10) + 48 \in DIGITS
        BY <3>1, <4>1 DEF DIGITS
      <4>3. Append(digits[k \div 10], (k % 10) + 48) \in T
        BY <4>2, AppendProperties DEF T
      <4> QED
        BY <3>2, <3>4, <4>3
    <3> QED
      BY <3>3, <3>4
  <2>3. Typed \in SUBSET (0 .. n)
    OBVIOUS
  <2>4. Typed = 0 .. n
    <3> HIDE DEF Typed
    <3> QED
      BY <2>1, <2>2, <2>3, OneByOne
  <2>5. n \in Typed
    <3>1. n \in 0 .. n
      OBVIOUS
    <3> HIDE DEF Typed
    <3> QED
      BY <2>4, <3>1
  <2> QED
    BY <2>5
<1> QED
  BY <1>8, <1>9, <1>10

\* A number is spelt by digits that amount to it.
LEMMA DigitsRead ==
    ASSUME NEW n \in Nat
    PROVE  Digits(n) \in Seq(DIGITS) /\ Digits(n) # <<>> /\ Decimals(Digits(n)) = n
<1>1. PICK g \in [0 .. n -> Seq(DIGITS)] : Spelling(g, n) /\ Digits(n) = g[n]
  BY DigitsAreSpelt
<1> DEFINE Good == {m \in 0 .. n : \A k \in 0 .. m : g[k] # <<>> /\ Decimals(g[k]) = k}
<1>2. \A w \in Seq(DIGITS) : w \in Seq(Nat)
  <2>1. DIGITS \subseteq Nat
    BY DEF DIGITS
  <2> QED
    BY <2>1, SeqMonotonic
<1>3. ASSUME NEW k \in 0 .. n, k < 10
      PROVE  g[k] # <<>> /\ Decimals(g[k]) = k
  <2>1. g[k] = <<k + 48>>
    BY <1>1, <1>3 DEF Spelling
  <2>2. <<>> \in Seq(Nat) /\ k + 48 \in Nat /\ <<k + 48>> = Append(<<>>, k + 48)
    OBVIOUS
  <2>3. Decimals(<<k + 48>>) = 10 * 0 + ((k + 48) - 48)
    BY <2>2, DecimalsOfNone, DecimalsOfAppend
  <2> QED
    BY <2>1, <2>3
<1>4. 0 \in Good
  <2>1. \A k \in 0 .. 0 : k \in 0 .. n /\ k < 10
    OBVIOUS
  <2>2. 0 \in 0 .. n
    OBVIOUS
  <2> QED
    BY <1>3, <2>1, <2>2
<1>5. ASSUME NEW m \in 1 .. n, m - 1 \in Good
      PROVE  m \in Good
  <2> SUFFICES ASSUME NEW k \in 0 .. m
               PROVE  g[k] # <<>> /\ Decimals(g[k]) = k
    OBVIOUS
  <2>1. k \in 0 .. n
    OBVIOUS
  <2>2. CASE k < 10
    BY <1>3, <2>1, <2>2
  <2>3. CASE ~(k < 10)
    <3> DEFINE t == k \div 10
               u == (k % 10)
    <3>1. t \in 0 .. m - 1 /\ t \in 0 .. n /\ u \in 0 .. 9 /\ 10 * t + u = k
      BY <2>3, Halving
    <3>2. g[k] = Append(g[t], u + 48)
      BY <1>1, <2>1, <2>3 DEF Spelling
    <3> HIDE DEF t, u
    <3>3. g[t] \in Seq(Nat) /\ Decimals(g[t]) = t /\ u + 48 \in Nat
      BY <1>2, <1>5, <3>1
    <3>4. Decimals(Append(g[t], u + 48)) = 10 * t + ((u + 48) - 48)
      BY <3>3, DecimalsOfAppend
    <3>5. Append(g[t], u + 48) # <<>>
      <4>1. \A w \in Seq(Nat), x \in Nat : Append(w, x) # <<>>
        <5> TAKE w \in Seq(Nat), x \in Nat
        <5>1. Len(Append(w, x)) = Len(w) + 1 /\ Len(w) \in Nat
          OBVIOUS
        <5>2. Append(w, x) = <<>> => Len(Append(w, x)) = 0
          OBVIOUS
        <5> QED
          BY <5>1, <5>2
      <4> QED
        BY <3>3, <4>1, Zenon
    <3>6. k = 10 * t + ((u + 48) - 48)
      BY <3>1
    <3> QED
      BY <3>2, <3>4, <3>5, <3>6
  <2> QED
    BY <2>2, <2>3
<1>6. Good \in SUBSET (0 .. n)
  OBVIOUS
<1>7. n \in Good
  <2> HIDE DEF Good
  <2>1. Good = 0 .. n
    BY <1>4, <1>5, <1>6, OneByOne
  <2> QED
    BY <2>1
<1> QED
  BY <1>1, <1>7

\* What toInt and toLong make of the text of a number.
LEMMA NumeralRead ==
    ASSUME NEW n \in Int
    PROVE  /\ Numeral(n) \in Seq(Nat) /\ Numeral(n) # <<>>
           /\ \A i \in DOMAIN Numeral(n) : Numeral(n)[i] # BLANK
           /\ IsNumeral(Numeral(n)) /\ ValueOf(Numeral(n)) = n
<1> DEFINE m == IF n < 0 THEN -n ELSE n
           d == Digits(m)
           v == Numeral(n)
<1>1. m \in Nat
  OBVIOUS
<1>2. d \in Seq(DIGITS) /\ d # <<>> /\ Decimals(d) = m
  <2> HIDE DEF m
  <2> QED
    BY <1>1, DigitsRead
<1>3. DIGITS \subseteq Nat /\ BLANK \notin DIGITS /\ 45 \notin DIGITS
      /\ 43 \notin DIGITS /\ BLANK # 45
  BY DEF DIGITS, BLANK
<1>4. d \in Seq(Nat)
  BY <1>2, <1>3, SeqMonotonic
<1> HIDE DEF d
<1>5. /\ Len(d) \in Nat /\ DOMAIN d = 1 .. Len(d) /\ 1 \in 1 .. Len(d)
      /\ \A i \in 1 .. Len(d) : d[i] \in DIGITS
  <2>1. Len(d) \in Nat \ {0}
    BY <1>2, EmptySeq
  <2> QED
    BY <1>2, <2>1, LenProperties, ElementOfSeq
<1>6. CASE ~(n < 0)
  <2>1. v = d /\ m = n
    BY <1>6 DEF Numeral, d
  <2>2. Unsigned(v) = v /\ v[1] # 45
    BY <1>3, <1>5, <2>1 DEF Unsigned, SIGNS
  <2> HIDE DEF v, m
  <2>3. IsNumeral(v)
    BY <1>2, <1>5, <2>1, <2>2 DEF IsNumeral
  <2>4. ValueOf(v) = n
    BY <1>2, <2>1, <2>2 DEF ValueOf
  <2>5. \A i \in DOMAIN v : v[i] # BLANK
    BY <1>3, <1>5, <2>1
  <2> QED
    BY <1>2, <1>4, <2>1, <2>3, <2>4, <2>5 DEF v
<1>7. CASE n < 0
  <2>1. v = <<45>> \o d /\ m = -n
    BY <1>7 DEF Numeral, d
  <2>2. <<45>> \in Seq(Nat) /\ Len(<<45>>) = 1 /\ <<45>>[1] = 45
    OBVIOUS
  <2>3. /\ v \in Seq(Nat) /\ Len(v) = 1 + Len(d) /\ DOMAIN v = 1 .. Len(v)
        /\ v[1] = 45 /\ \A i \in 2 .. Len(v) : v[i] = d[i - 1]
    <3> HIDE DEF v, m
    <3> QED
      BY <1>4, <1>5, <2>1, <2>2
  <2>4. Tail(v) = d
    <3>1. \A w \in Seq(Nat) : Tail(<<45>> \o w) = w
      OBVIOUS
    <3> HIDE DEF v, m
    <3> QED
      BY <1>4, <2>1, <3>1
  <2> HIDE DEF v, m
  <2>5. v # <<>>
    BY <1>5, <2>3, EmptySeq
  <2>6. Unsigned(v) = d
    BY <2>3, <2>4, <2>5 DEF Unsigned, SIGNS
  <2>7. IsNumeral(v)
    BY <1>2, <1>5, <2>6 DEF IsNumeral
  <2>8. ValueOf(v) = n
    BY <1>2, <2>1, <2>3, <2>6 DEF ValueOf
  <2>9. \A i \in DOMAIN v : v[i] # BLANK
    <3> SUFFICES ASSUME NEW i \in DOMAIN v PROVE v[i] # BLANK
      OBVIOUS
    <3>1. i = 1 \/ (i \in 2 .. Len(v) /\ i - 1 \in 1 .. Len(d))
      BY <1>5, <2>3
    <3> QED
      BY <1>3, <1>5, <2>3, <3>1
  <2> QED
    BY <2>3, <2>5, <2>7, <2>8, <2>9 DEF v
<1> QED
  BY <1>6, <1>7

\* What is a number for the editor is one for the check, and is read again.
LEMMA IntegerKept ==
    ASSUME NEW w \in Seq(Nat)
    PROVE  /\ ToInt(w) \in Int
           /\ ToInt(Numeral(ToInt(w))) = ToInt(w)
<1>1. ToInt(w) \in (-IntMax - 1) .. IntMax
  <2>1. 0 \in (-IntMax - 1) .. IntMax
    BY WidthsAssumption, IntAssumption
  <2> QED
    BY <2>1 DEF ToInt, Within
<1>2. ToInt(w) \in Int
  BY <1>1, WidthsAssumption, IntAssumption
<1> DEFINE n == ToInt(w)
<1> HIDE DEF n
<1>3. IsNumeral(Numeral(n)) /\ ValueOf(Numeral(n)) = n
  BY <1>2, NumeralRead DEF n
<1>4. ToInt(Numeral(n)) = n
  BY <1>1, <1>3 DEF ToInt, Within, n
<1> QED
  BY <1>2, <1>4 DEF n

-----------------------------------------------------------------------------
(* Blanks, bytes and times.                                                *)

\* Without a blank in front or behind.
IsTrimmed(w) == w = <<>> \/ (w[1] # BLANK /\ w[Len(w)] # BLANK)

\* Trim leaves no blank at either end, and what has none as it is.
LEMMA TrimTrims ==
    ASSUME NEW w \in Seq(Nat)
    PROVE  /\ Trim(w) \in Seq(Nat) /\ IsTrimmed(Trim(w))
           /\ IsTrimmed(w) => Trim(w) = w
<1> DEFINE solid == {i \in DOMAIN w : w[i] # BLANK}
<1>1. Len(w) \in Nat /\ DOMAIN w = 1 .. Len(w) /\ \A i \in 1 .. Len(w) : w[i] \in Nat
  OBVIOUS
<1>2. CASE solid = {}
  <2>1. Trim(w) = <<>>
    BY <1>2 DEF Trim
  <2>2. IsTrimmed(w) => w = <<>>
    <3> SUFFICES ASSUME w # <<>>, w[1] # BLANK PROVE FALSE
      BY DEF IsTrimmed
    <3>1. 1 \in DOMAIN w
      <4>1. Len(w) # 0
        BY EmptySeq
      <4> QED
        BY <1>1, <4>1
    <3> QED
      BY <1>2, <3>1
  <2> QED
    BY <2>1, <2>2 DEF IsTrimmed
<1>3. CASE solid # {}
  <2> DEFINE lo == Min(solid)
             hi == Max(solid)
  <2>1. solid \in SUBSET Nat
    BY <1>1
  <2>2. lo \in solid /\ \A i \in solid : lo <= i
    <3>1. \E x \in solid : \A y \in solid : x <= y
      <4> HIDE DEF solid
      <4> QED
        BY <1>3, <2>1, LeastOf
    <3> HIDE DEF solid
    <3> QED
      BY <3>1 DEF Min
  <2>3. hi \in solid /\ \A i \in solid : hi >= i
    <3> DEFINE T == {Len(w) - i : i \in solid}
    <3>1. T \in SUBSET Nat /\ T # {}
      BY <1>1, <1>3
    <3>2. \E x \in T : \A y \in T : x <= y
      <4> HIDE DEF T
      <4> QED
        BY <3>1, LeastOf
    <3>3. PICK i \in solid : \A j \in solid : Len(w) - i <= Len(w) - j
      BY <3>2
    <3>4. \A j \in solid : i >= j
      <4> HIDE DEF solid
      <4> QED
        BY <1>1, <2>1, <3>3
    <3> HIDE DEF solid
    <3> QED
      BY <3>3, <3>4 DEF Max
  <2> HIDE DEF lo, hi
  <2> DEFINE v == SubSeq(w, lo, hi)
  <2>4. Trim(w) = v
    BY <1>3 DEF Trim, lo, hi
  <2>5. /\ lo \in 1 .. Len(w) /\ hi \in 1 .. Len(w) /\ lo <= hi
        /\ w[lo] # BLANK /\ w[hi] # BLANK
    BY <1>1, <2>2, <2>3
  <2>6. /\ v \in Seq(Nat) /\ Len(v) = hi - lo + 1 /\ v[1] = w[lo] /\ v[hi - lo + 1] = w[hi]
    BY <1>1, <2>5
  <2>7. IsTrimmed(v)
    <3> HIDE DEF v
    <3> QED
      BY <2>5, <2>6 DEF IsTrimmed
  <2>8. ASSUME IsTrimmed(w)
        PROVE  v = w
    <3>1. w # <<>>
      BY <1>1, <1>3
    <3>2. 1 \in solid /\ Len(w) \in solid
      <4>1. 1 \in DOMAIN w /\ Len(w) \in DOMAIN w
        BY <1>1, <2>5
      <4> QED
        BY <2>8, <3>1, <4>1 DEF IsTrimmed
    <3>3. lo = 1 /\ hi = Len(w)
      <4>1. lo <= 1 /\ hi >= Len(w)
        <5> HIDE DEF solid
        <5> QED
          BY <2>2, <2>3, <3>2
      <4>2. lo \in 1 .. Len(w) /\ hi \in 1 .. Len(w) /\ Len(w) \in Nat
        BY <1>1, <2>5
      <4> HIDE DEF solid, v
      <4> QED
        BY <4>1, <4>2
    <3> QED
      BY <3>3, SubSeqFull
  <2> HIDE DEF v
  <2> QED
    BY <2>4, <2>6, <2>7, <2>8
<1> QED
  BY <1>2, <1>3

\* Once is enough.
LEMMA TrimOfTrim ==
    ASSUME NEW w \in Seq(Nat)
    PROVE  Trim(Trim(w)) = Trim(w)
BY TrimTrims

\* What has no blanks at all.
LEMMA TrimOfSolid ==
    ASSUME NEW w \in Seq(Nat), \A i \in DOMAIN w : w[i] # BLANK
    PROVE  Trim(w) = w
<1>1. IsTrimmed(w)
  <2>1. CASE w # <<>>
    <3>1. Len(w) \in Nat \ {0} /\ DOMAIN w = 1 .. Len(w)
      BY <2>1, EmptySeq, LenProperties
    <3>2. 1 \in DOMAIN w /\ Len(w) \in DOMAIN w
      BY <3>1
    <3> QED
      BY <3>2 DEF IsTrimmed
  <2> QED
    BY <2>1 DEF IsTrimmed
<1> QED
  BY <1>1, TrimTrims


Solid == Nat \ {BLANK}

\* Nothing is lost of what has no blanks.
LEMMA PackedOfSolid ==
    ASSUME NEW w \in Seq(Nat), \A i \in DOMAIN w : w[i] # BLANK
    PROVE  Packed(w) = w
<1>1. w \in Seq(Solid)
  <2>1. Len(w) \in Nat /\ w \in [1 .. Len(w) -> Nat] /\ DOMAIN w = 1 .. Len(w)
    BY LenProperties
  <2>2. w \in [1 .. Len(w) -> Solid]
    BY <2>1 DEF Solid
  <2> QED
    BY <2>1, <2>2, FunctionIsList, Zenon
<1> DEFINE Good == {p \in Seq(Solid) : Only(p, Solid) = p}
<1>2. <<>> \in Good
  BY EmptySeq, OnlyOfNone
<1>3. ASSUME NEW p \in Good, NEW x \in Solid
      PROVE  Append(p, x) \in Good
  <2>1. p \in Seq(Solid) /\ Only(p, Solid) = p
    OBVIOUS
  <2>2. Only(Append(p, x), Solid) = Append(p, x)
    BY <2>1, OnlyOfAppend
  <2>3. Append(p, x) \in Seq(Solid)
    BY <2>1, AppendProperties
  <2> QED
    BY <2>2, <2>3
<1>4. Good \in SUBSET Seq(Solid)
  OBVIOUS
<1>5. w \in Good
  <2> HIDE DEF Good, Solid
  <2>1. Good = Seq(Solid)
    BY <1>2, <1>3, <1>4, ByAppending
  <2> QED
    BY <1>1, <2>1
<1> QED
  BY <1>5 DEF Packed, Solid

\* Where the blanks come.
LEMMA Thirds ==
    ASSUME NEW i \in Nat, i # 0
    PROVE  /\ i \div 3 \in Nat /\ i % 3 \in 0 .. 2 /\ i = 3 * (i \div 3) + (i % 3)
           /\ (i % 3) = 0 => (i - 1) \div 3 = (i \div 3) - 1
           /\ (i % 3) # 0 => (i - 1) \div 3 = i \div 3
OBVIOUS

\* Blanks between the pairs are all that is added, and all that is dropped.
LEMMA PackedOfSpaced ==
    ASSUME NEW w \in Seq(Nat), \A i \in DOMAIN w : w[i] # BLANK,
           NEW m \in Nat, m # 0, Len(w) = 2 * m
    PROVE  /\ Spaced(w) \in Seq(Nat) /\ IsTrimmed(Spaced(w))
           /\ Packed(Spaced(w)) = w
<1> DEFINE n == 3 * m - 1
           v == Spaced(w)
           at(i) == 2 * (i \div 3) + (i % 3)
           g == [i \in 0 .. n |-> SubSeq(w, 1, i - (i \div 3))]
<1>1. /\ n \in Nat /\ DOMAIN w = 1 .. 2 * m
      /\ \A i \in 1 .. 2 * m : w[i] \in Solid /\ w[i] \in Nat
  BY DEF Solid
<1>2. ASSUME NEW i \in 1 .. n
      PROVE  /\ i \in Nat /\ i # 0 /\ i - 1 \in 0 .. n
             /\ i \div 3 \in 0 .. m - 1
             /\ (i % 3) # 0 => at(i) \in 1 .. 2 * m
             /\ at(i) = i - (i \div 3)
  BY Thirds
<1>3. v = [i \in 1 .. n |-> IF i % 3 = 0 THEN BLANK ELSE w[at(i)]]
  <2>1. (Len(w) + 1) \div 2 = m
    OBVIOUS
  <2>2. \A i \in 1 .. n : i % 3 # 0 => at(i) <= Len(w)
    BY <1>2
  <2>3. v = [i \in 1 .. n |-> IF i % 3 = 0 THEN BLANK
                              ELSE IF at(i) <= Len(w) THEN w[at(i)] ELSE 0]
    BY <2>1 DEF Spaced
  <2> HIDE DEF v, at, n
  <2> QED
    BY <2>2, <2>3
<1>4. v \in [1 .. n -> Nat]
  <2>1. BLANK \in Nat
    BY DEF BLANK
  <2> HIDE DEF v, at, n
  <2> QED
    BY <1>1, <1>2, <1>3, <2>1
<1>5. v \in Seq(Nat) /\ Len(v) = n /\ DOMAIN v = 1 .. n
  <2>1. v \in Seq(Nat)
    <3> HIDE DEF v, n
    <3> QED
      BY <1>1, <1>4, FunctionIsList, Zenon
  <2> HIDE DEF v, n
  <2> QED
    BY <1>1, <1>4, <2>1, LenProperties
<1>6. IsTrimmed(v)
  <2>1. 1 \in 1 .. n /\ n \in 1 .. n /\ 1 % 3 = 1 /\ n % 3 = 2
    OBVIOUS
  <2>2. v[1] \in Solid /\ v[n] \in Solid
    <3>1. at(1) \in 1 .. 2 * m /\ at(n) \in 1 .. 2 * m
      <4>1. (1 % 3) # 0 /\ (n % 3) # 0
        BY <2>1
      <4> HIDE DEF n, at
      <4> QED
        BY <1>2, <2>1, <4>1
    <3>2. v[1] = w[at(1)] /\ v[n] = w[at(n)]
      <4>1. (1 % 3) # 0 /\ (n % 3) # 0
        BY <2>1
      <4> HIDE DEF n, at, v
      <4> QED
        BY <1>3, <2>1, <4>1
    <3> HIDE DEF n, at, v
    <3> QED
      BY <1>1, <3>1, <3>2
  <2> HIDE DEF v, n
  <2> QED
    BY <1>5, <2>2 DEF IsTrimmed, Solid
<1>7. Keeping(g, v, Solid)
  <2>1. g[0] = <<>>
    <3>1. 0 \in 0 .. n /\ 0 - (0 \div 3) = 0
      OBVIOUS
    <3>2. SubSeq(w, 1, 0) = <<>>
      OBVIOUS
    <3> QED
      BY <3>1, <3>2
  <2>2. ASSUME NEW i \in 1 .. n
        PROVE  g[i] = IF v[i] \in Solid THEN Append(g[i - 1], v[i]) ELSE g[i - 1]
    <3>1. /\ i \in 0 .. n /\ i - 1 \in 0 .. n /\ i \in Nat /\ i # 0
          /\ at(i) = i - (i \div 3)
      BY <1>2
    <3>2. g[i] = SubSeq(w, 1, at(i)) /\ g[i - 1] = SubSeq(w, 1, (i - 1) - ((i - 1) \div 3))
      <4> HIDE DEF at, n
      <4> QED
        BY <3>1
    <3>3. CASE i % 3 = 0
      <4>1. (i - 1) - ((i - 1) \div 3) = at(i)
        BY <3>1, <3>3, Thirds
      <4>2. v[i] = BLANK
        <5> HIDE DEF v, at, n
        <5> QED
          BY <1>3, <3>3
      <4> HIDE DEF v, at, g
      <4> QED
        BY <3>2, <4>1, <4>2 DEF Solid
    <3>4. CASE i % 3 # 0
      <4>1. (i - 1) - ((i - 1) \div 3) = at(i) - 1
        BY <3>1, <3>4, Thirds
      <4>2. v[i] = w[at(i)] /\ at(i) \in 1 .. 2 * m
        <5> HIDE DEF v, at, n
        <5> QED
          BY <1>2, <1>3, <3>4
      <4>3. v[i] \in Solid
        <5> HIDE DEF v, at
        <5> QED
          BY <1>1, <4>2
      <4>4. SubSeq(w, 1, at(i)) = Append(SubSeq(w, 1, at(i) - 1), w[at(i)])
        <5>1. \A k \in 1 .. Len(w) : SubSeq(w, 1, k) = Append(SubSeq(w, 1, k - 1), w[k])
          OBVIOUS
        <5> HIDE DEF at
        <5> QED
          BY <4>2, <5>1
      <4> HIDE DEF v, at, g
      <4> QED
        BY <3>2, <4>1, <4>2, <4>3, <4>4
    <3> QED
      BY <3>3, <3>4
  <2> HIDE DEF g, v, n
  <2> QED
    BY <1>5, <2>1, <2>2 DEF Keeping
<1>8. g[n] = w
  <2>1. n \in 0 .. n /\ n - (n \div 3) = 2 * m
    OBVIOUS
  <2>2. SubSeq(w, 1, 2 * m) = w
    BY SubSeqFull
  <2> HIDE DEF n
  <2> QED
    BY <2>1, <2>2
<1>9. Packed(v) = w
  <2> HIDE DEF g, v, n
  <2>1. PICK h \in [0 .. Len(v) -> Seq(Nat)] :
            Keeping(h, v, Solid) /\ Only(v, Solid) = h[Len(v)]
    BY <1>5, OnlyIsKept
  <2>2. \A i \in 0 .. Len(v) : g[i] = h[i]
    BY <1>5, <1>7, <2>1, KeepingIsUnique
  <2>3. n \in 0 .. Len(v)
    BY <1>1, <1>5
  <2> QED
    BY <1>5, <1>8, <2>1, <2>2, <2>3 DEF Packed, Solid
<1> QED
  BY <1>5, <1>6, <1>9

Hex == DIGITS \union 65..70 \union 97..102

\* What the editor of bytes takes and the check passes is whole pairs.
LEMMA EvenPairs ==
    ASSUME NEW w \in Seq(Nat), IsPairs(w), AllIn(w, Hex)
    PROVE  /\ \A i \in DOMAIN w : w[i] # BLANK
           /\ \E m \in Nat : m # 0 /\ Len(w) = 2 * m
<1>1. Len(w) \in Nat /\ DOMAIN w = 1 .. Len(w)
  OBVIOUS
<1>2. \A i \in DOMAIN w : w[i] # BLANK
  <2>1. BLANK \notin Hex
    BY DEF Hex, DIGITS, BLANK
  <2> QED
    BY <2>1 DEF AllIn
<1>3. Cardinality({j \in 1 .. Len(w) : w[j] # BLANK}) % 2 = 0 /\ w # <<>>
  BY DEF IsPairs
<1>4. {j \in 1 .. Len(w) : w[j] # BLANK} = 1 .. Len(w)
  BY <1>1, <1>2
<1>5. Cardinality(1 .. Len(w)) = Len(w)
  <2>1. \A k \in Nat : Cardinality(1 .. k) = k
    <3> SUFFICES ASSUME NEW k \in Nat
                 PROVE  Cardinality(1 .. k) = k
      OBVIOUS
    <3> QED
      BY FS_Interval
  <2> QED
    BY <1>1, <2>1
<1>6. Len(w) % 2 = 0 /\ Len(w) # 0
  BY <1>3, <1>4, <1>5, EmptySeq
<1>7. Len(w) \div 2 \in Nat /\ Len(w) \div 2 # 0 /\ Len(w) = 2 * (Len(w) \div 2)
  <2>1. \A n \in Nat : n % 2 = 0 /\ n # 0 =>
            n \div 2 \in Nat /\ n \div 2 # 0 /\ n = 2 * (n \div 2)
    OBVIOUS
  <2> QED
    BY <1>1, <1>6, <2>1, Zenon
<1> QED
  BY <1>2, <1>7

\* A time of which nothing is left out.
IsMoment(t) == t.day \in Days \ {NODAY} /\ t.sec \in {SECONDS, ZEROS} /\ t.ms \in 0 .. 3

\* The parts of a time are told apart.
LEMMA PartsDiffer ==
    /\ Days \subseteq 101 .. 104 /\ SECONDS = 105 /\ ZEROS = 106 /\ ZULU = 107
    /\ WEST = 108 /\ EAST = 109 /\ BLANK = 32
    /\ \A ms \in 0 .. 3 : /\ Fraction(3, ms) \in Fractions /\ Fraction(3, ms) \in 230 .. 233
                          /\ Length(Fraction(3, ms)) = 3 /\ Kept(Fraction(3, ms)) = ms
    /\ \A f \in Fractions : f \in 210 .. 269 /\ Kept(f) \in 0 .. 3
<1>1. /\ Days \subseteq 101 .. 104 /\ SECONDS = 105 /\ ZEROS = 106 /\ ZULU = 107
      /\ WEST = 108 /\ EAST = 109 /\ BLANK = 32
  BY DEF Days, DAY, NODAY, NOW, MILLENNIUM, SECONDS, ZEROS, ZULU, WEST, EAST, BLANK
<1>2. ASSUME NEW ms \in 0 .. 3
      PROVE  /\ Fraction(3, ms) \in Fractions /\ Fraction(3, ms) \in 230 .. 233
             /\ Length(Fraction(3, ms)) = 3 /\ Kept(Fraction(3, ms)) = ms
  <2> DEFINE f == 230 + ms
  <2>1. Fraction(3, ms) = f
    BY DEF Fraction
  <2>2. f \in 230 .. 233 /\ f \in 210 .. 269 /\ (f % 10) = ms /\ (f - 200) \div 10 = 3
    OBVIOUS
  <2> HIDE DEF f
  <2>3. Length(f) = 3 /\ Kept(f) = ms
    BY <2>2 DEF Length, Kept
  <2>4. f \in Fractions
    BY <2>2, <2>3 DEF Fractions
  <2> QED
    BY <2>1, <2>2, <2>3, <2>4
<1>3. ASSUME NEW f \in Fractions
      PROVE  f \in 210 .. 269 /\ Kept(f) \in 0 .. 3
  <2>1. f \in 210 .. 269
    BY DEF Fractions
  <2>2. (f % 10) \in 0 .. 9
    BY <2>1
  <2> QED
    BY <2>1, <2>2 DEF Kept
<1> QED
  BY <1>1, <1>2, <1>3

\* How the text of a moment reads.
LEMMA MomentRead ==
    ASSUME NEW t, IsMoment(t),
           t = Wall(t.day, t.sec, t.ms),
           NEW z \in BOOLEAN, NEW w,
           w = IF z THEN <<t.day, t.sec, Fraction(3, t.ms), ZULU>>
                    ELSE <<t.day, t.sec, Fraction(3, t.ms)>>
    PROVE  /\ w \in Seq(Nat) /\ w # <<>> /\ IsTrimmed(w) /\ Trim(w) = w
           /\ Readable(w)
           /\ Parsed(w) = [format |-> IF z THEN "Utc" ELSE "Local", dateTime |-> t]
<1> DEFINE f == Fraction(3, t.ms)
<1>1. /\ t.day \in 101 .. 104 /\ t.day \in Days /\ t.day # NODAY
      /\ t.sec \in {SECONDS, ZEROS} /\ t.sec \in 105 .. 106
      /\ f \in Fractions /\ f \in 230 .. 233 /\ Length(f) = 3 /\ Kept(f) = t.ms
  <2>1. t.day \in Days /\ t.day # NODAY /\ t.sec \in {SECONDS, ZEROS} /\ t.ms \in 0 .. 3
    BY DEF IsMoment
  <2>2. f \in Fractions /\ f \in 230 .. 233 /\ Length(f) = 3 /\ Kept(f) = t.ms
    <3>1. \A ms \in 0 .. 3 :
              /\ Fraction(3, ms) \in Fractions /\ Fraction(3, ms) \in 230 .. 233
              /\ Length(Fraction(3, ms)) = 3 /\ Kept(Fraction(3, ms)) = ms
      BY PartsDiffer
    <3> QED
      BY <2>1, <3>1
  <2>3. t.day \in 101 .. 104 /\ t.sec \in 105 .. 106
    <3>1. Days \subseteq 101 .. 104 /\ SECONDS = 105 /\ ZEROS = 106
      BY PartsDiffer
    <3>2. t.day \in 101 .. 104
      BY <2>1, <3>1, Zenon
    <3>3. t.sec = 105 \/ t.sec = 106
      BY <2>1, <3>1
    <3>4. 105 \in 105 .. 106 /\ 106 \in 105 .. 106
      OBVIOUS
    <3> QED
      BY <3>2, <3>3, <3>4, Zenon
  <2> HIDE DEF f
  <2> QED
    BY <2>1, <2>2, <2>3
<1> HIDE DEF f
<1>2. w = IF z THEN <<t.day, t.sec, f, ZULU>> ELSE <<t.day, t.sec, f>>
  BY DEF f
<1>3. /\ w \in Seq(Nat) /\ w # <<>> /\ Len(w) = (IF z THEN 4 ELSE 3) /\ DOMAIN w = 1 .. Len(w)
      /\ w[1] = t.day /\ w[2] = t.sec /\ w[3] = f /\ (z => w[4] = ZULU)
  <2>1. t.day \in Nat /\ t.sec \in Nat /\ f \in Nat /\ ZULU \in Nat
    BY <1>1, PartsDiffer
  <2>2. CASE z
    <3>1. w = <<t.day, t.sec, f, ZULU>>
      BY <1>2, <2>2
    <3> QED
      BY <2>1, <2>2, <3>1
  <2>3. CASE ~z
    <3>1. w = <<t.day, t.sec, f>>
      BY <1>2, <2>3
    <3> QED
      BY <2>1, <2>3, <3>1
  <2> QED
    BY <2>2, <2>3
<1>4. IsTrimmed(w) /\ Trim(w) = w
  <2>1. w[1] # BLANK /\ w[Len(w)] # BLANK
    BY <1>1, <1>3, PartsDiffer
  <2>2. IsTrimmed(w)
    BY <2>1 DEF IsTrimmed
  <2> QED
    BY <1>3, <2>2, TrimTrims
<1>5. Timed(w) /\ Dated(w)
  BY <1>1, <1>3 DEF Timed, Dated
<1>6. Format(w) = IF z THEN "Utc" ELSE "Local"
  <2>1. ~IsZoned(w, WEST, {3, 6}) /\ ~IsZoned(w, EAST, {3, 6})
    BY <1>3, PartsDiffer DEF IsZoned
  <2>2. CASE z
    <3>1. IsZoned(w, ZULU, 1 .. 6)
      BY <1>1, <1>3, <1>5, <2>2 DEF IsZoned
    <3>2. IsUtc(w)
      BY <3>1 DEF IsUtc
    <3>3. ~IsLocal(w)
      <4>1. SubSeq(w, 3, 4) # <<>> /\ Len(SubSeq(w, 3, 4)) = 2
        BY <1>3, <2>2
      <4> QED
        BY <1>3, <1>5, <2>2, <4>1 DEF IsLocal
    <3> QED
      BY <1>3, <2>1, <2>2, <3>2, <3>3 DEF Format
  <2>3. CASE ~z
    <3>1. ~IsUtc(w)
      BY <1>1, <1>3, <2>3, PartsDiffer DEF IsUtc, IsZoned
    <3>2. SubSeq(w, 3, Len(w)) = <<f>>
      <4>1. w \in Seq(Nat) /\ Len(w) = 3 /\ w[3] = f
        BY <1>3, <2>3
      <4>2. SubSeq(w, 3, 3) = <<w[3]>>
        <5> DEFINE rest == SubSeq(w, 3, 3)
        <5>1. rest \in Seq(Nat) /\ Len(rest) = 1 /\ rest[1] = w[3]
          BY <4>1
        <5>2. <<w[3]>> \in Seq(Nat) /\ Len(<<w[3]>>) = 1 /\ <<w[3]>>[1] = w[3]
          BY <4>1
        <5> HIDE DEF rest
        <5>3. \A i \in 1 .. Len(rest) : rest[i] = <<w[3]>>[i]
          BY <5>1, <5>2
        <5>4. rest = <<w[3]>>
          BY <5>1, <5>2, <5>3, SeqEqual
        <5> QED
          BY <5>4 DEF rest
      <4> QED
        BY <4>1, <4>2
    <3>3. IsLocal(w)
      <4>1. Len(<<f>>) = 1 /\ <<f>>[1] = f
        OBVIOUS
      <4> QED
        BY <1>1, <1>5, <3>2, <4>1 DEF IsLocal
    <3> QED
      BY <1>3, <2>1, <2>3, <3>1, <3>3 DEF Format
  <2> QED
    BY <2>2, <2>3
<1>7. FractionOf(w) = f
  <2> DEFINE places == {i \in DOMAIN w : w[i] \in Fractions}
  <2>1. 3 \in places /\ \A i \in places : i = 3
    <3>1. \A i \in 1 .. Len(w) : i = 1 \/ i = 2 \/ i = 3 \/ (z /\ i = 4)
      BY <1>3
    <3>2. w[1] \notin Fractions /\ w[2] \notin Fractions /\ (z => w[4] \notin Fractions)
      BY <1>1, <1>3, PartsDiffer
    <3> QED
      BY <1>1, <1>3, <3>1, <3>2
  <2>2. places = {3}
    BY <2>1
  <2>3. Min({3}) = 3
    BY DEF Min
  <2> QED
    BY <1>3, <2>2, <2>3 DEF FractionOf
<1>8. Readable(w)
  BY <1>1, <1>3, <1>6, <1>7 DEF Readable
<1>9. Parsed(w) = [format |-> Format(w), dateTime |-> Wall(w[1], SecondsOf(w), Kept(FractionOf(w)))]
  BY <1>3, <1>8 DEF Parsed
<1>10. SecondsOf(w) = t.sec
  BY <1>3, <1>5 DEF SecondsOf
<1> QED
  BY <1>1, <1>3, <1>4, <1>6, <1>7, <1>8, <1>9, <1>10

ZoneFormats == {"Utc", "West", "East", "Local"}

\* A text with a format is empty or begins with a day.
LEMMA FormatIsKnown ==
    ASSUME NEW w
    PROVE  /\ Format(w) \in ZoneFormats \union {"Unknown"}
           /\ w # <<>> /\ Format(w) # "Unknown" => Dated(w)
<1>1. Format(w) \in ZoneFormats \union {"Unknown"}
  BY DEF Format, ZoneFormats
<1>2. ASSUME w # <<>>, ~Dated(w)
      PROVE  Format(w) = "Unknown"
  <2>1. ~Timed(w) /\ ~IsLocal(w)
    BY <1>2 DEF Timed, IsLocal
  <2>2. ~IsZoned(w, WEST, {3, 6}) /\ ~IsZoned(w, EAST, {3, 6}) /\ ~IsUtc(w)
    BY <2>1 DEF IsZoned, IsUtc
  <2> QED
    BY <1>2, <2>1, <2>2 DEF Format
<1> QED
  BY <1>1, <1>2

\* The editor of a time always shows a moment.
LEMMA ParsedIsMoment ==
    ASSUME NEW w \in Seq(Nat)
    PROVE  LET t == Parsed(w).dateTime
           IN  /\ IsMoment(t) /\ t = Wall(t.day, t.sec, t.ms)
               /\ Parsed(w).format = Format(w)
<1>1. \A d \in Days \ {NODAY}, s \in {SECONDS, ZEROS}, ms \in 0 .. 3 :
          IsMoment(Wall(d, s, ms))
          /\ Wall(d, s, ms) = Wall(Wall(d, s, ms).day, Wall(d, s, ms).sec, Wall(d, s, ms).ms)
  BY DEF IsMoment, Wall
<1>2. /\ {NOW, MILLENNIUM} \subseteq Days \ {NODAY}
      /\ \A f \in Fractions : Kept(f) \in 0 .. 3
  <2>1. {NOW, MILLENNIUM} \subseteq Days \ {NODAY}
    BY DEF Days, DAY, NODAY, NOW, MILLENNIUM
  <2> QED
    BY <2>1, PartsDiffer
<1>3. CASE w = <<>>
  <2>1. Parsed(w) = [format |-> "Utc", dateTime |-> Wall(NOW, SECONDS, 3)]
    BY <1>3 DEF Parsed
  <2>2. Format(w) = "Utc"
    <3>1. ~Dated(w) /\ ~Timed(w)
      BY <1>3 DEF Dated, Timed
    <3>2. ~IsZoned(w, WEST, {3, 6}) /\ ~IsZoned(w, EAST, {3, 6}) /\ ~IsLocal(w)
      BY <3>1 DEF IsZoned, IsLocal
    <3> QED
      BY <1>3, <3>2 DEF Format
  <2> QED
    BY <1>1, <1>2, <2>1, <2>2
<1>4. CASE w # <<>> /\ Readable(w)
  <2> DEFINE k == Kept(FractionOf(w))
  <2>1. Parsed(w) = [format |-> Format(w), dateTime |-> Wall(w[1], SecondsOf(w), k)]
    BY <1>4 DEF Parsed
  <2>2. w[1] \in Days \ {NODAY} /\ FractionOf(w) # 0
    BY <1>4, FormatIsKnown DEF Readable, Dated
  <2>3. SecondsOf(w) \in {SECONDS, ZEROS}
    BY DEF SecondsOf, Timed
  <2>4. FractionOf(w) \in Fractions
    <3> DEFINE places == {i \in DOMAIN w : w[i] \in Fractions}
    <3>1. places # {} /\ FractionOf(w) = w[Min(places)]
      BY <2>2 DEF FractionOf
    <3>2. places \in SUBSET Nat
      BY LenProperties
    <3>3. Min(places) \in places
      <4> HIDE DEF places
      <4>1. \E x \in places : \A y \in places : x <= y
        BY <3>1, <3>2, LeastOf
      <4> QED
        BY <4>1 DEF Min
    <3> QED
      BY <3>1, <3>3
  <2>5. k \in 0 .. 3
    BY <1>2, <2>4
  <2> HIDE DEF k
  <2> QED
    BY <1>1, <2>1, <2>2, <2>3, <2>5
<1>5. CASE w # <<>> /\ ~Readable(w)
  <2>1. Parsed(w) = [format |-> Format(w), dateTime |-> Wall(MILLENNIUM, ZEROS, 0)]
    BY <1>5 DEF Parsed, NoTime
  <2> QED
    BY <1>1, <1>2, <2>1
<1> QED
  BY <1>3, <1>4, <1>5

\* The text the editor gives is one it shows the same again.
LEMMA MadeIsRead ==
    ASSUME NEW t, IsMoment(t), t = Wall(t.day, t.sec, t.ms),
           NEW format \in ZoneFormats \union {"Unknown"}
    PROVE  LET c == MakeDateTime(format, t)
           IN  /\ c \in Seq(Nat) /\ Trim(c) = c
               /\ format = "Unknown" => c = <<>>
               /\ format # "Unknown" =>
                     /\ c # <<>>
                     /\ Parsed(c) = [format |-> IF format = "Utc" THEN "Utc" ELSE "Local",
                                     dateTime |-> t]
                     /\ MakeDateTime(Parsed(c).format, Parsed(c).dateTime) = c
<1> DEFINE c == MakeDateTime(format, t)
           z == format = "Utc"
           f == Fraction(3, t.ms)
<1>1. CASE format = "Unknown"
  <2>1. c = <<>>
    BY <1>1 DEF MakeDateTime
  <2>2. <<>> \in Seq(Nat) /\ IsTrimmed(<<>>)
    BY DEF IsTrimmed
  <2>3. Trim(<<>>) = <<>>
    BY <2>2, TrimTrims
  <2> QED
    BY <1>1, <2>1, <2>2, <2>3
<1>2. CASE format # "Unknown"
  <2>1. t.day \in Nat /\ t.sec \in Nat /\ f \in Nat
    <3>1. /\ Days \subseteq 101 .. 104 /\ SECONDS = 105 /\ ZEROS = 106
          /\ \A ms \in 0 .. 3 : Fraction(3, ms) \in 230 .. 233
      BY PartsDiffer
    <3>2. /\ \A x \in 101 .. 104 : x \in Nat
          /\ \A x \in 230 .. 233 : x \in Nat
          /\ 105 \in Nat /\ 106 \in Nat
      OBVIOUS
    <3>3. t.day \in Days /\ t.sec \in {SECONDS, ZEROS} /\ t.ms \in 0 .. 3
      BY DEF IsMoment
    <3>4. t.day \in Nat
      <4>1. \A x \in Days : x \in Nat
        <5>1. Days \subseteq 101 .. 104
          BY <3>1
        <5> QED
          BY <3>2, <5>1
      <4>2. t.day \in Days
        BY <3>3
      <4> QED
        BY <4>1, <4>2, Zenon
    <3>6. f \in Nat
      <4>1. Fraction(3, t.ms) \in 230 .. 233
        BY <3>1, <3>3
      <4> QED
        BY <3>2, <4>1 DEF f
    <3>5. t.sec \in Nat
      BY <3>1, <3>2, <3>3
    <3> QED
      BY <3>4, <3>5, <3>6
  <2> HIDE DEF f
  <2>2. c = IF z THEN <<t.day, t.sec, f, ZULU>> ELSE <<t.day, t.sec, f>>
    <3>1. CASE z
      <4>1. c = Append(<<t.day, t.sec, f>>, ZULU)
        BY <3>1 DEF MakeDateTime, f
      <4> QED
        BY <2>1, <3>1, <4>1
    <3>2. CASE ~z
      <4>1. format \in {"West", "East", "Local"}
        BY <1>2, <3>2 DEF ZoneFormats
      <4> QED
        BY <3>2, <4>1 DEF MakeDateTime, f
    <3> QED
      BY <3>1, <3>2
  <2>3. z \in BOOLEAN
    OBVIOUS
  <2> HIDE DEF c, z
  <2>4. /\ c \in Seq(Nat) /\ c # <<>> /\ Trim(c) = c
        /\ Parsed(c) = [format |-> IF z THEN "Utc" ELSE "Local", dateTime |-> t]
    BY <2>2, <2>3, MomentRead DEF f
  <2>5. MakeDateTime(Parsed(c).format, Parsed(c).dateTime) = c
    <3>1. CASE z
      <4>1. Parsed(c).format = "Utc" /\ Parsed(c).dateTime = t /\ format = "Utc"
        BY <2>4, <3>1 DEF z
      <4> QED
        BY <4>1 DEF c
    <3>2. CASE ~z
      <4>1. Parsed(c).format = "Local" /\ Parsed(c).dateTime = t
        BY <2>4, <3>2
      <4>2. MakeDateTime("Local", t) = <<t.day, t.sec, f>>
        BY DEF MakeDateTime, f
      <4> QED
        BY <2>2, <3>2, <4>1, <4>2
    <3> QED
      BY <3>1, <3>2
  <2> QED
    BY <1>2, <2>4, <2>5 DEF c, z
<1> QED
  BY <1>1, <1>2

\* Any value of any type, whatever the row may do.
LEMMA UntouchedHolds ==
    ASSUME NEW type, NEW w \in Seq(Nat)
    PROVE  UntouchedIsKept(type, w)
<1> SUFFICES ASSUME NEW state \in States
             PROVE  LET row == NewRow(type, w, state, FALSE)
                        left == Commit(row, ReadEditor(row))
                        before == Parsed(Trim(w))
                        after == Parsed(EditRole(left))
                    IN  /\ ~IsTime(type) \/ state = "ReadOnly" => left = row
                        /\ IsTime(type) /\ state # "ReadOnly" /\ Readable(Trim(w)) =>
                              /\ after.dateTime = before.dateTime
                              /\ before.format \in {"Utc", "Local"} => after.format = before.format
                        /\ IsTime(type) /\ Format(Trim(w)) # "Unknown" =>
                              Commit(left, ReadEditor(left)) = left
  BY DEF UntouchedIsKept
<1> DEFINE row == NewRow(type, w, state, FALSE)
           left == Commit(row, ReadEditor(row))
<1>1. row.type = type /\ row.value = w /\ row.editState = state
  BY DEF NewRow
<1> HIDE DEF row
<1>2. CASE state = "ReadOnly"
  <2>1. \A content : Commit(row, content) = row
    BY <1>1, <1>2 DEF Commit, IsEditable
  <2>2. left = row
    BY <2>1
  <2>3. Commit(left, ReadEditor(left)) = left
    BY <2>1, <2>2
  <2> HIDE DEF left
  <2> QED
    BY <1>2, <2>2, <2>3 DEF row, left
<1>3. CASE ~IsTime(type)
  <2>1. ReadEditor(row) = EditRole(row)
    BY <1>1, <1>3 DEF ReadEditor, IsTime
  <2>2. left = row
    BY <2>1 DEF Commit, SetData
  <2> QED
    BY <1>3, <2>2 DEF row
<1>4. CASE IsTime(type) /\ state # "ReadOnly"
  <2> DEFINE v == Trim(w)
             p == Parsed(v)
             c == MakeDateTime(p.format, p.dateTime)
  <2>1. v \in Seq(Nat)
    BY TrimTrims
  <2> HIDE DEF v
  <2>2. /\ IsMoment(p.dateTime)
        /\ p.dateTime = Wall(p.dateTime.day, p.dateTime.sec, p.dateTime.ms)
        /\ p.format = Format(v) /\ Format(v) \in ZoneFormats \union {"Unknown"}
    BY <2>1, ParsedIsMoment, FormatIsKnown
  <2> HIDE DEF p
  <2>3. /\ c \in Seq(Nat) /\ Trim(c) = c
        /\ p.format # "Unknown" =>
              /\ Parsed(c) = [format |-> IF p.format = "Utc" THEN "Utc" ELSE "Local",
                              dateTime |-> p.dateTime]
              /\ MakeDateTime(Parsed(c).format, Parsed(c).dateTime) = c
    BY <2>2, MadeIsRead
  <2> HIDE DEF c
  <2>4. EditRole(row) = v
    BY <1>1, <1>4 DEF EditRole, DisplayRole, IsTime, v
  <2>5. ReadEditor(row) = c
    BY <1>1, <1>4, <2>4 DEF ReadEditor, IsTime, c, p
  <2>6. /\ Check(row.type, WithValue(row, AsText(row.type, c)).value)
        /\ Stored(row.type, c) = c
    BY <1>1, <1>4 DEF Check, Stored, IsTime
  <2>7. left = IF c = v THEN row ELSE WithValue(row, c)
    BY <1>1, <1>4, <2>4, <2>5, <2>6 DEF Commit, IsEditable, Acceptable, SetData, IsTime
  <2>8. EditRole(left) = c /\ left.type = type
    <3>1. CASE c = v
      BY <1>1, <2>4, <2>7, <3>1
    <3>2. CASE c # v
      <4>1. left.type = type /\ left.value = c
        <5>1. row = [type |-> type, value |-> w, editState |-> state, isMust |-> FALSE,
                     isIgnore |-> FALSE, modified |-> state = "ReadWrite"]
          BY DEF NewRow, row
        <5> HIDE DEF left
        <5> QED
          BY <1>4, <2>7, <3>2, <5>1 DEF WithValue
      <4> HIDE DEF left
      <4> QED
        BY <1>4, <2>3, <4>1 DEF EditRole, DisplayRole, IsTime
    <3> QED
      BY <3>1, <3>2
  <2> HIDE DEF left
  <2>9. Format(v) # "Unknown" => Commit(left, ReadEditor(left)) = left
    <3> SUFFICES ASSUME Format(v) # "Unknown"
                 PROVE  Commit(left, ReadEditor(left)) = left
      OBVIOUS
    <3>1. ReadEditor(left) = c
      BY <1>4, <2>2, <2>3, <2>8 DEF ReadEditor, IsTime
    <3> QED
      BY <2>8, <3>1 DEF Commit, SetData
  <2>10. Readable(v) => Format(v) # "Unknown"
    BY DEF Readable
  <2>11. ASSUME Readable(v)
         PROVE  /\ Parsed(c).dateTime = p.dateTime
                /\ p.format \in {"Utc", "Local"} => Parsed(c).format = p.format
    BY <2>2, <2>3, <2>10, <2>11
  <2> QED
    BY <1>4, <2>8, <2>9, <2>11 DEF p, v, left, row
<1> QED
  BY <1>2, <1>3, <1>4

\* What the check lets into a cell is what the editor shows of it.
LEMMA StoredIsShown ==
    ASSUME NEW type, NEW old \in Seq(Nat), NEW w \in Seq(Nat),
           NEW content \in Contents(type, old, w),
           NEW row, row.type = type, row.value = Stored(type, content),
           Acceptable(type, content), Check(type, AsText(type, content))
    PROVE  /\ Check(type, row.value)
           /\ IF type = "Binary" THEN Packed(EditRole(row)) = content
                                ELSE EditRole(row) = content
           /\ IsTime(type) /\ content # <<>> => ReadEditor(row) = content
<1>1. CASE type = "Boolean"
  <2>1. content \in BOOLEAN
    <3>1. Contents(type, old, w) = BOOLEAN
      BY <1>1 DEF Contents, IsTime
    <3> QED
      BY <3>1
  <2>2. Flag(content) \in Seq(Nat) /\ IsTrimmed(Flag(content))
    <3>1. TRUETEXT \in Seq(Nat) /\ FALSETEXT \in Seq(Nat)
      BY DEF TRUETEXT, FALSETEXT
    <3>2. IsTrimmed(TRUETEXT) /\ IsTrimmed(FALSETEXT)
      BY DEF TRUETEXT, FALSETEXT, IsTrimmed, BLANK
    <3> QED
      BY <3>1, <3>2 DEF Flag
  <2>3. Trim(Flag(content)) = Flag(content)
    BY <2>2, TrimTrims
  <2>4. IsFlagSet(Flag(content)) = content
    <3>1. TRUETEXT \notin {<<>>, <<48>>, FALSETEXT, <<102>>}
      BY DEF TRUETEXT, FALSETEXT
    <3>2. CASE content = TRUE
      BY <2>3, <3>1, <3>2 DEF IsFlagSet, Flag
    <3>3. CASE content = FALSE
      BY <2>3, <3>3 DEF IsFlagSet, Flag
    <3> QED
      BY <2>1, <3>2, <3>3
  <2>5. Stored(type, content) = Flag(content) /\ AsText(type, content) = Flag(content)
    BY <1>1 DEF Stored, AsText
  <2>6. EditRole(row) = IsFlagSet(row.value)
    BY <1>1 DEF EditRole, DisplayRole
  <2> QED
    BY <1>1, <2>4, <2>5, <2>6 DEF IsTime
<1>2. CASE type = "Integer"
  <2> DEFINE n == ToInt(w)
  <2>1. content = n
    <3>1. Contents(type, old, w) = {n}
      BY <1>2 DEF Contents, IsTime
    <3> QED
      BY <3>1
  <2>2. n \in Int /\ ToInt(Numeral(n)) = n
    BY IntegerKept
  <2> HIDE DEF n
  <2>3. Trim(Numeral(n)) = Numeral(n)
    BY <2>2, NumeralRead, TrimOfSolid
  <2>4. row.value = Numeral(n) /\ AsText(type, content) = Numeral(n)
    BY <1>2, <2>1 DEF Stored, AsText
  <2>5. EditRole(row) = n
    BY <1>2, <2>2, <2>3, <2>4 DEF EditRole, DisplayRole
  <2> QED
    BY <1>2, <2>1, <2>4, <2>5 DEF IsTime
<1>3. CASE type = "Binary"
  <2>1. content = Trim(w)
    BY <1>3 DEF Contents, IsTime
  <2>2. content \in Seq(Nat)
    BY <2>1, TrimTrims
  <2>3. IsPairs(content) /\ AllIn(content, Hex) /\ AsText(type, content) = content
    BY <1>3 DEF Acceptable, Check, AsText, Hex
  <2>4. /\ \A i \in DOMAIN content : content[i] # BLANK
        /\ \E m \in Nat : m # 0 /\ Len(content) = 2 * m
    BY <2>2, <2>3, EvenPairs
  <2>5. Packed(content) = content
    BY <2>2, <2>4, PackedOfSolid
  <2>6. /\ Spaced(content) \in Seq(Nat) /\ IsTrimmed(Spaced(content))
        /\ Packed(Spaced(content)) = content
    BY <2>2, <2>4, PackedOfSpaced
  <2>7. row.value = content
    BY <1>3, <2>5 DEF Stored
  <2>8. EditRole(row) = Spaced(content)
    <3>1. Trim(Spaced(content)) = Spaced(content)
      BY <2>6, TrimTrims
    <3> QED
      BY <1>3, <2>7, <3>1 DEF EditRole, DisplayRole
  <2> QED
    BY <1>3, <2>3, <2>6, <2>7, <2>8 DEF IsTime
<1>4. CASE IsTime(type)
  <2>1. PICK s \in {SECONDS, ZEROS}, ms \in 0 .. 3 :
            content = MakeDateTime(Format(Trim(old)), Wall(DAY, s, ms))
    BY <1>4 DEF Contents, IsTime
  <2> DEFINE t == Wall(DAY, s, ms)
  <2>2. IsMoment(t) /\ t = Wall(t.day, t.sec, t.ms)
    BY DEF IsMoment, Wall, Days, DAY, NODAY
  <2>3. Format(Trim(old)) \in ZoneFormats \union {"Unknown"}
    BY FormatIsKnown
  <2> HIDE DEF t
  <2>4. /\ Trim(content) = content
        /\ content # <<>> => MakeDateTime(Parsed(content).format, Parsed(content).dateTime) = content
    BY <2>1, <2>2, <2>3, MadeIsRead DEF t
  <2>5. row.value = content /\ Check(type, content)
    BY <1>4 DEF IsTime, Stored, Check
  <2>6. EditRole(row) = content
    BY <1>4, <2>4, <2>5 DEF IsTime, EditRole, DisplayRole
  <2>7. content # <<>> => ReadEditor(row) = content
    BY <1>4, <2>4, <2>6 DEF IsTime, ReadEditor
  <2> QED
    BY <1>4, <2>5, <2>6, <2>7 DEF IsTime
<1>5. CASE type \notin {"Boolean", "Integer", "Binary"} /\ ~IsTime(type)
  <2>1. content = Trim(w)
    BY <1>5 DEF Contents
  <2>2. Trim(content) = content
    BY <2>1, TrimOfTrim
  <2>3. row.value = content /\ AsText(type, content) = content
    BY <1>5 DEF Stored, AsText
  <2>4. EditRole(row) = content
    BY <1>5, <2>2, <2>3 DEF EditRole, DisplayRole
  <2> QED
    BY <1>5, <2>3, <2>4
<1> QED
  BY <1>1, <1>2, <1>3, <1>4, <1>5

\* Any text typed into a cell of any type with any value.
LEMMA TypedHolds ==
    ASSUME NEW type, NEW w \in Seq(Nat)
    PROVE  TypedIsStored(type, w)
<1>1. {<<>>, w, Reverse(w)} \subseteq Seq(Nat)
  <2>1. Reverse(w) \in Seq(Nat)
    <3> DEFINE n == Len(w)
    <3>1. n \in Nat /\ \A i \in 1 .. n : w[i] \in Nat /\ (n - i) + 1 \in 1 .. n
      OBVIOUS
    <3>2. Reverse(w) \in [1 .. n -> Nat]
      BY <3>1 DEF Reverse
    <3> HIDE DEF n
    <3> QED
      BY <3>1, <3>2, FunctionIsList, Zenon
  <2> QED
    BY <2>1, EmptySeq
<1> SUFFICES ASSUME NEW old \in Seq(Nat), NEW content \in Contents(type, old, w)
             PROVE  LET row == NewRow(type, old, "ValueReadWrite", TRUE)
                        left == Commit(row, content)
                    IN  \/ left = row
                        \/ /\ left.modified /\ ~row.modified
                           /\ Check(type, left.value)
                           /\ IF type = "Binary" THEN Packed(EditRole(left)) = content
                                                ELSE EditRole(left) = content
                           /\ IsTime(type) /\ content # <<>> => ReadEditor(left) = content
                           /\ SetIgnore(left, TRUE, TRUE).value = left.value
  BY <1>1 DEF TypedIsStored
<1> DEFINE row == NewRow(type, old, "ValueReadWrite", TRUE)
           left == Commit(row, content)
<1>2. row = [type |-> type, value |-> old, editState |-> "ValueReadWrite", isMust |-> TRUE,
             isIgnore |-> FALSE, modified |-> FALSE]
  BY DEF NewRow
<1> HIDE DEF row
<1>3. CASE left = row
  BY <1>3 DEF row
<1>4. CASE left # row
  <2>1. /\ Acceptable(type, content) /\ left = WithValue(row, Stored(type, content))
        /\ Check(type, WithValue(row, AsText(type, content)).value)
    <3>1. row.type = type
      BY <1>2
    <3> QED
      BY <1>4, <3>1 DEF Commit, SetData
  <2>2. ASSUME NEW v
        PROVE  WithValue(row, v) = [type |-> type, value |-> v, editState |-> "ValueReadWrite",
                                    isMust |-> TRUE, isIgnore |-> FALSE, modified |-> TRUE]
    BY <1>2 DEF WithValue
  <2>3. left = [type |-> type, value |-> Stored(type, content),
                editState |-> "ValueReadWrite", isMust |-> TRUE,
                isIgnore |-> FALSE, modified |-> TRUE]
    <3> HIDE DEF left
    <3> QED
      BY <2>1, <2>2
  <2>4. Check(type, AsText(type, content))
    <3>1. WithValue(row, AsText(type, content)).value = AsText(type, content)
      BY <2>2
    <3> QED
      BY <2>1, <3>1
  <2> HIDE DEF left
  <2>5. left.type = type /\ left.value = Stored(type, content) /\ left.modified
    BY <2>3
  <2>6. ~row.modified
    BY <1>2
  <2>7. SetIgnore(left, TRUE, TRUE).value = left.value
    BY <2>3 DEF SetIgnore
  <2>8. /\ Check(type, left.value)
        /\ IF type = "Binary" THEN Packed(EditRole(left)) = content
                             ELSE EditRole(left) = content
        /\ IsTime(type) /\ content # <<>> => ReadEditor(left) = content
    BY <2>1, <2>4, <2>5, StoredIsShown
  <2> QED
    BY <2>5, <2>6, <2>7, <2>8 DEF left, row
<1> QED
  BY <1>3, <1>4

\* What is typed are signs.
TypedInv == form \in DOMAIN Forms /\ typed \in Seq(Nat)

LEMMA TypingKeepsSigns == TypingSpec => [](word \in Seq(Nat))
<1>1. TypingInit => TypedInv
  BY EmptySeq DEF TypingInit, TypedInv
<1>2. TypedInv /\ [TypingNext]_typingVars => TypedInv'
  <2> SUFFICES ASSUME TypedInv, [TypingNext]_typingVars
               PROVE  TypedInv'
    OBVIOUS
  <2>1. ASSUME NEW c \in Forms[form].letters, Insert(c)
        PROVE  TypedInv'
    <3>1. c \in Nat
      BY FormsAssumption DEF TypedInv
    <3> QED
      BY <2>1, <3>1, AppendProperties DEF TypedInv, Insert
  <2>2. CASE Erase
    <3>1. SubSeq(typed, 1, Len(typed) - 1) \in Seq(Nat)
      BY DEF TypedInv
    <3> QED
      BY <2>2, <3>1 DEF TypedInv, Erase
  <2>3. CASE UNCHANGED typingVars
    BY <2>3 DEF TypedInv, typingVars
  <2> QED
    BY <2>1, <2>2, <2>3 DEF TypingNext
<1>3. TypedInv => word \in Seq(Nat)
  <2> SUFFICES ASSUME TypedInv
               PROVE  word \in Seq(Nat)
    OBVIOUS
  <2>1. Forms[form].head \in Seq(Nat) /\ Forms[form].tail \in Seq(Nat) /\ typed \in Seq(Nat)
    BY FormsAssumption DEF TypedInv
  <2>2. \A p, q \in Seq(Nat) : p \o q \in Seq(Nat)
    OBVIOUS
  <2> QED
    BY <2>1, <2>2, Zenon DEF word
<1> QED
  BY <1>1, <1>2, <1>3, PTL DEF TypingSpec

(***************************************************************************)
(* CellsUntouched, for every text of every type of cell: opening an editor *)
(* and leaving it keeps the value (setData and the delegate's conversions). *)
(***************************************************************************)
THEOREM EveryCellUntouched == TypingSpec => []CellsUntouched
<1>1. word \in Seq(Nat) => CellsUntouched
  BY UntouchedHolds DEF CellsUntouched
<1> QED
  BY <1>1, TypingKeepsSigns, PTL

(***************************************************************************)
(* CellsTyped, for every text, old value and type of cell: what is typed   *)
(* is refused, or is stored and is what the cell shows (setEditRoleData).  *)
(***************************************************************************)
THEOREM EveryCellTyped == TypingSpec => []CellsTyped
<1>1. word \in Seq(Nat) => CellsTyped
  BY TypedHolds DEF CellsTyped
<1> QED
  BY <1>1, TypingKeepsSigns, PTL

-----------------------------------------------------------------------------
(* Words of bytes.                                                         *)

Word == Seq(Byte)

LEMMA MarksAreBytes ==
    /\ {PERCENT, COMMAS, MINUS, SLASH, COLON, QUESTION, OPEN, CLOSE} \subseteq Byte
    /\ Byte \subseteq Nat /\ Schemes \subseteq Byte
BY DEF Byte, PERCENT, COMMAS, MINUS, SLASH, COLON, QUESTION, OPEN, CLOSE, Schemes

\* Where a byte is found, ...
LEMMA FindFinds ==
    ASSUME NEW w \in Word, NEW c, NEW from \in Nat
    PROVE  /\ Find(w, c, from) \in 1 .. Len(w) + 1
           /\ Find(w, c, from) <= Len(w) =>
                 Find(w, c, from) >= from /\ w[Find(w, c, from)] = c
<1> DEFINE found == {i \in DOMAIN w : i >= from /\ w[i] = c}
<1>1. Len(w) \in Nat /\ DOMAIN w = 1 .. Len(w)
  BY DEF Word
<1>2. CASE found = {}
  BY <1>1, <1>2 DEF Find
<1>3. CASE found # {}
  <2>1. \E k \in found : \A j \in found : k <= j
    <3>1. found \in SUBSET Nat
      BY <1>1
    <3> HIDE DEF found
    <3> QED
      BY <1>3, <3>1, LeastOf
  <2>2. Min(found) \in found
    BY <2>1 DEF Min
  <2> QED
    BY <1>1, <1>3, <2>2 DEF Find
<1> QED
  BY <1>2, <1>3

\* ... and that it is found at the first place it has.
LEMMA FindIs ==
    ASSUME NEW w \in Word, NEW c, NEW from \in Nat \ {0}, NEW k \in from .. Len(w) + 1,
           \A j \in from .. k - 1 : w[j] # c,
           k <= Len(w) => w[k] = c
    PROVE  Find(w, c, from) = k
<1> DEFINE found == {i \in DOMAIN w : i >= from /\ w[i] = c}
<1>1. Len(w) \in Nat /\ DOMAIN w = 1 .. Len(w)
  BY DEF Word
<1>2. \A i \in found : i >= k /\ i <= Len(w)
  <2> SUFFICES ASSUME NEW i \in found
               PROVE  i >= k /\ i <= Len(w)
    OBVIOUS
  <2>1. i \in 1 .. Len(w) /\ i >= from /\ w[i] = c
    BY <1>1
  <2>2. ~(i \in from .. k - 1)
    BY <2>1
  <2> QED
    BY <1>1, <2>1, <2>2
<1>3. CASE k > Len(w)
  <2>1. found = {} /\ k = Len(w) + 1
    BY <1>1, <1>2, <1>3
  <2> QED
    BY <2>1 DEF Find
<1>4. CASE k <= Len(w)
  <2>1. k \in found
    BY <1>1, <1>4
  <2>2. \A x \in found : (\A y \in found : x <= y) => x = k
    BY <1>1, <1>2, <2>1
  <2>3. Min(found) = k
    BY <1>2, <2>1, <2>2 DEF Min
  <2> QED
    BY <2>1, <2>3 DEF Find
<1> QED
  BY <1>1, <1>3, <1>4

\* What a word contains.
LEMMA ContainsPlace ==
    ASSUME NEW w \in Word, NEW c
    PROVE  Contains(w, c) <=> \E i \in 1 .. Len(w) : w[i] = c
BY DEF Contains

LEMMA ContainsOfNone ==
    ASSUME NEW c
    PROVE  ~Contains(<<>>, c)
BY DEF Contains

LEMMA ContainsOfOne ==
    ASSUME NEW c, NEW x
    PROVE  Contains(<<x>>, c) <=> x = c
BY DEF Contains

LEMMA ContainsOfConcat ==
    ASSUME NEW v \in Word, NEW w \in Word, NEW c
    PROVE  Contains(v \o w, c) <=> Contains(v, c) \/ Contains(w, c)
<1>1. /\ Len(v) \in Nat /\ Len(w) \in Nat /\ Len(v \o w) = Len(v) + Len(w)
      /\ \A i \in 1 .. Len(v) : (v \o w)[i] = v[i]
      /\ \A i \in 1 .. Len(w) : (v \o w)[Len(v) + i] = w[i]
  BY DEF Word
<1>2. \A i \in 1 .. Len(v) + Len(w) : i \in 1 .. Len(v) \/ i - Len(v) \in 1 .. Len(w)
  BY <1>1
<1>3. \A i \in 1 .. Len(v) + Len(w) :
          i - Len(v) \in 1 .. Len(w) => (v \o w)[i] = w[i - Len(v)]
  BY <1>1
<1>4. ASSUME Contains(v \o w, c) PROVE Contains(v, c) \/ Contains(w, c)
  BY <1>1, <1>2, <1>3, <1>4 DEF Contains
<1>5. ASSUME Contains(v, c) PROVE Contains(v \o w, c)
  BY <1>1, <1>5 DEF Contains
<1>6. ASSUME Contains(w, c) PROVE Contains(v \o w, c)
  <2>1. PICK i \in 1 .. Len(w) : w[i] = c
    BY <1>6 DEF Contains
  <2>2. Len(v) + i \in 1 .. Len(v \o w)
    BY <1>1
  <2> QED
    BY <1>1, <2>1, <2>2 DEF Contains
<1> QED
  BY <1>4, <1>5, <1>6

LEMMA ContainsOfAppend ==
    ASSUME NEW w \in Word, NEW x \in Byte, NEW c
    PROVE  Contains(Append(w, x), c) <=> Contains(w, c) \/ x = c
<1>1. Append(w, x) = w \o <<x>> /\ <<x>> \in Word
  BY AppendIsConcat DEF Word
<1> QED
  BY <1>1, ContainsOfConcat, ContainsOfOne

LEMMA WordsJoin ==
    /\ <<>> \in Word /\ \A c \in Byte : <<c>> \in Word
    /\ \A v, w \in Word : v \o w \in Word
    /\ \A v \in Word, c \in Byte : Append(v, c) \in Word /\ Append(v, c) = v \o <<c>>
    /\ \A v \in Word : v \o <<>> = v /\ <<>> \o v = v
    /\ \A v, w, x \in Word : (v \o w) \o x = v \o (w \o x)
<1>1. <<>> \in Word /\ \A c \in Byte : <<c>> \in Word
  BY DEF Word
<1>2. \A v, w \in Word : v \o w \in Word
  BY DEF Word
<1>3. \A v \in Word, c \in Byte : Append(v, c) \in Word /\ Append(v, c) = v \o <<c>>
  BY AppendIsConcat, AppendProperties DEF Word
<1>4. \A v \in Word : v \o <<>> = v /\ <<>> \o v = v
  BY ConcatEmptySeq DEF Word
<1>5. \A v, w, x \in Word : (v \o w) \o x = v \o (w \o x)
  BY ConcatAssociative DEF Word
<1> QED
  BY <1>1, <1>2, <1>3, <1>4, <1>5, Zenon

LEMMA ConcatOfAppend ==
    ASSUME NEW v \in Word, NEW w \in Word, NEW c \in Byte
    PROVE  v \o Append(w, c) = Append(v \o w, c)
<1>1. <<c>> \in Word /\ v \o w \in Word
  BY WordsJoin, Zenon
<1>2. Append(w, c) = w \o <<c>> /\ Append(v \o w, c) = (v \o w) \o <<c>>
  BY <1>1, WordsJoin
<1>3. (v \o w) \o <<c>> = v \o (w \o <<c>>)
  BY <1>1, WordsJoin, Zenon
<1> QED
  BY <1>2, <1>3

LEMMA ConcatWithOne ==
    ASSUME NEW v \in Word, NEW w \in Word, NEW c \in Byte
    PROVE  /\ <<c>> \o w \in Word
           /\ v \o (<<c>> \o w) = Append(v, c) \o w
<1>1. <<c>> \in Word
  BY WordsJoin, Zenon
<1>2. Append(v, c) = v \o <<c>>
  BY WordsJoin, Zenon
<1>3. (v \o <<c>>) \o w = v \o (<<c>> \o w) /\ <<c>> \o w \in Word
  BY <1>1, WordsJoin, Zenon
<1> QED
  BY <1>2, <1>3

\* The places of a word made of two.
LEMMA ConcatPlaces ==
    ASSUME NEW v \in Word, NEW w \in Word
    PROVE  /\ Len(v) \in Nat /\ Len(w) \in Nat /\ v \o w \in Word
           /\ Len(v \o w) = Len(v) + Len(w)
           /\ \A i \in 1 .. Len(v) : (v \o w)[i] = v[i]
           /\ \A i \in 1 .. Len(w) : (v \o w)[Len(v) + i] = w[i]
BY DEF Word

LEMMA LengthsJoin ==
    /\ \A v, w \in Word : Len(v \o w) = Len(v) + Len(w)
    /\ \A v, w \in Word, i \in Nat : i \in 1 .. Len(w) => (v \o w)[Len(v) + i] = w[i]
    /\ \A v \in Word : Len(v) \in Nat
BY ConcatPlaces

LEMMA JoinsRegroup == \A v, w, x \in Word : (v \o w) \o x = v \o (w \o x)
BY WordsJoin

\* The part of a word that is the middle of three.
LEMMA PartOfConcat ==
    ASSUME NEW v \in Word, NEW w \in Word, NEW x \in Word
    PROVE  Part(v \o (w \o x), Len(v) + 1, (Len(v) + Len(w)) + 1) = w
<1> DEFINE all == v \o (w \o x)
           m == Len(v)
           n == Len(w)
           p == SubSeq(all, m + 1, m + n)
<1>1. /\ m \in Nat /\ n \in Nat /\ Len(x) \in Nat
      /\ w \o x \in Word /\ Len(w \o x) = n + Len(x)
      /\ \A i \in 1 .. n : (w \o x)[i] = w[i]
  BY ConcatPlaces
<1>2. /\ all \in Word /\ Len(all) = m + (n + Len(x))
      /\ \A i \in 1 .. n + Len(x) : all[m + i] = (w \o x)[i]
  <2> DEFINE y == w \o x
  <2>1. y \in Word /\ Len(y) = n + Len(x)
    BY <1>1
  <2> HIDE DEF y
  <2>2. /\ v \o y \in Word /\ Len(v \o y) = m + Len(y)
        /\ \A i \in 1 .. Len(y) : (v \o y)[m + i] = y[i]
    BY <2>1, ConcatPlaces
  <2> QED
    BY <2>1, <2>2 DEF y
<1> HIDE DEF all
<1>3. \A i \in 1 .. n : all[m + i] = w[i]
  <2>1. \A i \in 1 .. n : i \in 1 .. n + Len(x)
    BY <1>1
  <2> QED
    BY <1>1, <1>2, <2>1
<1>4. p \in Word /\ Len(p) = n /\ \A i \in 1 .. n : p[i] = all[m + i]
  BY <1>1, <1>2 DEF Word
<1>5. p = w
  <2>1. \A i \in 1 .. n : p[i] = w[i]
    BY <1>3, <1>4
  <2> HIDE DEF p
  <2> QED
    BY <1>4, <2>1, SeqEqual DEF Word
<1>6. ((m + n) + 1) - 1 = m + n
  BY <1>1
<1> QED
  BY <1>5, <1>6 DEF Part, all

\* A part is a word.
LEMMA PartType ==
    ASSUME NEW w \in Word, NEW from \in Nat \ {0}, NEW to \in 0 .. Len(w) + 1
    PROVE  Part(w, from, to) \in Word
<1>1. Len(w) \in Nat /\ \A i \in 1 .. Len(w) : w[i] \in Byte
  BY DEF Word
<1>2. \A i \in from .. to - 1 : w[i] \in Byte
  BY <1>1
<1>3. from \in Int /\ to - 1 \in Int
  BY <1>1
<1> QED
  BY <1>2, <1>3, SubSeqProperties DEF Part, Word

-----------------------------------------------------------------------------
(* Split.                                                                  *)

Pieces == Seq(Word) \ {<<>>}

Splitting(mark) ==
    [pieces \in Seq(Seq(Byte)) \ {<<>>} |-> [c \in Byte |->
        IF c = mark THEN Append(pieces, <<>>)
        ELSE [pieces EXCEPT ![Len(pieces)] = Append(@, c)]]]

LEMMA SplittingType ==
    ASSUME NEW mark \in Byte
    PROVE  Splitting(mark) \in [Pieces -> [Byte -> Pieces]] /\ << <<>> >> \in Pieces
<1>1. \A p \in Pieces : Append(p, <<>>) \in Pieces
  BY WordsJoin, AppendProperties DEF Pieces
<1>2. ASSUME NEW p \in Pieces, NEW c \in Byte
      PROVE  [p EXCEPT ![Len(p)] = Append(@, c)] \in Pieces
  <2>1. p \in Seq(Word) /\ Len(p) \in 1 .. Len(p) /\ p[Len(p)] \in Word
    <3>1. Len(p) \in Nat \ {0}
      BY EmptySeq DEF Pieces
    <3> QED
      BY <3>1, ElementOfSeq DEF Pieces
  <2>2. Append(p[Len(p)], c) \in Word
    BY <2>1, WordsJoin
  <2> DEFINE q == [p EXCEPT ![Len(p)] = Append(p[Len(p)], c)]
  <2>3. q \in Seq(Word) /\ Len(q) = Len(p)
    BY <2>1, <2>2, ExceptSeq
  <2>4. q # <<>>
    <3> HIDE DEF q
    <3> QED
      BY <2>1, <2>3
  <2> QED
    BY <2>3, <2>4 DEF Pieces
<1>3. << <<>> >> \in Pieces
  BY WordsJoin DEF Pieces
<1> QED
  BY <1>1, <1>2, <1>3 DEF Splitting, Pieces, Word

LEMMA SplitOfNone ==
    ASSUME NEW mark
    PROVE  Split(<<>>, mark) = << <<>> >>
BY LoopOfNone DEF Split

LEMMA SplitOfAppend ==
    ASSUME NEW w \in Word, NEW c \in Byte, NEW mark \in Byte
    PROVE  /\ Split(w, mark) \in Pieces
           /\ c = mark => Split(Append(w, c), mark) = Append(Split(w, mark), <<>>)
           /\ c # mark =>
                \A p \in Seq(Word), q \in Word : Split(w, mark) = Append(p, q) =>
                    Split(Append(w, c), mark) = Append(p, Append(q, c))
<1> DEFINE F == Splitting(mark)
           s == Split(w, mark)
<1>1. F \in [Pieces -> [Byte -> Pieces]] /\ << <<>> >> \in Pieces
  BY SplittingType
<1>2. /\ s = Loop(w, << <<>> >>, F)
      /\ Split(Append(w, c), mark) = Loop(Append(w, c), << <<>> >>, F)
  BY DEF Split, Splitting
<1> HIDE DEF F, s
<1>3. w \in Seq(Byte)
  BY DEF Word
<1>4. s \in Pieces
  BY <1>1, <1>2, <1>3, LoopType
<1>5. Loop(Append(w, c), << <<>> >>, F) = F[Loop(w, << <<>> >>, F)][c]
  <2> HIDE DEF Byte, Pieces
  <2> QED
    BY <1>1, <1>3, LoopOfAppend
<1>6. Split(Append(w, c), mark) = F[s][c]
  BY <1>2, <1>5
<1>7. F[s][c] = IF c = mark THEN Append(s, <<>>) ELSE [s EXCEPT ![Len(s)] = Append(s[Len(s)], c)]
  BY <1>4 DEF F, Splitting, Pieces, Word
<1>8. ASSUME NEW p \in Seq(Word), NEW q \in Word, s = Append(p, q), c # mark
      PROVE  Split(Append(w, c), mark) = Append(p, Append(q, c))
  <2> DEFINE r == Append(q, c)
             t == [s EXCEPT ![Len(s)] = r]
             u == Append(p, r)
  <2>1. /\ s \in Seq(Word) /\ Len(s) = Len(p) + 1 /\ s[Len(p) + 1] = q
        /\ Len(p) \in Nat /\ \A i \in 1 .. Len(p) : s[i] = p[i]
    BY <1>8, AppendProperties
  <2>2. r \in Word
    BY WordsJoin
  <2>3. Split(Append(w, c), mark) = t
    BY <1>6, <1>7, <1>8, <2>1
  <2> HIDE DEF r
  <2>4. /\ u \in Seq(Word) /\ Len(u) = Len(p) + 1 /\ u[Len(p) + 1] = r
        /\ \A i \in 1 .. Len(p) : u[i] = p[i]
    BY <2>2, AppendProperties
  <2>5. /\ t \in Seq(Word) /\ Len(t) = Len(s)
        /\ \A i \in 1 .. Len(s) : t[i] = IF i = Len(s) THEN r ELSE s[i]
    <3>1. Len(s) \in 1 .. Len(s)
      BY <2>1
    <3> QED
      BY <2>1, <2>2, <3>1, ExceptSeq
  <2> HIDE DEF t, u
  <2>6. \A i \in 1 .. Len(t) : t[i] = u[i]
    BY <2>1, <2>4, <2>5
  <2>7. t = u
    <3>1. Len(t) = Len(u)
      BY <2>1, <2>4, <2>5
    <3> QED
      BY <2>4, <2>5, <2>6, <3>1, SeqEqual
  <2> QED
    BY <2>3, <2>7 DEF u, r
<1> QED
  BY <1>4, <1>6, <1>7, <1>8 DEF s

\* A list ends with a last element after others.
Ends(list, others, last) == list = Append(others, last)

LEMMA SplitOfMore ==
    ASSUME NEW w \in Word, NEW c \in Byte, NEW mark \in Byte, c # mark,
           NEW p \in Seq(Word), NEW q \in Word, Ends(Split(w, mark), p, q)
    PROVE  Ends(Split(Append(w, c), mark), p, Append(q, c))
<1>1. \A r \in Seq(Word), t \in Word : Split(w, mark) = Append(r, t) =>
          Split(Append(w, c), mark) = Append(r, Append(t, c))
  BY SplitOfAppend
<1> QED
  BY <1>1, Zenon DEF Ends

\* What contains no mark is added to the last piece, ...
LEMMA SplitGoesOn ==
    ASSUME NEW w \in Word, NEW mark \in Byte, NEW p \in Seq(Word), NEW q \in Word,
           Ends(Split(w, mark), p, q),
           NEW x \in Word, ~Contains(x, mark)
    PROVE  Ends(Split(w \o x, mark), p, q \o x)
<1> DEFINE Good == {v \in Word : ~Contains(v, mark) =>
                        Ends(Split(w \o v, mark), p, q \o v)}
<1>1. <<>> \in Good
  BY WordsJoin
<1>2. ASSUME NEW v \in Good, NEW c \in Byte
      PROVE  Append(v, c) \in Good
  <2>1. Append(v, c) \in Word
    BY WordsJoin
  <2>2. ASSUME ~Contains(Append(v, c), mark)
        PROVE  Ends(Split(w \o Append(v, c), mark), p, q \o Append(v, c))
    <3>1. ~Contains(v, mark) /\ c # mark
      BY <2>2, ContainsOfAppend
    <3>2. Ends(Split(w \o v, mark), p, q \o v)
      BY <3>1
    <3>3. /\ w \o v \in Word /\ q \o v \in Word
          /\ w \o Append(v, c) = Append(w \o v, c)
          /\ q \o Append(v, c) = Append(q \o v, c)
      <4>1. w \o v \in Word /\ q \o v \in Word
        BY WordsJoin, Zenon
      <4>2. v \in Word
        OBVIOUS
      <4>3. w \o Append(v, c) = Append(w \o v, c)
        BY <4>2, ConcatOfAppend
      <4>4. q \o Append(v, c) = Append(q \o v, c)
        BY <4>2, ConcatOfAppend
      <4> QED
        BY <4>1, <4>3, <4>4
    <3>4. Ends(Split(Append(w \o v, c), mark), p, Append(q \o v, c))
      BY <3>1, <3>2, <3>3, SplitOfMore, Zenon
    <3> QED
      BY <3>3, <3>4, Zenon
  <2> QED
    BY <2>1, <2>2
<1>3. Good \in SUBSET Seq(Byte)
  BY DEF Word
<1> HIDE DEF Good
<1>4. Good = Seq(Byte)
  BY <1>1, <1>2, <1>3, ByAppending
<1> QED
  BY <1>4 DEF Good, Word

LEMMA SplitOfPlain ==
    ASSUME NEW x \in Word, NEW mark \in Byte, ~Contains(x, mark)
    PROVE  Split(x, mark) = <<x>>
<1>1. <<>> \in Seq(Word) /\ <<>> \in Word /\ <<>> \o x = x
  BY WordsJoin, EmptySeq
<1>2. Ends(Split(<<>>, mark), <<>>, <<>>)
  BY SplitOfNone DEF Ends
<1>3. Ends(Split(<<>> \o x, mark), <<>>, <<>> \o x)
  BY <1>1, <1>2, SplitGoesOn, Zenon
<1>4. Ends(Split(x, mark), <<>>, x)
  BY <1>1, <1>3, Zenon
<1> QED
  BY <1>4 DEF Ends

\* ... and a mark begins another.
LEMMA SplitAtMark ==
    ASSUME NEW w \in Word, NEW mark \in Byte, NEW x \in Word, ~Contains(x, mark)
    PROVE  Ends(Split(w \o (<<mark>> \o x), mark), Split(w, mark), x)
<1>1. Split(w, mark) \in Seq(Word) /\ Append(w, mark) \in Word
  BY SplitOfAppend, WordsJoin DEF Pieces
<1>2. Ends(Split(Append(w, mark), mark), Split(w, mark), <<>>)
  BY SplitOfAppend DEF Ends
<1>3. <<>> \in Word
  BY WordsJoin, Zenon
<1>4. Ends(Split(Append(w, mark) \o x, mark), Split(w, mark), <<>> \o x)
  BY <1>1, <1>2, <1>3, SplitGoesOn, Zenon
<1>5. Append(w, mark) \o x = w \o (<<mark>> \o x) /\ <<>> \o x = x
  BY ConcatWithOne, WordsJoin
<1> QED
  BY <1>4, <1>5, Zenon

-----------------------------------------------------------------------------
(* percentDecode and percentEncode.                                        *)

DecodeState == [text : Word, open : Word]

\* What the loop of Decode has after w.
Reads(w, text, open) ==
    Loop(w, [text |-> <<>>, open |-> <<>>], Decoding) = [text |-> text, open |-> open]

LEMMA HexValues ==
    ASSUME NEW c \in Byte, IsHex(c)
    PROVE  HexValue(c) \in 0 .. 15
<1>1. CASE c \in DIGITS
  <2>1. c \notin CAPITALS /\ c \in 48 .. 57
    BY <1>1 DEF CAPITALS, DIGITS
  <2>2. HexValue(c) = c - 48
    BY <1>1, <2>1 DEF HexValue
  <2> QED
    BY <2>1, <2>2
<1>2. CASE c \notin DIGITS
  <2>1. c \in 65 .. 70 \/ c \in 97 .. 102
    BY <1>2 DEF IsHex
  <2>2. CASE c \in 65 .. 70
    BY <1>2, <2>2 DEF HexValue, CAPITALS
  <2>3. CASE c \in 97 .. 102
    <3>1. c \notin CAPITALS
      BY <2>3 DEF CAPITALS
    <3> QED
      BY <1>2, <2>3, <3>1 DEF HexValue
  <2> QED
    BY <2>1, <2>2, <2>3
<1> QED
  BY <1>1, <1>2

LEMMA EscapeIsByte ==
    ASSUME NEW a \in Byte, NEW b \in Byte, IsEscape(a, b)
    PROVE  Escape(a, b) \in Byte
<1>1. \A c \in Byte : IsHex(c) => HexValue(c) \in 0 .. 15
  BY HexValues
<1>0. ~IsHex(MINUS)
  BY DEF IsHex, MINUS, DIGITS
<1>2. CASE IsHex(a) /\ IsHex(b)
  <2>1. \A m, n \in 0 .. 15 : 16 * m + n \in 0 .. 255
    OBVIOUS
  <2>2. Escape(a, b) = 16 * HexValue(a) + HexValue(b)
    BY <1>0, <1>2 DEF Escape
  <2> QED
    BY <1>1, <1>2, <2>1, <2>2 DEF Byte
<1>3. CASE IsHex(a) /\ ~IsHex(b)
  <2>1. Escape(a, b) = HexValue(a)
    BY <1>0, <1>3 DEF Escape
  <2> QED
    BY <1>1, <1>3, <2>1 DEF Byte
<1>4. CASE ~IsHex(a)
  <2>1. HexValue(b) \in 0 .. 15
    BY <1>1, <1>4 DEF IsEscape
  <2>2. CASE a = MINUS
    <3>1. Escape(a, b) = (256 - HexValue(b)) % 256
      BY <1>4, <2>2 DEF Escape
    <3>2. \A n \in 0 .. 15 : (256 - n) % 256 \in 0 .. 255
      OBVIOUS
    <3> QED
      BY <2>1, <3>1, <3>2 DEF Byte
  <2>3. CASE a # MINUS
    <3>1. Escape(a, b) = HexValue(b)
      BY <1>4, <2>3 DEF Escape
    <3> QED
      BY <2>1, <3>1 DEF Byte
  <2> QED
    BY <2>2, <2>3
<1> QED
  BY <1>2, <1>3, <1>4

LEMMA DecodingStep ==
    ASSUME NEW t \in Word, NEW o \in Word, NEW c \in Byte
    PROVE  Decoding[[text |-> t, open |-> o]][c] =
               CASE o = <<>> /\ c # PERCENT -> [text |-> Append(t, c), open |-> o]
                 [] Len(o) = 2 /\ IsEscape(o[2], c) ->
                        [text |-> Append(t, Escape(o[2], c)), open |-> <<>>]
                 [] OTHER -> [text |-> t, open |-> Append(o, c)]
<1> DEFINE s == [text |-> t, open |-> o]
<1>1. s \in [text : Seq(Byte), open : Seq(Byte)] /\ s.text = t /\ s.open = o
  BY DEF Word
<1>2. /\ [s EXCEPT !.text = Append(@, c)] = [text |-> Append(t, c), open |-> o]
      /\ [s EXCEPT !.open = Append(@, c)] = [text |-> t, open |-> Append(o, c)]
  <2>1. \A v : [s EXCEPT !.text = v] = [text |-> v, open |-> o]
    OBVIOUS
  <2>2. \A v : [s EXCEPT !.open = v] = [text |-> t, open |-> v]
    OBVIOUS
  <2> HIDE DEF s
  <2> QED
    BY <1>1, <2>1, <2>2
<1> HIDE DEF s
<1>3. Decoding[s][c] =
        CASE s.open = <<>> /\ c # PERCENT -> [s EXCEPT !.text = Append(@, c)]
          [] Len(s.open) = 2 /\ IsEscape(s.open[2], c) ->
                [text |-> Append(s.text, Escape(s.open[2], c)), open |-> <<>>]
          [] OTHER -> [s EXCEPT !.open = Append(@, c)]
  BY <1>1 DEF Decoding
<1>4. CASE o = <<>> /\ c # PERCENT
  BY <1>1, <1>2, <1>3, <1>4 DEF s
<1>5. CASE Len(o) = 2 /\ IsEscape(o[2], c)
  <2>1. o # <<>>
    BY <1>5
  <2> QED
    BY <1>1, <1>3, <1>5, <2>1 DEF s
<1>6. CASE ~(o = <<>> /\ c # PERCENT) /\ ~(Len(o) = 2 /\ IsEscape(o[2], c))
  BY <1>1, <1>2, <1>3, <1>6 DEF s
<1> QED
  BY <1>4, <1>5, <1>6

LEMMA DecodingType ==
    /\ Decoding \in [DecodeState -> [Byte -> DecodeState]]
    /\ [text |-> <<>>, open |-> <<>>] \in DecodeState
<1>1. ASSUME NEW s \in DecodeState, NEW c \in Byte
      PROVE  Decoding[s][c] \in DecodeState
  <2>1. s.text \in Word /\ s.open \in Word /\ s = [text |-> s.text, open |-> s.open]
    BY DEF DecodeState
  <2>2. Append(s.text, c) \in Word /\ Append(s.open, c) \in Word /\ <<>> \in Word
    BY <2>1, WordsJoin
  <2>3. ASSUME Len(s.open) = 2, IsEscape(s.open[2], c)
        PROVE  Append(s.text, Escape(s.open[2], c)) \in Word
    <3>1. s.open[2] \in Byte
      BY <2>1, <2>3 DEF Word
    <3>2. Escape(s.open[2], c) \in Byte
      BY <2>3, <3>1, EscapeIsByte
    <3> QED
      BY <2>1, <3>2, WordsJoin
  <2> DEFINE t == s.text
             o == s.open
  <2>4. Decoding[[text |-> t, open |-> o]][c] =
               CASE o = <<>> /\ c # PERCENT -> [text |-> Append(t, c), open |-> o]
                 [] Len(o) = 2 /\ IsEscape(o[2], c) ->
                        [text |-> Append(t, Escape(o[2], c)), open |-> <<>>]
                 [] OTHER -> [text |-> t, open |-> Append(o, c)]
    <3>1. t \in Word /\ o \in Word
      BY <2>1
    <3> HIDE DEF t, o
    <3> QED
      BY <3>1, DecodingStep
  <2>5. Decoding[s][c] = Decoding[[text |-> t, open |-> o]][c]
    BY <2>1
  <2>6. \/ Decoding[s][c] = [text |-> Append(t, c), open |-> o]
        \/ /\ Len(o) = 2 /\ IsEscape(o[2], c)
           /\ Decoding[s][c] = [text |-> Append(t, Escape(o[2], c)), open |-> <<>>]
        \/ Decoding[s][c] = [text |-> t, open |-> Append(o, c)]
    <3> HIDE DEF t, o
    <3> QED
      BY <2>4, <2>5
  <2>7. \A v, x \in Word : [text |-> v, open |-> x] \in DecodeState
    BY DEF DecodeState
  <2>8. /\ t \in Word /\ o \in Word /\ Append(t, c) \in Word /\ Append(o, c) \in Word
        /\ <<>> \in Word
        /\ Len(o) = 2 /\ IsEscape(o[2], c) => Append(t, Escape(o[2], c)) \in Word
    BY <2>1, <2>2, <2>3
  <2> HIDE DEF t, o
  <2> QED
    BY <2>6, <2>7, <2>8
<1>2. Decoding = [s \in DecodeState |-> [c \in Byte |-> Decoding[s][c]]]
  BY DEF Decoding, DecodeState, Word
<1>3. [text |-> <<>>, open |-> <<>>] \in DecodeState
  BY WordsJoin DEF DecodeState
<1> QED
  BY <1>1, <1>2, <1>3

LEMMA ReadsSomething ==
    ASSUME NEW w \in Word
    PROVE  \E text, open \in Word : Reads(w, text, open)
<1> DEFINE s == Loop(w, [text |-> <<>>, open |-> <<>>], Decoding)
<1>1. s \in DecodeState
  <2>1. w \in Seq(Byte)
    BY DEF Word
  <2> HIDE DEF DecodeState, Byte
  <2> QED
    BY <2>1, DecodingType, LoopType, Zenon
<1> HIDE DEF s
<1>2. s.text \in Word /\ s.open \in Word /\ s = [text |-> s.text, open |-> s.open]
  BY <1>1 DEF DecodeState
<1> QED
  BY <1>2 DEF Reads, s

LEMMA ReadsOfNone == Reads(<<>>, <<>>, <<>>)
BY LoopOfNone DEF Reads

LEMMA ReadsOfAppend ==
    ASSUME NEW w \in Word, NEW t \in Word, NEW o \in Word, NEW c \in Byte,
           Reads(w, t, o)
    PROVE  /\ o = <<>> /\ c # PERCENT => Reads(Append(w, c), Append(t, c), o)
           /\ Len(o) = 2 /\ IsEscape(o[2], c) =>
                 Reads(Append(w, c), Append(t, Escape(o[2], c)), <<>>)
           /\ ~(o = <<>> /\ c # PERCENT) /\ ~(Len(o) = 2 /\ IsEscape(o[2], c)) =>
                 Reads(Append(w, c), t, Append(o, c))
<1> DEFINE z == [text |-> <<>>, open |-> <<>>]
           D == Decoding
<1>1. z \in DecodeState /\ D \in [DecodeState -> [Byte -> DecodeState]]
  BY DecodingType
<1>2. w \in Seq(Byte)
  BY DEF Word
<1>3. Loop(Append(w, c), z, D) = D[Loop(w, z, D)][c]
  <2> HIDE DEF z, D, Byte, DecodeState
  <2> QED
    BY <1>1, <1>2, LoopOfAppend
<1>4. Loop(w, z, D) = [text |-> t, open |-> o]
  BY DEF Reads
<1>5. D[[text |-> t, open |-> o]][c] =
               CASE o = <<>> /\ c # PERCENT -> [text |-> Append(t, c), open |-> o]
                 [] Len(o) = 2 /\ IsEscape(o[2], c) ->
                        [text |-> Append(t, Escape(o[2], c)), open |-> <<>>]
                 [] OTHER -> [text |-> t, open |-> Append(o, c)]
  BY DecodingStep
<1>6. \A t2, o2 : Loop(Append(w, c), z, D) = [text |-> t2, open |-> o2] => Reads(Append(w, c), t2, o2)
  BY DEF Reads
<1> HIDE DEF z, D
<1>7. CASE o = <<>> /\ c # PERCENT
  <2>1. Len(o) # 2
    BY <1>7
  <2> QED
    BY <1>3, <1>4, <1>5, <1>6, <1>7, <2>1
<1>8. CASE Len(o) = 2 /\ IsEscape(o[2], c)
  <2>1. o # <<>>
    BY <1>8
  <2> QED
    BY <1>3, <1>4, <1>5, <1>6, <1>8, <2>1
<1>9. CASE ~(o = <<>> /\ c # PERCENT) /\ ~(Len(o) = 2 /\ IsEscape(o[2], c))
  BY <1>3, <1>4, <1>5, <1>6, <1>9
<1> QED
  BY <1>7, <1>8, <1>9

LEMMA BadIsNoWord == BadText \notin Word
<1>1. ASSUME BadText \in Word PROVE FALSE
  <2>1. BadText[1] \in Byte
    BY <1>1 DEF BadText, Word
  <2> QED
    BY <2>1 DEF BadText, Byte
<1> QED
  BY <1>1

\* What is decoded is a word.
LEMMA DecodeType ==
    ASSUME NEW w \in Word
    PROVE  Decode(w) \in Word \union {BadText}
<1>1. PICK text \in Word, open \in Word : Reads(w, text, open)
  BY ReadsSomething
<1> QED
  BY <1>1 DEF Reads, Decode

LEMMA DecodeReads ==
    ASSUME NEW w, NEW text, Reads(w, text, <<>>)
    PROVE  Decode(w) = text
BY DEF Reads, Decode

\* The bytes of which an escape is made.
EscapeBytes == {PERCENT} \union DIGITS \union (65 .. 70)

\* What is written for a byte.
Spelt(c, flags) == IF Escapes(c, flags) THEN Encoded(c) ELSE <<c>>

LEMMA DigitIsHex ==
    ASSUME NEW n \in 0 .. 15
    PROVE  /\ Digit(n) \in Byte /\ IsHex(Digit(n)) /\ HexValue(Digit(n)) = n
           /\ Digit(n) \in EscapeBytes /\ Digit(n) \notin {88, 120}
<1>1. CASE n < 10
  <2>1. Digit(n) = n + 48 /\ Digit(n) \in 48 .. 57
    BY <1>1 DEF Digit
  <2>2. Digit(n) \notin CAPITALS /\ Digit(n) \in DIGITS
    BY <2>1 DEF CAPITALS, DIGITS
  <2>3. HexValue(Digit(n)) = Digit(n) - 48
    BY <2>2 DEF HexValue
  <2> QED
    BY <2>1, <2>2, <2>3 DEF Byte, IsHex, EscapeBytes
<1>2. CASE ~(n < 10)
  <2>1. Digit(n) = n + 55 /\ Digit(n) \in 65 .. 70
    BY <1>2 DEF Digit
  <2>2. Digit(n) \in CAPITALS /\ Digit(n) \notin DIGITS
    BY <2>1 DEF CAPITALS, DIGITS
  <2>3. HexValue(Digit(n)) = Digit(n) - 55
    BY <2>2 DEF HexValue
  <2> QED
    BY <2>1, <2>2, <2>3 DEF Byte, IsHex, EscapeBytes
<1> QED
  BY <1>1, <1>2

\* An escape that was written is read as the byte.
LEMMA EncodedIsEscape ==
    ASSUME NEW c \in Byte
    PROVE  /\ c \div 16 \in 0 .. 15 /\ c % 16 \in 0 .. 15
           /\ IsEscape(Digit(c \div 16), Digit(c % 16))
           /\ Escape(Digit(c \div 16), Digit(c % 16)) = c
<1> DEFINE m == c \div 16
           n == (c % 16)
<1>1. m \in 0 .. 15 /\ n \in 0 .. 15 /\ 16 * m + n = c
  BY DEF Byte
<1> HIDE DEF m, n
<1>2. /\ IsHex(Digit(m)) /\ HexValue(Digit(m)) = m
      /\ IsHex(Digit(n)) /\ HexValue(Digit(n)) = n /\ Digit(n) \notin {88, 120}
  BY <1>1, DigitIsHex
<1>3. Digit(m) # MINUS
  BY <1>2 DEF IsHex, MINUS, DIGITS
<1>4. Escape(Digit(m), Digit(n)) = 16 * HexValue(Digit(m)) + HexValue(Digit(n))
  BY <1>2, <1>3 DEF Escape
<1>5. IsEscape(Digit(m), Digit(n))
  BY <1>2 DEF IsEscape
<1> QED
  BY <1>1, <1>2, <1>4, <1>5 DEF m, n

LEMMA TwoOfOne ==
    ASSUME NEW x \in Byte, NEW y \in Byte
    PROVE  Append(<<x>>, y) = <<x, y>>
<1>1. ASSUME NEW one \in Seq(Byte), Len(one) = 1, one[1] = x,
             NEW two \in Seq(Byte), Len(two) = 2, two[1] = x, two[2] = y
      PROVE  Append(one, y) = two
  <2> DEFINE more == Append(one, y)
  <2>1. /\ more \in Seq(Byte) /\ Len(more) = Len(one) + 1 /\ more[Len(one) + 1] = y
        /\ \A i \in 1 .. Len(one) : more[i] = one[i]
    BY AppendProperties
  <2> HIDE DEF more
  <2>2. 1 \in 1 .. Len(one) /\ Len(one) + 1 = 2
    BY <1>1
  <2>3. Len(more) = 2 /\ more[1] = x /\ more[2] = y
    BY <1>1, <2>1, <2>2
  <2>4. \A i \in 1 .. Len(more) : more[i] = two[i]
    <3>1. \A i \in 1 .. Len(more) : i = 1 \/ i = 2
      BY <2>3
    <3> QED
      BY <1>1, <2>3, <3>1
  <2>5. more = two
    BY <1>1, <2>1, <2>3, <2>4, SeqEqual
  <2> QED
    BY <2>5 DEF more
<1>2. <<x>> \in Seq(Byte) /\ Len(<<x>>) = 1 /\ <<x>>[1] = x
  OBVIOUS
<1>3. <<x, y>> \in Seq(Byte) /\ Len(<<x, y>>) = 2 /\ <<x, y>>[1] = x /\ <<x, y>>[2] = y
  OBVIOUS
<1> QED
  BY <1>1, <1>2, <1>3

LEMMA SpeltType ==
    ASSUME NEW c \in Byte, NEW flags
    PROVE  /\ Spelt(c, flags) \in Word /\ Spelt(c, flags) # <<>>
           /\ \A x : Contains(Spelt(c, flags), x) /\ x \notin EscapeBytes =>
                 x = c /\ ~Escapes(c, flags)
<1>1. CASE ~Escapes(c, flags)
  BY <1>1, WordsJoin, ContainsOfOne DEF Spelt
<1>2. CASE Escapes(c, flags)
  <2> DEFINE a == Digit(c \div 16)
             b == Digit(c % 16)
  <2>1. a \in Byte /\ b \in Byte /\ a \in EscapeBytes /\ b \in EscapeBytes
    BY EncodedIsEscape, DigitIsHex
  <2>2. Spelt(c, flags) = <<PERCENT, a, b>>
    BY <1>2 DEF Spelt, Encoded
  <2> HIDE DEF a, b
  <2>3. PERCENT \in Byte /\ PERCENT \in EscapeBytes
    BY DEF PERCENT, Byte, EscapeBytes
  <2>4. Spelt(c, flags) \in Word
    BY <2>1, <2>2, <2>3 DEF Word
  <2>5. \A x : Contains(<<PERCENT, a, b>>, x) => x \in {PERCENT, a, b}
    BY DEF Contains
  <2> QED
    BY <2>1, <2>2, <2>3, <2>4, <2>5
<1> QED
  BY <1>1, <1>2

LEMMA EncodeOfNone ==
    ASSUME NEW flags
    PROVE  Encode(<<>>, flags) = <<>>
<1>1. [i \in DOMAIN <<>> |-> IF Escapes(<<>>[i], flags) THEN Encoded(<<>>[i]) ELSE << <<>>[i]>>] = <<>>
  OBVIOUS
<1> QED
  BY <1>1, FlattenOfNone DEF Encode

LEMMA EncodeOfAppend ==
    ASSUME NEW w \in Word, NEW c \in Byte, NEW flags
    PROVE  /\ Encode(w, flags) \in Word
           /\ Encode(Append(w, c), flags) = Encode(w, flags) \o Spelt(c, flags)
<1> DEFINE v == Append(w, c)
           l == [i \in DOMAIN w |-> Spelt(w[i], flags)]
           m == [i \in DOMAIN v |-> Spelt(v[i], flags)]
           n == Len(w)
<1>1. /\ n \in Nat /\ DOMAIN w = 1 .. n /\ \A i \in 1 .. n : w[i] \in Byte
      /\ DOMAIN v = 1 .. n + 1 /\ Len(v) = n + 1 /\ v[n + 1] = c
      /\ \A i \in 1 .. n : v[i] = w[i]
  BY DEF Word
<1>2. Encode(w, flags) = FlattenSeq(l) /\ Encode(v, flags) = FlattenSeq(m)
  BY DEF Encode, Spelt
<1> HIDE DEF v
<1>3. \A x \in Byte : Spelt(x, flags) \in Word
  BY SpeltType
<1>4. l \in [1 .. n -> Word] /\ m \in [1 .. n + 1 -> Word]
  <2>1. \A i \in 1 .. n + 1 : i \in 1 .. n \/ i = n + 1
    BY <1>1
  <2> QED
    BY <1>1, <1>3, <2>1
<1>5. l \in Seq(Word) /\ m \in Seq(Word) /\ n + 1 \in Nat
  <2>1. n + 1 \in Nat
    BY <1>1
  <2> HIDE DEF l, m, n
  <2> QED
    BY <1>1, <1>4, <2>1, FunctionIsList, Zenon
<1>6. m = Append(l, Spelt(c, flags))
  <2> DEFINE q == Append(l, Spelt(c, flags))
  <2>1. Spelt(c, flags) \in Word
    BY <1>3
  <2>2. Len(l) = n /\ Len(m) = n + 1
    BY <1>1, <1>4, <1>5
  <2>3. /\ q \in Seq(Word) /\ Len(q) = n + 1 /\ q[n + 1] = Spelt(c, flags)
        /\ \A i \in 1 .. n : q[i] = l[i]
    <3> HIDE DEF l
    <3> QED
      BY <1>5, <2>1, <2>2, AppendProperties
  <2>4. \A i \in 1 .. n + 1 : m[i] = q[i]
    <3>1. \A i \in 1 .. n : m[i] = l[i] /\ i \in 1 .. n + 1
      BY <1>1
    <3>2. m[n + 1] = Spelt(c, flags)
      BY <1>1
    <3>3. \A i \in 1 .. n + 1 : i \in 1 .. n \/ i = n + 1
      BY <1>1
    <3> HIDE DEF m, q, l
    <3> QED
      BY <2>3, <3>1, <3>2, <3>3
  <2> HIDE DEF q, m
  <2> QED
    BY <1>5, <2>2, <2>3, <2>4, SeqEqual DEF q
<1>7. /\ FlattenSeq(l) \in Word
      /\ FlattenSeq(Append(l, Spelt(c, flags))) = FlattenSeq(l) \o Spelt(c, flags)
  <2>1. Spelt(c, flags) \in Seq(Byte) /\ l \in Seq(Seq(Byte))
    BY <1>3, <1>5 DEF Word
  <2> HIDE DEF l
  <2> QED
    BY <2>1, FlattenOfAppend DEF Word
<1> QED
  BY <1>2, <1>6, <1>7 DEF v

LEMMA EncodeOfOne ==
    ASSUME NEW c \in Byte, NEW flags
    PROVE  Encode(<<c>>, flags) = Spelt(c, flags)
<1>1. Append(<<>>, c) = <<c>> /\ <<>> \in Word
  BY WordsJoin
<1>2. Encode(Append(<<>>, c), flags) = Encode(<<>>, flags) \o Spelt(c, flags)
  BY <1>1, EncodeOfAppend
<1>3. <<>> \o Spelt(c, flags) = Spelt(c, flags)
  BY SpeltType, WordsJoin
<1> QED
  BY <1>1, <1>2, <1>3, EncodeOfNone

\* What is spelt is decoded to what it was, and it contains no byte besides
\* those of escapes and those that are not escaped; it begins as the word does.
LEMMA EncodeReads ==
    ASSUME NEW w \in Word, NEW flags
    PROVE  /\ Encode(w, flags) \in Word /\ Reads(Encode(w, flags), w, <<>>)
           /\ w # <<>> => Encode(w, flags) # <<>>
           /\ \A x : x \notin EscapeBytes =>
                 /\ Contains(Encode(w, flags), x) =>
                        Contains(w, x) /\ ~Escapes(x, flags)
                 /\ Starts(Encode(w, flags), x) => Starts(w, x)
<1> DEFINE Spells(v) ==
              /\ Encode(v, flags) \in Word /\ Reads(Encode(v, flags), v, <<>>)
              /\ v # <<>> => Encode(v, flags) # <<>>
              /\ \A x : x \notin EscapeBytes =>
                    /\ Contains(Encode(v, flags), x) =>
                           Contains(v, x) /\ ~Escapes(x, flags)
                    /\ Starts(Encode(v, flags), x) => Starts(v, x)
           Good == {v \in Word : Spells(v)}
<1>1. <<>> \in Good
  BY EncodeOfNone, ReadsOfNone, WordsJoin, ContainsOfNone DEF Starts
<1>2. ASSUME NEW v \in Good, NEW c \in Byte
      PROVE  Append(v, c) \in Good
  <2> DEFINE e == Encode(v, flags)
             s == Spelt(c, flags)
             u == Append(v, c)
  <2>1. /\ e \in Word /\ Reads(e, v, <<>>) /\ v \in Word
        /\ v # <<>> => e # <<>>
        /\ \A x : x \notin EscapeBytes =>
                    /\ Contains(e, x) => Contains(v, x) /\ ~Escapes(x, flags)
                    /\ Starts(e, x) => Starts(v, x)
    OBVIOUS
  <2>2. /\ s \in Word /\ s # <<>>
        /\ \A x : Contains(s, x) /\ x \notin EscapeBytes => x = c /\ ~Escapes(c, flags)
    BY SpeltType
  <2>3. u \in Word /\ u # <<>> /\ \A x : Contains(u, x) <=> Contains(v, x) \/ x = c
    <3>1. u # <<>>
      BY <2>1, AppendProperties DEF Word
    <3> QED
      BY <2>1, <3>1, WordsJoin, ContainsOfAppend
  <2>4. Encode(u, flags) = e \o s
    BY <2>1, EncodeOfAppend
  <2>5. Reads(e \o s, u, <<>>)
    <3>0. <<>> \in Word /\ <<PERCENT>> \in Word /\ PERCENT \in Byte
      BY WordsJoin, MarksAreBytes
    <3>1. CASE ~Escapes(c, flags)
      <4>1. s = <<c>> /\ c # PERCENT
        <5>1. s = <<c>>
          BY <3>1 DEF Spelt
        <5>2. c \in PLAIN
          BY <3>1 DEF Escapes
        <5>3. PERCENT \notin PLAIN
          BY DEF PLAIN, DIGITS, CAPITALS, LETTERS, MARKS, OPEN, CLOSE, MINUS,
                 PERCENT, COMMAS, COLON, SLASH
        <5> QED
          BY <5>1, <5>2, <5>3
      <4>2. e \o s = Append(e, c)
        BY <2>1, <4>1, WordsJoin
      <4>3. Reads(Append(e, c), Append(v, c), <<>>)
        <5> HIDE DEF e
        <5> QED
          BY <2>1, <3>0, <4>1, ReadsOfAppend
      <4> QED
        BY <4>2, <4>3
    <3>2. CASE Escapes(c, flags)
      <4> DEFINE a == Digit(c \div 16)
                 b == Digit(c % 16)
                 e1 == Append(e, PERCENT)
                 e2 == Append(e1, a)
                 e3 == Append(e2, b)
      <4>1. a \in Byte /\ b \in Byte /\ IsEscape(a, b) /\ Escape(a, b) = c
        BY EncodedIsEscape, DigitIsHex
      <4>2. s = <<PERCENT, a, b>>
        BY <3>2 DEF Spelt, Encoded
      <4> HIDE DEF a, b, e, s, u
      <4>3. e1 \in Word /\ e2 \in Word /\ e3 \in Word
        BY <2>1, <3>0, <4>1, WordsJoin
      <4>4. e \o s = e3
        BY <2>1, <3>0, <4>1, <4>2 DEF Word
      <4>5. Reads(e1, v, <<PERCENT>>)
        <5>1. Append(<<>>, PERCENT) = <<PERCENT>>
          OBVIOUS
        <5>2. Len(<<>>) # 2
          OBVIOUS
        <5>3. Reads(Append(e, PERCENT), v, Append(<<>>, PERCENT))
          BY <2>1, <3>0, <5>2, ReadsOfAppend
        <5> QED
          BY <5>1, <5>3
      <4> HIDE DEF e1
      <4>6. Reads(e2, v, <<PERCENT, a>>)
        <5>1. Append(<<PERCENT>>, a) = <<PERCENT, a>> /\ Len(<<PERCENT>>) # 2 /\ <<PERCENT>> # <<>>
          <6>1. Append(<<PERCENT>>, a) = <<PERCENT, a>>
            BY <3>0, <4>1, TwoOfOne
          <6>2. Len(<<PERCENT>>) = 1
            BY <3>0 DEF Word
          <6>3. <<PERCENT>> = <<>> => Len(<<PERCENT>>) = Len(<<>>)
            OBVIOUS
          <6>4. Len(<<>>) = 0
            OBVIOUS
          <6> QED
            BY <6>1, <6>2, <6>3, <6>4
        <5>2. Reads(Append(e1, a), v, Append(<<PERCENT>>, a))
          BY <2>1, <3>0, <4>1, <4>3, <4>5, <5>1, ReadsOfAppend
        <5> QED
          BY <5>1, <5>2
      <4> HIDE DEF e2
      <4>7. Reads(e3, Append(v, c), <<>>)
        <5> DEFINE o == <<PERCENT, a>>
        <5>1. Len(o) = 2 /\ o[2] = a /\ o \in Word
          BY <3>0, <4>1 DEF Word
        <5>2. Reads(e2, v, o)
          BY <4>6
        <5> HIDE DEF o
        <5>3. Reads(Append(e2, b), Append(v, Escape(o[2], b)), <<>>)
          BY <2>1, <4>1, <4>3, <5>1, <5>2, ReadsOfAppend
        <5> QED
          BY <4>1, <5>1, <5>3
      <4> QED
        BY <4>4, <4>7 DEF u
    <3> QED
      BY <3>1, <3>2
  <2>6. e \o s \in Word /\ e \o s # <<>>
    <3>1. Len(e \o s) = Len(e) + Len(s) /\ Len(e) \in Nat /\ Len(s) \in Nat \ {0}
      BY <2>1, <2>2, EmptySeq DEF Word
    <3> QED
      BY <2>1, <2>2, <3>1, WordsJoin
  <2>7. ASSUME NEW x, x \notin EscapeBytes, Contains(e \o s, x)
        PROVE  Contains(u, x) /\ ~Escapes(x, flags)
    <3>1. Contains(e, x) \/ Contains(s, x)
      BY <2>1, <2>2, <2>7, ContainsOfConcat
    <3> HIDE DEF e, s, u
    <3> QED
      BY <2>1, <2>2, <2>3, <2>7, <3>1
  <2>8. ASSUME NEW x, x \notin EscapeBytes, Starts(e \o s, x)
        PROVE  Starts(u, x)
    <3>1. CASE v = <<>>
      <4>1. e = <<>> /\ u = <<c>>
        BY <3>1, EncodeOfNone, WordsJoin
      <4>2. e \o s = s
        BY <2>2, <4>1, WordsJoin
      <4>3. Contains(s, x)
        <5>1. Len(s) \in Nat \ {0}
          BY <2>2, EmptySeq DEF Word
        <5> QED
          BY <2>8, <4>2, <5>1 DEF Starts, Contains
      <4> QED
        BY <2>2, <2>8, <4>1, <4>3 DEF Starts
    <3>2. CASE v # <<>>
      <4>1. e # <<>> /\ Len(e) \in Nat \ {0} /\ Len(v) \in Nat \ {0}
        BY <2>1, <3>2, EmptySeq DEF Word
      <4>2. (e \o s)[1] = e[1] /\ u[1] = v[1]
        <5>1. 1 \in 1 .. Len(e) /\ 1 \in 1 .. Len(v)
          BY <4>1
        <5> QED
          BY <2>1, <2>2, <5>1, ConcatPlaces, AppendProperties DEF Word
      <4>3. Starts(v, x)
        BY <2>1, <2>8, <4>1, <4>2 DEF Starts
      <4> QED
        BY <2>3, <4>2, <4>3 DEF Starts
    <3> QED
      BY <3>1, <3>2
  <2>9. Spells(u)
    <3> HIDE DEF e, s, u
    <3> QED
      BY <2>3, <2>4, <2>5, <2>6, <2>7, <2>8
  <2> QED
    BY <2>3, <2>9
<1>3. Good \in SUBSET Seq(Byte)
  BY DEF Word
<1> HIDE DEF Good
<1>4. Good = Seq(Byte)
  BY <1>1, <1>2, <1>3, ByAppending
<1> QED
  BY <1>4 DEF Good, Word

-----------------------------------------------------------------------------
(* Lists of words between commas.                                          *)

\* What is written for an item after others.
ItemText(items, x, flags) ==
    (IF items = <<>> THEN <<>> ELSE <<COMMAS>>) \o Encode(x, flags)

LEMMA JoinedOfNone ==
    ASSUME NEW flags
    PROVE  Joined(<<>>, flags) = <<>>
<1>1. [i \in DOMAIN <<>> |->
          (IF i = 1 THEN <<>> ELSE <<COMMAS>>) \o Encode(<<>>[i], flags)] = <<>>
  OBVIOUS
<1> QED
  BY <1>1, FlattenOfNone DEF Joined

LEMMA JoinedOfAppend ==
    ASSUME NEW items \in Seq(Word), NEW x \in Word, NEW flags
    PROVE  /\ Joined(items, flags) \in Word
           /\ ItemText(items, x, flags) \in Word
           /\ Joined(Append(items, x), flags) =
                  Joined(items, flags) \o ItemText(items, x, flags)
<1> DEFINE v == Append(items, x)
           T(i, y) == (IF i = 1 THEN <<>> ELSE <<COMMAS>>) \o Encode(y, flags)
           l == [i \in DOMAIN items |-> T(i, items[i])]
           m == [i \in DOMAIN v |-> T(i, v[i])]
           n == Len(items)
<1>1. /\ n \in Nat /\ DOMAIN items = 1 .. n /\ \A i \in 1 .. n : items[i] \in Word
      /\ DOMAIN v = 1 .. n + 1 /\ Len(v) = n + 1 /\ v[n + 1] = x
      /\ \A i \in 1 .. n : v[i] = items[i]
  OBVIOUS
<1>2. Joined(items, flags) = FlattenSeq(l) /\ Joined(v, flags) = FlattenSeq(m)
  BY DEF Joined
<1> HIDE DEF v
<1>3. ASSUME NEW i, NEW y \in Word
      PROVE  T(i, y) \in Word
  <2>1. Encode(y, flags) \in Word
    BY EncodeReads
  <2>2. <<>> \in Word /\ <<COMMAS>> \in Word
    BY WordsJoin, MarksAreBytes
  <2> QED
    BY <2>1, <2>2, WordsJoin
<1>4. T(n + 1, x) = ItemText(items, x, flags)
  <2>1. n = 0 <=> items = <<>>
    BY EmptySeq
  <2>2. n + 1 = 1 <=> items = <<>>
    BY <1>1, <2>1
  <2> QED
    BY <2>2 DEF ItemText
<1> HIDE DEF T
<1>5. l \in [1 .. n -> Word] /\ m \in [1 .. n + 1 -> Word]
  <2>1. \A i \in 1 .. n + 1 : i \in 1 .. n \/ i = n + 1
    BY <1>1
  <2>2. \A i \in 1 .. n + 1 : v[i] \in Word
    BY <1>1, <2>1
  <2> QED
    BY <1>1, <1>3, <2>2
<1>6. l \in Seq(Word) /\ m \in Seq(Word) /\ n + 1 \in Nat
  <2>1. n + 1 \in Nat
    BY <1>1
  <2> HIDE DEF l, m, n
  <2> QED
    BY <1>1, <1>5, <2>1, FunctionIsList, Zenon
<1>7. m = Append(l, T(n + 1, x))
  <2> DEFINE q == Append(l, T(n + 1, x))
  <2>1. T(n + 1, x) \in Word
    BY <1>3
  <2>2. Len(l) = n /\ Len(m) = n + 1
    BY <1>1, <1>5, <1>6
  <2>3. /\ q \in Seq(Word) /\ Len(q) = n + 1 /\ q[n + 1] = T(n + 1, x)
        /\ \A i \in 1 .. n : q[i] = l[i]
    <3> HIDE DEF l
    <3> QED
      BY <1>6, <2>1, <2>2, AppendProperties
  <2>4. \A i \in 1 .. n + 1 : m[i] = q[i]
    <3>1. \A i \in 1 .. n : m[i] = l[i] /\ i \in 1 .. n + 1
      BY <1>1
    <3>2. m[n + 1] = T(n + 1, x)
      BY <1>1
    <3>3. \A i \in 1 .. n + 1 : i \in 1 .. n \/ i = n + 1
      BY <1>1
    <3> HIDE DEF m, q, l
    <3> QED
      BY <2>3, <3>1, <3>2, <3>3
  <2> HIDE DEF q, m
  <2> QED
    BY <1>6, <2>2, <2>3, <2>4, SeqEqual DEF q
<1>8. /\ FlattenSeq(l) \in Word
      /\ FlattenSeq(Append(l, T(n + 1, x))) = FlattenSeq(l) \o T(n + 1, x)
  <2>1. T(n + 1, x) \in Seq(Byte) /\ l \in Seq(Seq(Byte))
    BY <1>3, <1>6 DEF Word
  <2> HIDE DEF l
  <2> QED
    BY <2>1, FlattenOfAppend DEF Word
<1>9. T(n + 1, x) \in Word
  BY <1>3
<1> QED
  BY <1>2, <1>4, <1>7, <1>8, <1>9 DEF v

\* What the text of a list consists of.
LEMMA JoinedHas ==
    ASSUME NEW items \in Seq(Word), NEW flags
    PROVE  /\ Joined(items, flags) \in Word
           /\ items # <<>> /\ items # << <<>> >> => Joined(items, flags) # <<>>
           /\ \A c : c \notin EscapeBytes /\ c # COMMAS /\ Contains(Joined(items, flags), c) =>
                 ~Escapes(c, flags)
<1> DEFINE Has(l) ==
              /\ Joined(l, flags) \in Word
              /\ l # <<>> /\ l # << <<>> >> => Joined(l, flags) # <<>>
              /\ \A c : c \notin EscapeBytes /\ c # COMMAS /\ Contains(Joined(l, flags), c) =>
                    ~Escapes(c, flags)
           Good == {l \in Seq(Word) : Has(l)}
<1>1. <<>> \in Good
  BY JoinedOfNone, WordsJoin, ContainsOfNone, EmptySeq
<1>2. ASSUME NEW l \in Good, NEW x \in Word
      PROVE  Append(l, x) \in Good
  <2> DEFINE j == Joined(l, flags)
             t == ItemText(l, x, flags)
             v == Append(l, x)
             e == Encode(x, flags)
  <2>1. v \in Seq(Word) /\ v # <<>>
    BY AppendProperties
  <2>2. j \in Word /\ t \in Word /\ Joined(v, flags) = j \o t /\ j \o t \in Word
    <3>1. l \in Seq(Word)
      OBVIOUS
    <3>2. j \in Word /\ t \in Word
      BY <3>1, JoinedOfAppend
    <3>3. Joined(v, flags) = j \o t
      BY <3>1, JoinedOfAppend
    <3>4. j \o t \in Word
      BY <3>2, WordsJoin, Zenon
    <3> QED
      BY <3>2, <3>3, <3>4
  <2>3. /\ e \in Word /\ (x # <<>> => e # <<>>)
        /\ \A c : c \notin EscapeBytes => (Contains(e, c) => ~Escapes(c, flags))
    BY EncodeReads
  <2>4. /\ l = <<>> => t = e
        /\ l # <<>> => t = <<COMMAS>> \o e /\ <<COMMAS>> \in Word
    BY <2>3, WordsJoin, MarksAreBytes DEF ItemText
  <2>10. l # <<>> => \A c : Contains(t, c) <=> c = COMMAS \/ Contains(e, c)
    <3>1. <<COMMAS>> \in Word /\ e \in Word
      BY <2>3, WordsJoin, MarksAreBytes
    <3>2. \A c : Contains(<<COMMAS>> \o e, c) <=> Contains(<<COMMAS>>, c) \/ Contains(e, c)
      BY <3>1, ContainsOfConcat
    <3>3. \A c : Contains(<<COMMAS>>, c) <=> COMMAS = c
      BY ContainsOfOne
    <3> HIDE DEF t, e
    <3> QED
      BY <2>4, <3>2, <3>3
  <2>5. ASSUME v # << <<>> >>
        PROVE  j \o t # <<>>
    <3>1. t # <<>>
      <4>1. CASE l = <<>>
        <5>1. Append(<<>>, <<>>) = << <<>> >>
          OBVIOUS
        <5>2. x # <<>>
          BY <2>5, <4>1, <5>1
        <5> QED
          BY <2>3, <2>4, <4>1, <5>2
      <4>2. CASE l # <<>>
        <5>1. Contains(t, COMMAS)
          BY <2>10, <4>2
        <5> QED
          BY <5>1, ContainsOfNone
      <4> QED
        BY <4>1, <4>2
    <3>2. Len(t) \in Nat \ {0} /\ Len(j) \in Nat /\ Len(j \o t) = Len(j) + Len(t)
      BY <2>2, <3>1, EmptySeq DEF Word
    <3> QED
      BY <2>2, <3>2, EmptySeq DEF Word
  <2>6. ASSUME NEW c, c \notin EscapeBytes, c # COMMAS, Contains(j \o t, c)
        PROVE  ~Escapes(c, flags)
    <3>1. Contains(j, c) \/ Contains(t, c)
      BY <2>2, <2>6, ContainsOfConcat
    <3>2. Contains(t, c) => Contains(e, c)
      BY <2>4, <2>6, <2>10
    <3> QED
      BY <2>3, <2>6, <3>1, <3>2
  <2>7. Has(v)
    <3> HIDE DEF v, j, t
    <3> QED
      BY <2>2, <2>5, <2>6
  <2> QED
    BY <2>1, <2>7
<1>3. Good \in SUBSET Seq(Word)
  OBVIOUS
<1> HIDE DEF Good
<1>4. Good = Seq(Word)
  BY <1>1, <1>2, <1>3, ByAppending
<1> QED
  BY <1>4 DEF Good

\* The text of a list is split into its items.
LEMMA JoinedSplits ==
    ASSUME NEW items \in Seq(Word), items # <<>>, NEW flags,
           \A i \in 1 .. Len(items) : Contains(items[i], COMMAS) => Escapes(COMMAS, flags)
    PROVE  /\ Split(Joined(items, flags), COMMAS) \in Seq(Word)
           /\ Len(Split(Joined(items, flags), COMMAS)) = Len(items)
           /\ \A i \in 1 .. Len(items) :
                 Split(Joined(items, flags), COMMAS)[i] = Encode(items[i], flags)
<1> DEFINE S(l) == Split(Joined(l, flags), COMMAS)
           Fine(l) == \A i \in 1 .. Len(l) : Contains(l[i], COMMAS) => Escapes(COMMAS, flags)
           Splits(l) ==
              /\ S(l) \in Seq(Word) /\ Len(S(l)) = Len(l)
              /\ \A i \in 1 .. Len(l) : S(l)[i] = Encode(l[i], flags)
           Good == {l \in Seq(Word) : l # <<>> /\ Fine(l) => Splits(l)}
<1>1. <<>> \in Good
  BY EmptySeq
<1>2. ASSUME NEW l \in Good, NEW x \in Word
      PROVE  Append(l, x) \in Good
  <2> DEFINE v == Append(l, x)
             n == Len(l)
             e == Encode(x, flags)
             j == Joined(l, flags)
  <2>1. v \in Seq(Word) /\ n \in Nat /\ Len(v) = n + 1 /\ v[n + 1] = x
        /\ \A i \in 1 .. n : v[i] = l[i]
    BY AppendProperties
  <2>2. SUFFICES ASSUME Fine(v)
                 PROVE  Splits(v)
    BY <2>1
  <2>3. Fine(l) /\ (Contains(x, COMMAS) => Escapes(COMMAS, flags))
    <3>1. n + 1 \in 1 .. Len(v) /\ \A i \in 1 .. n : i \in 1 .. Len(v)
      BY <2>1
    <3> HIDE DEF v
    <3> QED
      BY <2>1, <2>2, <3>1
  <2>4. e \in Word /\ ~Contains(e, COMMAS)
    <3>1. COMMAS \notin EscapeBytes
      BY DEF COMMAS, EscapeBytes, PERCENT, DIGITS
    <3> QED
      BY <2>3, <3>1, EncodeReads
  <2>5. j \in Word /\ Joined(v, flags) = j \o ItemText(l, x, flags) /\ COMMAS \in Byte
    BY JoinedOfAppend, MarksAreBytes
  <2>6. CASE l = <<>>
    <3>1. Joined(v, flags) = e
      <4>1. j = <<>> /\ ItemText(l, x, flags) = <<>> \o e
        BY <2>6, JoinedOfNone DEF ItemText
      <4> QED
        BY <2>4, <2>5, <4>1, WordsJoin
    <3>2. S(v) = <<e>>
      BY <2>4, <2>5, <3>1, SplitOfPlain
    <3>3. n = 0
      BY <2>6
    <3>4. <<e>> \in Seq(Word) /\ Len(<<e>>) = 1 /\ <<e>>[1] = e
      BY <2>4
    <3> HIDE DEF v, e, S
    <3>5. Len(v) = 1 /\ v[1] = x /\ \A i \in 1 .. Len(v) : i = 1
      BY <2>1, <3>3
    <3> QED
      BY <3>2, <3>4, <3>5 DEF e
  <2>7. CASE l # <<>>
    <3>1. Splits(l)
      BY <2>3, <2>7
    <3>2. Joined(v, flags) = j \o (<<COMMAS>> \o e)
      BY <2>5, <2>7 DEF ItemText
    <3>3. Ends(S(v), S(l), e)
      BY <2>4, <2>5, <3>2, SplitAtMark
    <3> HIDE DEF S, j, v
    <3>4. S(v) = Append(S(l), e)
      BY <3>3 DEF Ends
    <3> DEFINE s == S(l)
               t == Append(s, e)
    <3>5. s \in Seq(Word) /\ Len(s) = n /\ \A i \in 1 .. n : s[i] = Encode(l[i], flags)
      BY <3>1
    <3> HIDE DEF s
    <3>6. /\ t \in Seq(Word) /\ Len(t) = n + 1 /\ t[n + 1] = e
          /\ \A i \in 1 .. n : t[i] = s[i]
      <4> HIDE DEF e, n
      <4> QED
        BY <2>4, <3>5, AppendProperties
    <3> HIDE DEF t
    <3>7. S(v) = t
      BY <3>4 DEF s, t
    <3>8. \A i \in 1 .. n + 1 : i \in 1 .. n \/ i = n + 1
      BY <2>1
    <3>9. \A i \in 1 .. n + 1 : t[i] = Encode(v[i], flags)
      <4> HIDE DEF n
      <4> QED
        BY <2>1, <3>5, <3>6, <3>8 DEF e
    <3> QED
      BY <2>1, <3>6, <3>7, <3>9
  <2> QED
    BY <2>6, <2>7
<1>3. Good \in SUBSET Seq(Word)
  OBVIOUS
<1> HIDE DEF Good
<1>4. Good = Seq(Word)
  BY <1>1, <1>2, <1>3, ByAppending
<1> QED
  BY <1>4 DEF Good

\* A list that is spelled is read as it was.
LEMMA ListIsRead ==
    ASSUME NEW items \in Seq(Word), items # <<>>, NEW flags,
           \A i \in 1 .. Len(items) : Contains(items[i], COMMAS) => Escapes(COMMAS, flags)
    PROVE  ListOf(Joined(items, flags)) = items
<1> DEFINE pieces == Split(Joined(items, flags), COMMAS)
           read == [i \in DOMAIN pieces |-> Decode(pieces[i])]
<1>1. /\ pieces \in Seq(Word) /\ Len(pieces) = Len(items)
      /\ \A i \in 1 .. Len(items) : pieces[i] = Encode(items[i], flags)
  BY JoinedSplits
<1> HIDE DEF pieces
<1>2. ASSUME NEW i \in 1 .. Len(items)
      PROVE  Decode(pieces[i]) = items[i]
  <2>1. items[i] \in Word
    BY ElementOfSeq
  <2>2. Reads(Encode(items[i], flags), items[i], <<>>)
    BY <2>1, EncodeReads
  <2>3. Decode(Encode(items[i], flags)) = items[i]
    BY <2>2, DecodeReads
  <2> QED
    BY <1>1, <2>3
<1>3. DOMAIN pieces = 1 .. Len(items) /\ items = [i \in 1 .. Len(items) |-> items[i]]
  BY <1>1
<1>4. read = items
  BY <1>2, <1>3
<1>5. BadText \notin Range(items)
  <2>1. \A i \in DOMAIN items : items[i] \in Word
    OBVIOUS
  <2> QED
    BY <2>1, BadIsNoWord DEF Range
<1>6. ListOf(Joined(items, flags)) = IF BadText \in Range(read) THEN BadList ELSE read
  BY DEF ListOf, pieces
<1> QED
  BY <1>4, <1>5, <1>6

\* What a list is read as.
LEMMA ListType ==
    ASSUME NEW w \in Word
    PROVE  ListOf(w) \in Seq(Word) \union {BadList} /\ BadList \notin Seq(Word)
<1> DEFINE pieces == Split(w, COMMAS)
           read == [i \in DOMAIN pieces |-> Decode(pieces[i])]
           n == Len(pieces)
<1>1. pieces \in Seq(Word)
  BY MarksAreBytes, SplitOfAppend DEF Pieces
<1> HIDE DEF pieces
<1>2. n \in Nat /\ DOMAIN pieces = 1 .. n /\ \A i \in 1 .. n : Decode(pieces[i]) \in Word \union {BadText}
  BY <1>1, DecodeType
<1>5. BadList \notin Seq(Word)
  <2>1. BadList[1] = BadText /\ Len(BadList) = 1
    BY DEF BadList
  <2>2. BadList \in Seq(Word) => BadList[1] \in Word
    BY <2>1
  <2> QED
    BY <2>1, <2>2, BadIsNoWord
<1>6. ListOf(w) = IF BadText \in Range(read) THEN BadList ELSE read
  BY DEF ListOf, pieces
<1>3. CASE BadText \notin Range(read)
  <2>1. \A i \in 1 .. n : read[i] \in Word
    BY <1>2, <1>3 DEF Range
  <2>2. read \in [1 .. n -> Word]
    BY <1>2, <2>1
  <2>3. read \in Seq(Word)
    <3> HIDE DEF read, n
    <3> QED
      BY <1>2, <2>2, FunctionIsList
  <2> HIDE DEF read
  <2> QED
    BY <1>3, <1>5, <1>6, <2>3
<1>4. CASE BadText \in Range(read)
  <2> HIDE DEF read
  <2>1. ListOf(w) = BadList
    BY <1>4, <1>6
  <2> QED
    BY <1>5, <2>1
<1> QED
  BY <1>3, <1>4

-----------------------------------------------------------------------------
(* The port.                                                               *)

Ports == (-IntMax - 1) .. IntMax

\* The bytes of a number.
LEMMA NumeralBytes ==
    ASSUME NEW n \in Int
    PROVE  /\ Numeral(n) \in Word
           /\ \A c : Contains(Numeral(n), c) => c \in DIGITS \/ c = MINUS
<1> DEFINE m == IF n < 0 THEN -n ELSE n
           d == Digits(m)
<1>1. m \in Nat
  OBVIOUS
<1>2. d \in Seq(DIGITS)
  <2> HIDE DEF m
  <2> QED
    BY <1>1, DigitsRead
<1>3. d \in Word /\ \A c : Contains(d, c) => c \in DIGITS
  <2>1. DIGITS \subseteq Byte
    BY DEF DIGITS, Byte
  <2> HIDE DEF d
  <2>2. d \in Word
    BY <1>2, <2>1, SeqMonotonic DEF Word
  <2>3. \A i \in DOMAIN d : d[i] \in DIGITS
    BY <1>2
  <2> QED
    BY <2>2, <2>3 DEF Contains
<1>4. Numeral(n) = IF n < 0 THEN <<MINUS>> \o d ELSE d
  BY DEF Numeral, MINUS
<1> HIDE DEF d, m
<1>5. <<MINUS>> \in Word /\ <<MINUS>> \o d \in Word
  BY <1>3, MarksAreBytes, WordsJoin
<1>6. \A c : Contains(<<MINUS>> \o d, c) => c = MINUS \/ Contains(d, c)
  BY <1>3, <1>5, ContainsOfConcat, ContainsOfOne
<1> HIDE DEF Contains
<1>7. CASE n < 0
  <2>1. Numeral(n) = <<MINUS>> \o d
    BY <1>4, <1>7
  <2> QED
    BY <2>1, <1>3, <1>5, <1>6, Zenon
<1>8. CASE ~(n < 0)
  <2>1. Numeral(n) = d
    BY <1>4, <1>8
  <2> QED
    BY <2>1, <1>3, Zenon
<1> QED
  BY <1>7, <1>8

\* A number that is written is read whole.
LEMMA PortIsRead ==
    ASSUME NEW n \in Ports
    PROVE  /\ Numeral(n) # <<>> /\ IsPort(Numeral(n))
           /\ \A u : PortOf(u, Numeral(n)) = n
<1> DEFINE w == Numeral(n)
           solid == {i \in DOMAIN w : w[i] \notin SPACES}
           text == IF solid = {} THEN <<>> ELSE SubSeq(w, Min(solid), Len(w))
           ends == {k \in DOMAIN text : IsNumeral(SubSeq(text, 1, k))}
<1>1. n \in Int /\ IntMax \in Int
  BY IntAssumption DEF Ports
<1>2. w \in Word /\ w # <<>> /\ IsNumeral(w) /\ ValueOf(w) = n
  BY <1>1, NumeralBytes, NumeralRead
<1>3. \A i \in DOMAIN w : w[i] \in DIGITS \/ w[i] = MINUS
  <2>1. \A i \in DOMAIN w : Contains(w, w[i])
    BY DEF Contains
  <2> QED
    BY <1>1, <2>1, NumeralBytes
<1> HIDE DEF w
<1>4. Len(w) \in Nat /\ DOMAIN w = 1 .. Len(w) /\ 1 \in 1 .. Len(w) /\ Len(w) \in 1 .. Len(w)
  <2>1. Len(w) \in Nat \ {0}
    BY <1>2, EmptySeq DEF Word
  <2> QED
    BY <1>2, <2>1 DEF Word
<1>5. solid = 1 .. Len(w)
  <2>1. \A c : c \in DIGITS \/ c = MINUS => c \notin SPACES
    BY DEF DIGITS, MINUS, SPACES
  <2>2. \A i \in DOMAIN w : w[i] \notin SPACES
    BY <1>3, <2>1, Zenon
  <2>3. solid = DOMAIN w
    BY <2>2
  <2> QED
    BY <1>4, <2>3
<1>6. SubSeq(w, 1, Len(w)) = w
  BY <1>2, <1>4 DEF Word
<1>7. Min(1 .. Len(w)) = 1
  <2>1. \A i \in 1 .. Len(w) : 1 <= i
    BY <1>4
  <2>2. \A x \in 1 .. Len(w) : (\A y \in 1 .. Len(w) : x <= y) => x = 1
    BY <1>4
  <2> QED
    BY <1>4, <2>1, <2>2 DEF Min
<1>8. text = w
  <2>1. solid # {}
    BY <1>4, <1>5
  <2>2. text = SubSeq(w, Min(solid), Len(w))
    BY <2>1
  <2> HIDE DEF solid, text
  <2> QED
    BY <1>5, <1>6, <1>7, <2>2
<1> HIDE DEF text
<1>9. ends \subseteq 1 .. Len(w) /\ Len(w) \in ends
  BY <1>2, <1>4, <1>6, <1>8
<1> HIDE DEF ends
<1>10. Max(ends) = Len(w)
  <2>1. \A i \in ends : Len(w) >= i
    BY <1>4, <1>9
  <2>2. ASSUME NEW x \in ends, \A y \in ends : x >= y
        PROVE  x = Len(w)
    <3>1. x >= Len(w) /\ x \in 1 .. Len(w)
      BY <1>9, <2>2
    <3>2. Len(w) \in Nat
      BY <1>4
    <3> QED
      BY <3>1, <3>2
  <2> QED
    BY <1>9, <2>1, <2>2 DEF Max
<1>11. NumberText(w) = w
  <2>1. NumberText(w) = IF ends = {} THEN <<>> ELSE SubSeq(text, 1, Max(ends))
    BY DEF NumberText, ends, text
  <2> QED
    BY <1>6, <1>8, <1>9, <1>10, <2>1
<1>12. Within(w, IntMax)
  BY <1>2 DEF Within, Ports
<1> QED
  BY <1>2, <1>11, <1>12 DEF IsPort, PortOf, w

\* Any number that is read is a port.
LEMMA PortType ==
    ASSUME NEW w, IsPort(w), NEW u
    PROVE  PortOf(u, w) \in Ports \/ PortOf(u, w) = u.port
BY DEF IsPort, PortOf, Within, Ports

-----------------------------------------------------------------------------
(* The parts behind question marks.                                        *)

Marked(list) == FlattenSeq([i \in DOMAIN list |-> <<QUESTION>> \o list[i]])

LEMMA MarkedOfNone == Marked(<<>>) = <<>>
<1>1. [i \in DOMAIN <<>> |-> <<QUESTION>> \o <<>>[i]] = <<>>
  OBVIOUS
<1> QED
  BY <1>1, FlattenOfNone DEF Marked

LEMMA MarkedOfAppend ==
    ASSUME NEW items \in Seq(Word), NEW x \in Word
    PROVE  /\ Marked(items) \in Word
           /\ Marked(Append(items, x)) = Marked(items) \o (<<QUESTION>> \o x)
<1> DEFINE v == Append(items, x)
           T(y) == <<QUESTION>> \o y
           l == [i \in DOMAIN items |-> T(items[i])]
           m == [i \in DOMAIN v |-> T(v[i])]
           n == Len(items)
<1>1. /\ n \in Nat /\ DOMAIN items = 1 .. n /\ \A i \in 1 .. n : items[i] \in Word
      /\ DOMAIN v = 1 .. n + 1 /\ Len(v) = n + 1 /\ v[n + 1] = x
      /\ \A i \in 1 .. n : v[i] = items[i]
  OBVIOUS
<1>2. Marked(items) = FlattenSeq(l) /\ Marked(v) = FlattenSeq(m)
  BY DEF Marked
<1> HIDE DEF v
<1>3. ASSUME NEW y \in Word
      PROVE  T(y) \in Word
  BY WordsJoin, MarksAreBytes
<1>4. T(x) = <<QUESTION>> \o x
  OBVIOUS
<1> HIDE DEF T
<1>5. l \in [1 .. n -> Word] /\ m \in [1 .. n + 1 -> Word]
  <2>1. \A i \in 1 .. n + 1 : i \in 1 .. n \/ i = n + 1
    BY <1>1
  <2>2. \A i \in 1 .. n + 1 : v[i] \in Word
    BY <1>1, <2>1
  <2> QED
    BY <1>1, <1>3, <2>2
<1>6. l \in Seq(Word) /\ m \in Seq(Word) /\ n + 1 \in Nat
  <2>1. n + 1 \in Nat
    BY <1>1
  <2> HIDE DEF l, m, n
  <2> QED
    BY <1>1, <1>5, <2>1, FunctionIsList, Zenon
<1>7. m = Append(l, T(x))
  <2> DEFINE q == Append(l, T(x))
  <2>1. T(x) \in Word
    BY <1>3
  <2>2. Len(l) = n /\ Len(m) = n + 1
    BY <1>1, <1>5, <1>6
  <2>3. /\ q \in Seq(Word) /\ Len(q) = n + 1 /\ q[n + 1] = T(x)
        /\ \A i \in 1 .. n : q[i] = l[i]
    <3> HIDE DEF l
    <3> QED
      BY <1>6, <2>1, <2>2, AppendProperties
  <2>4. \A i \in 1 .. n + 1 : m[i] = q[i]
    <3>1. \A i \in 1 .. n : m[i] = l[i] /\ i \in 1 .. n + 1
      BY <1>1
    <3>2. m[n + 1] = T(x)
      BY <1>1
    <3>3. \A i \in 1 .. n + 1 : i \in 1 .. n \/ i = n + 1
      BY <1>1
    <3> HIDE DEF m, q, l
    <3> QED
      BY <2>3, <3>1, <3>2, <3>3
  <2> HIDE DEF q, m
  <2> QED
    BY <1>6, <2>2, <2>3, <2>4, SeqEqual DEF q
<1>8. /\ FlattenSeq(l) \in Word
      /\ FlattenSeq(Append(l, T(x))) = FlattenSeq(l) \o T(x)
  <2>1. T(x) \in Seq(Byte) /\ l \in Seq(Seq(Byte))
    BY <1>3, <1>6 DEF Word
  <2> HIDE DEF l
  <2> QED
    BY <2>1, FlattenOfAppend DEF Word
<1> QED
  BY <1>2, <1>4, <1>7, <1>8 DEF v

\* Words without a question mark are found again between the marks.
LEMMA MarkedSplits ==
    ASSUME NEW e \in Word, ~Contains(e, QUESTION), NEW items \in Seq(Word),
           \A i \in 1 .. Len(items) : ~Contains(items[i], QUESTION)
    PROVE  LET pieces == Split(e \o Marked(items), QUESTION)
           IN  /\ e \o Marked(items) \in Word
               /\ pieces \in Seq(Word) /\ Len(pieces) = Len(items) + 1 /\ pieces[1] = e
               /\ \A i \in 1 .. Len(items) : pieces[i + 1] = items[i]
<1> DEFINE S(l) == Split(e \o Marked(l), QUESTION)
           Fine(l) == \A i \in 1 .. Len(l) : ~Contains(l[i], QUESTION)
           Splits(l) ==
              /\ S(l) \in Seq(Word) /\ Len(S(l)) = Len(l) + 1 /\ S(l)[1] = e
              /\ \A i \in 1 .. Len(l) : S(l)[i + 1] = l[i]
           Good == {l \in Seq(Word) : Fine(l) => Splits(l)}
<1>1. <<>> \in Good
  <2>1. e \o Marked(<<>>) = e
    BY MarkedOfNone, WordsJoin
  <2>2. S(<<>>) = <<e>>
    BY <2>1, MarksAreBytes, SplitOfPlain
  <2>3. <<e>> \in Seq(Word) /\ Len(<<e>>) = 1 /\ <<e>>[1] = e
    OBVIOUS
  <2>4. Len(<<>>) = 0 /\ <<>> \in Seq(Word)
    BY EmptySeq
  <2>5. \A i \in 1 .. Len(<<>>) : FALSE
    BY <2>4
  <2> HIDE DEF S
  <2>6. Splits(<<>>)
    <3>1. S(<<>>) \in Seq(Word) /\ S(<<>>)[1] = e
      BY <2>2, <2>3
    <3>2. Len(S(<<>>)) = Len(<<>>) + 1
      BY <2>2, <2>3, <2>4
    <3> QED
      BY <2>5, <3>1, <3>2, Zenon
  <2> QED
    BY <2>4, <2>6
<1>2. ASSUME NEW l \in Good, NEW x \in Word
      PROVE  Append(l, x) \in Good
  <2> DEFINE v == Append(l, x)
             n == Len(l)
             j == e \o Marked(l)
  <2>1. v \in Seq(Word) /\ n \in Nat /\ Len(v) = n + 1 /\ v[n + 1] = x
        /\ \A i \in 1 .. n : v[i] = l[i]
    BY AppendProperties
  <2>2. SUFFICES ASSUME Fine(v)
                 PROVE  Splits(v)
    BY <2>1
  <2>3. Fine(l) /\ ~Contains(x, QUESTION)
    <3>1. n + 1 \in 1 .. Len(v) /\ \A i \in 1 .. n : i \in 1 .. Len(v)
      BY <2>1
    <3> HIDE DEF v
    <3> QED
      BY <2>1, <2>2, <3>1
  <2>4. l \in Seq(Word) /\ Splits(l)
    BY <2>3
  <2>5. e \o Marked(v) = j \o (<<QUESTION>> \o x) /\ j \in Word
    <3>1. /\ Marked(l) \in Word /\ <<QUESTION>> \o x \in Word
          /\ Marked(v) = Marked(l) \o (<<QUESTION>> \o x)
      BY <2>4, MarkedOfAppend, WordsJoin, MarksAreBytes
    <3> HIDE DEF v
    <3> DEFINE a == Marked(l)
               b == <<QUESTION>> \o x
    <3> HIDE DEF a, b
    <3>2. a \in Word /\ b \in Word /\ Marked(v) = a \o b
      BY <3>1 DEF a, b
    <3>3. e \o (a \o b) = (e \o a) \o b /\ e \o a \in Word
      BY <3>2, WordsJoin
    <3> QED
      BY <3>2, <3>3 DEF a, b
  <2>6. Ends(S(v), S(l), x)
    <3> HIDE DEF v, j
    <3>1. QUESTION \in Byte
      BY MarksAreBytes
    <3>2. Ends(Split(j \o (<<QUESTION>> \o x), QUESTION), Split(j, QUESTION), x)
      BY <2>3, <2>5, <3>1, SplitAtMark, Zenon
    <3> QED
      BY <2>5, <3>2 DEF j
  <2> HIDE DEF S, j, v
  <2> DEFINE s == S(l)
             t == Append(s, x)
  <2>7. S(v) = t
    BY <2>6 DEF Ends
  <2>8. s \in Seq(Word) /\ Len(s) = n + 1 /\ s[1] = e /\ \A i \in 1 .. n : s[i + 1] = l[i]
    BY <2>4
  <2> HIDE DEF s
  <2>9. /\ t \in Seq(Word) /\ Len(t) = (n + 1) + 1 /\ t[(n + 1) + 1] = x
        /\ \A i \in 1 .. n + 1 : t[i] = s[i]
    <3> HIDE DEF n
    <3> QED
      BY <2>8, AppendProperties
  <2> HIDE DEF t
  <2>10. \A i \in 1 .. n + 1 : i \in 1 .. n \/ i = n + 1
    BY <2>1
  <2>11. 1 \in 1 .. n + 1 /\ \A i \in 1 .. n : i + 1 \in 1 .. n + 1
    BY <2>1
  <2>12. \A i \in 1 .. n + 1 : t[i + 1] = v[i]
    <3> HIDE DEF n
    <3> QED
      BY <2>1, <2>8, <2>9, <2>10, <2>11
  <2> QED
    BY <2>1, <2>7, <2>8, <2>9, <2>11, <2>12
<1>3. Good \in SUBSET Seq(Word)
  OBVIOUS
<1> HIDE DEF Good
<1>4. Good = Seq(Word)
  BY <1>1, <1>2, <1>3, ByAppending
<1>5. e \o Marked(items) \in Word
  <2>1. Marked(items) \in Word
    BY MarkedOfAppend
  <2> QED
    BY <2>1, WordsJoin
<1> QED
  BY <1>4, <1>5 DEF Good

UrlType ==
    [scheme : Schemes, host : Word, port : Ports, dn : Word, attrs : Seq(Word), scope : 0..2,
     filter : Word, extensions : Seq(Word), text : Word, regenerate : BOOLEAN]

\* The parts that are spelled, none of which has a question mark.
LEMMA PartTextsType ==
    ASSUME NEW v \in UrlType
    PROVE  /\ PartTexts(v) \in Seq(Word) /\ Len(PartTexts(v)) = 4
           /\ \A i \in 1 .. 4 : ~Contains(PartTexts(v)[i], QUESTION)
           /\ Encode(v.dn, {}) \in Word /\ ~Contains(Encode(v.dn, {}), QUESTION)
<1>0. \A flags : Escapes(QUESTION, flags)
  BY DEF Escapes, PLAIN, DIGITS, CAPITALS, LETTERS, MARKS, OPEN, CLOSE, MINUS, QUESTION,
         COMMAS, COLON, SLASH
<1>1. QUESTION \notin EscapeBytes /\ QUESTION # COMMAS
  BY DEF EscapeBytes, PERCENT, DIGITS, QUESTION, COMMAS
<1>2. v.dn \in Word /\ v.attrs \in Seq(Word) /\ v.filter \in Word /\ v.extensions \in Seq(Word)
  BY DEF UrlType
<1> DEFINE a == Joined(v.attrs, {})
           s == CASE v.scope = 1 -> ScopeNames.one
                  [] v.scope = 2 -> ScopeNames.sub
                  [] OTHER -> <<>>
           f == Encode(v.filter, {})
           x == Joined(v.extensions, {"comma"})
<1>3. a \in Word /\ ~Contains(a, QUESTION)
  BY <1>0, <1>1, <1>2, JoinedHas
<1>4. x \in Word /\ ~Contains(x, QUESTION)
  BY <1>0, <1>1, <1>2, JoinedHas
<1>5. f \in Word /\ ~Contains(f, QUESTION)
  BY <1>0, <1>1, <1>2, EncodeReads
<1>6. s \in Word /\ ~Contains(s, QUESTION)
  <2>1. s \in {<<111>>, <<115>>, <<>>}
    BY DEF ScopeNames
  <2>2. /\ 111 \in Byte /\ 115 \in Byte /\ 111 # QUESTION /\ 115 # QUESTION
    BY DEF Byte, QUESTION
  <2> HIDE DEF s
  <2> QED
    BY <2>1, <2>2, WordsJoin, ContainsOfOne, ContainsOfNone
<1>7. Encode(v.dn, {}) \in Word /\ ~Contains(Encode(v.dn, {}), QUESTION)
  BY <1>0, <1>1, <1>2, EncodeReads
<1>8. PartTexts(v) = <<a, s, f, x>>
  BY DEF PartTexts
<1> HIDE DEF a, s, f, x
<1>9. <<a, s, f, x>> \in Seq(Word) /\ Len(<<a, s, f, x>>) = 4
  BY <1>3, <1>4, <1>5, <1>6
<1>10. \A i \in 1 .. 4 : ~Contains(<<a, s, f, x>>[i], QUESTION)
  <2>1. \A i \in 1 .. 4 : i = 1 \/ i = 2 \/ i = 3 \/ i = 4
    OBVIOUS
  <2> QED
    BY <2>1, <1>3, <1>4, <1>5, <1>6
<1> QED
  BY <1>7, <1>8, <1>9, <1>10

\* The last part that is there.
LEMMA LastIsThere ==
    ASSUME NEW v \in UrlType
    PROVE  /\ LastPart(v) \in 0 .. 4
           /\ v.attrs # <<>> => LastPart(v) >= 1
           /\ v.scope # 0 => LastPart(v) >= 2
           /\ v.filter # <<>> => LastPart(v) >= 3
           /\ v.extensions # <<>> <=> LastPart(v) = 4
<1> DEFINE there == <<v.attrs # <<>>, v.scope \in {1, 2}, v.filter # <<>>, v.extensions # <<>>>>
           all == {0} \union {i \in 1..4 : there[i]}
<1>1. /\ 1 \in all <=> v.attrs # <<>>
      /\ 2 \in all <=> v.scope # 0
      /\ 3 \in all <=> v.filter # <<>>
      /\ 4 \in all <=> v.extensions # <<>>
      /\ all \subseteq 0 .. 4 /\ 0 \in all
  <2>1. v.scope \in {1, 2} <=> v.scope # 0
    BY DEF UrlType
  <2>2. /\ there[1] = (v.attrs # <<>>) /\ there[2] = (v.scope \in {1, 2})
        /\ there[3] = (v.filter # <<>>) /\ there[4] = (v.extensions # <<>>)
    OBVIOUS
  <2> HIDE DEF there
  <2>3. /\ 1 \in all <=> there[1]
        /\ 2 \in all <=> there[2]
        /\ 3 \in all <=> there[3]
        /\ 4 \in all <=> there[4]
        /\ all \subseteq 0 .. 4 /\ 0 \in all
    OBVIOUS
  <2> HIDE DEF all
  <2> QED
    BY <2>1, <2>2, <2>3, Zenon
<1>2. LastPart(v) = Max(all)
  BY DEF LastPart
<1> HIDE DEF all
<1>3. Max(all) \in all /\ \A i \in all : Max(all) >= i
  <2>1. \E m \in all : \A i \in all : m >= i
    BY <1>1
  <2> QED
    BY <2>1 DEF Max
<1> DEFINE m == Max(all)
<1>4. m \in all /\ \A i \in all : m >= i
  BY <1>3
<1> HIDE DEF m
<1>5. /\ m \in 0 .. 4
      /\ 1 \in all => m >= 1
      /\ 2 \in all => m >= 2
      /\ 3 \in all => m >= 3
      /\ 4 \in all <=> m = 4
  <2>1. m \in 0 .. 4 /\ \A i \in all : i \in 0 .. 4 /\ i <= m
    BY <1>1, <1>4
  <2>2. 4 \in all => m = 4
    BY <2>1
  <2>3. m = 4 => 4 \in all
    BY <1>4
  <2> QED
    BY <1>4, <2>1, <2>2, <2>3
<1> QED
  BY <1>1, <1>2, <1>5, Zenon DEF m

\* The rest is split into the name and the parts.
LEMMA RestSplits ==
    ASSUME NEW v \in UrlType
    PROVE  /\ RestText(v) \in Word
           /\ Split(RestText(v), QUESTION) \in Seq(Word)
           /\ Len(Split(RestText(v), QUESTION)) = LastPart(v) + 1
           /\ Split(RestText(v), QUESTION)[1] = Encode(v.dn, {})
           /\ \A i \in 1 .. LastPart(v) :
                 Split(RestText(v), QUESTION)[i + 1] = PartTexts(v)[i]
<1> DEFINE last == LastPart(v)
           parts == PartTexts(v)
           items == [i \in 1 .. last |-> parts[i]]
           e == Encode(v.dn, {})
<1>1. /\ last \in 0 .. 4 /\ parts \in Seq(Word) /\ Len(parts) = 4
      /\ \A i \in 1 .. 4 : parts[i] \in Word /\ ~Contains(parts[i], QUESTION)
      /\ e \in Word /\ ~Contains(e, QUESTION)
  BY LastIsThere, PartTextsType
<1>2. RestText(v) = e \o FlattenSeq([i \in 1 .. last |-> <<QUESTION>> \o parts[i]])
  BY DEF RestText
<1> HIDE DEF last, parts, e
<1>3. \A i \in 1 .. last : i \in 1 .. 4
  BY <1>1
<1>4. items \in [1 .. last -> Word] /\ last \in Nat
  BY <1>1, <1>3
<1>5. items \in Seq(Word) /\ Len(items) = last /\ DOMAIN items = 1 .. last
      /\ \A i \in 1 .. last : items[i] = parts[i]
  <2>1. items \in Seq(Word)
    <3> HIDE DEF items
    <3> QED
      BY <1>4, FunctionIsList
  <2> QED
    BY <1>4, <2>1
<1>6. [i \in 1 .. last |-> <<QUESTION>> \o parts[i]]
          = [i \in DOMAIN items |-> <<QUESTION>> \o items[i]]
  BY <1>5
<1> HIDE DEF items
<1>7. RestText(v) = e \o Marked(items)
  BY <1>2, <1>6 DEF Marked
<1>8. \A i \in 1 .. Len(items) : ~Contains(items[i], QUESTION)
  BY <1>1, <1>3, <1>5
<1>9. LET pieces == Split(e \o Marked(items), QUESTION)
      IN  /\ e \o Marked(items) \in Word
          /\ pieces \in Seq(Word) /\ Len(pieces) = Len(items) + 1 /\ pieces[1] = e
          /\ \A i \in 1 .. Len(items) : pieces[i + 1] = items[i]
  BY <1>1, <1>5, <1>8, MarkedSplits
<1> QED
  BY <1>5, <1>7, <1>9 DEF last, parts, e

\* The names of scopes are read.
LEMMA ScopesAreRead ==
    /\ Decode(<<>>) = <<>> /\ Decode(ScopeNames.one) = ScopeNames.one
    /\ Decode(ScopeNames.sub) = ScopeNames.sub
    /\ IsScope(<<>>) /\ IsScope(ScopeNames.one) /\ IsScope(ScopeNames.sub)
    /\ ScopeOf(<<>>) = 0 /\ ScopeOf(ScopeNames.one) = 1 /\ ScopeOf(ScopeNames.sub) = 2
<1>1. ASSUME NEW c \in Byte, c # PERCENT
      PROVE  Decode(<<c>>) = <<c>>
  <2>1. <<>> \in Word /\ Append(<<>>, c) = <<c>>
    BY WordsJoin
  <2>2. Reads(Append(<<>>, c), Append(<<>>, c), <<>>)
    BY <1>1, <2>1, ReadsOfNone, ReadsOfAppend
  <2>3. Reads(<<c>>, <<c>>, <<>>)
    BY <2>1, <2>2
  <2> QED
    BY <2>3, DecodeReads
<1>2. Decode(<<>>) = <<>>
  BY ReadsOfNone, DecodeReads
<1>3. 111 \in Byte /\ 115 \in Byte /\ 111 # PERCENT /\ 115 # PERCENT
  BY DEF Byte, PERCENT
<1>4. ScopeNames.one = <<111>> /\ ScopeNames.sub = <<115>>
  BY DEF ScopeNames
<1>5. <<111>> # <<115>> /\ <<111>> # <<>> /\ <<115>> # <<>>
  OBVIOUS
<1>6. /\ IsScope(<<>>) /\ IsScope(ScopeNames.one) /\ IsScope(ScopeNames.sub)
      /\ ScopeOf(<<>>) = 0 /\ ScopeOf(ScopeNames.one) = 1 /\ ScopeOf(ScopeNames.sub) = 2
  BY <1>4, <1>5 DEF IsScope, ScopeOf
<1>7. Decode(<<111>>) = <<111>> /\ Decode(<<115>>) = <<115>>
  BY <1>1, <1>3
<1> QED
  BY <1>2, <1>4, <1>6, <1>7

\* What the parts are read as.
WithPartsOf(u, v) == [u EXCEPT !.dn = v.dn, !.attrs = v.attrs, !.scope = v.scope,
                               !.filter = v.filter, !.extensions = v.extensions]

LEMMA PartsAreRead ==
    ASSUME NEW v \in UrlType,
           v.attrs # << <<>> >>,
           \A i \in DOMAIN v.attrs : ~Contains(v.attrs[i], COMMAS),
           NEW u \in UrlType, u.dn = <<>>, u.attrs = <<>>, u.scope = 0, u.filter = <<>>,
           u.extensions = <<>>
    PROVE  WithParts(u, Split(RestText(v), QUESTION)) = WithPartsOf(u, v)
<1> DEFINE pieces == Split(RestText(v), QUESTION)
           given(i) == i \in DOMAIN pieces
           plain(i) == IF given(i) THEN Decode(pieces[i]) ELSE <<>>
           attrs == IF given(2) /\ pieces[2] # <<>> THEN ListOf(pieces[2]) ELSE <<>>
           extensions == IF given(5) THEN ListOf(pieces[5]) ELSE <<>>
           last == LastPart(v)
<1>1. /\ pieces \in Seq(Word) /\ Len(pieces) = last + 1 /\ pieces[1] = Encode(v.dn, {})
      /\ \A i \in 1 .. last : pieces[i + 1] = PartTexts(v)[i]
  BY RestSplits
<1>2. /\ last \in 0 .. 4
      /\ v.attrs # <<>> => last >= 1
      /\ v.scope # 0 => last >= 2
      /\ v.filter # <<>> => last >= 3
      /\ v.extensions # <<>> <=> last = 4
  BY LastIsThere
<1>3. /\ PartTexts(v)[1] = Joined(v.attrs, {})
      /\ PartTexts(v)[2] = CASE v.scope = 1 -> ScopeNames.one
                             [] v.scope = 2 -> ScopeNames.sub
                             [] OTHER -> <<>>
      /\ PartTexts(v)[3] = Encode(v.filter, {})
      /\ PartTexts(v)[4] = Joined(v.extensions, {"comma"})
  BY DEF PartTexts
<1>4. /\ v.dn \in Word /\ v.attrs \in Seq(Word) /\ v.filter \in Word /\ v.scope \in 0 .. 2
      /\ v.extensions \in Seq(Word)
  BY DEF UrlType
<1>5. \A w \in Word : Decode(Encode(w, {})) = w
  BY EncodeReads, DecodeReads
<1> HIDE DEF last
<1>6. /\ given(1) /\ (given(2) <=> last >= 1) /\ (given(3) <=> last >= 2)
      /\ (given(4) <=> last >= 3) /\ (given(5) <=> last = 4)
  <2> HIDE DEF pieces
  <2>1. DOMAIN pieces = 1 .. last + 1
    BY <1>1
  <2> QED
    BY <1>2, <2>1
<1>7. /\ last >= 1 => pieces[2] = PartTexts(v)[1]
      /\ last >= 2 => pieces[3] = PartTexts(v)[2]
      /\ last >= 3 => pieces[4] = PartTexts(v)[3]
      /\ last = 4 => pieces[5] = PartTexts(v)[4]
  <2> HIDE DEF pieces
  <2>1. \A i \in 1 .. 4 : last >= i => i \in 1 .. last
    BY <1>2
  <2>2. last = 4 => last >= 4
    OBVIOUS
  <2>3. 1 + 1 = 2 /\ 2 + 1 = 3 /\ 3 + 1 = 4 /\ 4 + 1 = 5
    OBVIOUS
  <2> QED
    BY <1>1, <2>1, <2>2, <2>3
<1> HIDE DEF pieces, given
<1>8. plain(1) = v.dn
  BY <1>1, <1>4, <1>5, <1>6
<1>9. attrs = v.attrs
  <2>1. CASE v.attrs = <<>>
    <3>1. Joined(<<>>, {}) = <<>>
      BY JoinedOfNone
    <3> QED
      BY <1>3, <1>6, <1>7, <2>1, <3>1
  <2>2. CASE v.attrs # <<>>
    <3>1. given(2) /\ pieces[2] = Joined(v.attrs, {})
      BY <1>2, <1>3, <1>6, <1>7, <2>2
    <3>2. Joined(v.attrs, {}) # <<>>
      BY <1>4, <2>2, JoinedHas
    <3>3. DOMAIN v.attrs = 1 .. Len(v.attrs)
      BY <1>4
    <3>4. ListOf(Joined(v.attrs, {})) = v.attrs
      BY <1>4, <2>2, <3>3, ListIsRead
    <3> QED
      BY <3>1, <3>2, <3>4
  <2> QED
    BY <2>1, <2>2
<1>10. IsScope(plain(3)) /\ plain(3) \in Word
       /\ (IF given(3) THEN ScopeOf(plain(3)) ELSE u.scope) = v.scope
  <2>0. ScopeNames.one \in Word /\ ScopeNames.sub \in Word /\ <<>> \in Word
    <3>1. 111 \in Byte /\ 115 \in Byte
      BY DEF Byte
    <3>2. ScopeNames.one = <<111>> /\ ScopeNames.sub = <<115>>
      BY DEF ScopeNames
    <3> QED
      BY <3>1, <3>2, WordsJoin
  <2>1. CASE v.scope = 0
    <3>1. plain(3) = <<>>
      BY <1>3, <1>6, <1>7, <2>1, ScopesAreRead
    <3> QED
      BY <2>0, <2>1, <3>1, ScopesAreRead
  <2>2. CASE v.scope = 1
    <3>1. plain(3) = ScopeNames.one /\ given(3)
      BY <1>2, <1>3, <1>6, <1>7, <2>2, ScopesAreRead
    <3> QED
      BY <2>0, <2>2, <3>1, ScopesAreRead
  <2>3. CASE v.scope = 2
    <3>1. plain(3) = ScopeNames.sub /\ given(3)
      BY <1>2, <1>3, <1>6, <1>7, <2>3, ScopesAreRead
    <3> QED
      BY <2>0, <2>3, <3>1, ScopesAreRead
  <2> QED
    BY <1>4, <2>1, <2>2, <2>3
<1>11. plain(4) = v.filter
  <2>1. CASE v.filter = <<>>
    <3>1. Encode(<<>>, {}) = <<>>
      BY EncodeOfNone
    <3> QED
      BY <1>3, <1>6, <1>7, <2>1, <3>1, ScopesAreRead
  <2>2. CASE v.filter # <<>>
    BY <1>2, <1>3, <1>4, <1>5, <1>6, <1>7, <2>2
  <2> QED
    BY <2>1, <2>2
<1>12. extensions = v.extensions
  <2>1. CASE v.extensions = <<>>
    BY <1>2, <1>6, <2>1
  <2>2. CASE v.extensions # <<>>
    <3>1. given(5) /\ pieces[5] = Joined(v.extensions, {"comma"})
      BY <1>2, <1>3, <1>6, <1>7, <2>2
    <3>2. Escapes(COMMAS, {"comma"})
      BY DEF Escapes
    <3>3. ListOf(Joined(v.extensions, {"comma"})) = v.extensions
      BY <1>4, <2>2, <3>2, ListIsRead
    <3> QED
      BY <3>1, <3>3
  <2> QED
    BY <2>1, <2>2
<1>13. BadText \notin {plain(1), plain(3), plain(4)}
  <2> HIDE DEF plain
  <2> QED
    BY <1>4, <1>8, <1>10, <1>11, BadIsNoWord
<1>14. BadList \notin {attrs, extensions}
  <2> HIDE DEF attrs, extensions
  <2>1. BadList \notin Seq(Word)
    BY ListType, WordsJoin
  <2> QED
    BY <1>4, <1>9, <1>12, <2>1
<1>15. WithParts(u, pieces) =
          IF \/ BadText \in {plain(1), plain(3), plain(4)}
             \/ BadList \in {attrs, extensions}
             \/ ~IsScope(plain(3))
          THEN Fails
          ELSE [u EXCEPT !.dn = @ \o plain(1), !.attrs = @ \o attrs,
                         !.scope = IF given(3) THEN ScopeOf(plain(3)) ELSE @,
                         !.filter = @ \o plain(4), !.extensions = @ \o extensions]
  BY DEF WithParts, given
<1> HIDE DEF plain, attrs, extensions
<1>16. WithParts(u, pieces) =
          [u EXCEPT !.dn = u.dn \o plain(1), !.attrs = u.attrs \o attrs,
                    !.scope = IF given(3) THEN ScopeOf(plain(3)) ELSE u.scope,
                    !.filter = u.filter \o plain(4),
                    !.extensions = u.extensions \o extensions]
  BY <1>10, <1>13, <1>14, <1>15
<1>17. /\ \A w \in Word : <<>> \o w = w
       /\ \A l \in Seq(Word) : <<>> \o l = l
  OBVIOUS
<1>18. /\ u.dn \o plain(1) = v.dn /\ u.attrs \o attrs = v.attrs
       /\ u.filter \o plain(4) = v.filter /\ u.extensions \o extensions = v.extensions
  BY <1>4, <1>8, <1>9, <1>11, <1>12, <1>17
<1> QED
  BY <1>10, <1>16, <1>18 DEF WithPartsOf, pieces

-----------------------------------------------------------------------------
(* The host, and all that is spelled.                                      *)

\* A byte that follows a word without it is found there.
LEMMA FindAfter ==
    ASSUME NEW v \in Word, NEW w \in Word, NEW c \in Byte, NEW from \in Nat \ {0},
           from <= Len(v) + 1, \A j \in from .. Len(v) : v[j] # c
    PROVE  /\ v \o (<<c>> \o w) \in Word
           /\ Find(v \o (<<c>> \o w), c, from) = Len(v) + 1
<1> DEFINE x == <<c>> \o w
           all == v \o x
<1>1. x \in Word /\ Len(x) = 1 + Len(w) /\ x[1] = c /\ Len(w) \in Nat
  <2>1. <<c>> \in Word /\ Len(<<c>>) = 1 /\ <<c>>[1] = c
    BY WordsJoin
  <2>2. 1 \in 1 .. Len(<<c>>)
    BY <2>1
  <2> HIDE DEF x
  <2> QED
    BY <2>1, <2>2, ConcatPlaces DEF x
<1> HIDE DEF x
<1>2. /\ all \in Word /\ Len(all) = Len(v) + Len(x) /\ Len(v) \in Nat
      /\ \A j \in 1 .. Len(v) : all[j] = v[j]
      /\ \A j \in 1 .. Len(x) : all[Len(v) + j] = x[j]
  BY <1>1, ConcatPlaces
<1> HIDE DEF all
<1>3. Len(v) + 1 \in from .. Len(all) + 1 /\ Len(v) + 1 <= Len(all)
  BY <1>1, <1>2
<1>4. all[Len(v) + 1] = c
  BY <1>1, <1>2
<1>5. \A j \in from .. (Len(v) + 1) - 1 : all[j] # c
  <2>1. \A j \in from .. (Len(v) + 1) - 1 : j \in from .. Len(v) /\ j \in 1 .. Len(v)
    BY <1>2
  <2> QED
    BY <1>2, <2>1
<1>6. Find(all, c, from) = Len(v) + 1
  <2> DEFINE k == Len(v) + 1
  <2>1. /\ k \in from .. Len(all) + 1 /\ (k <= Len(all) => all[k] = c)
        /\ \A j \in from .. k - 1 : all[j] # c
    BY <1>3, <1>4, <1>5
  <2> HIDE DEF k
  <2>2. Find(all, c, from) = k
    BY <1>2, <2>1, FindIs
  <2> QED
    BY <2>2 DEF k
<1> QED
  BY <1>2, <1>6 DEF all, x

LEMMA FindNowhere ==
    ASSUME NEW w \in Word, NEW c, ~Contains(w, c)
    PROVE  Find(w, c, 1) = Len(w) + 1
<1>1. Len(w) \in Nat /\ \A j \in 1 .. Len(w) : w[j] # c
  <2>1. Len(w) \in Nat /\ DOMAIN w = 1 .. Len(w)
    BY DEF Word
  <2> QED
    BY <2>1, ContainsPlace
<1>2. Len(w) + 1 \in 1 .. Len(w) + 1 /\ \A j \in 1 .. (Len(w) + 1) - 1 : w[j] # c
      /\ ~(Len(w) + 1 <= Len(w))
  BY <1>1
<1> QED
  BY <1>2, FindIs

\* The marks of the host and the port are no part of an escape.
LEMMA MarksApart ==
    /\ {SLASH, COLON, OPEN, CLOSE} \intersect EscapeBytes = {}
    /\ {SLASH, COLON, OPEN, CLOSE} \intersect (DIGITS \union {MINUS}) = {}
    /\ SLASH # COLON /\ SLASH # OPEN /\ SLASH # CLOSE /\ COLON # OPEN
    /\ Escapes(SLASH, {"slash"}) /\ Escapes(COLON, {"slash"})
BY DEF EscapeBytes, DIGITS, PERCENT, MINUS, SLASH, COLON, OPEN, CLOSE, Escapes

\* The port as it is written.
LEMMA PortTextHas ==
    ASSUME NEW v \in UrlType
    PROVE  /\ PortText(v) \in Word /\ ~Contains(PortText(v), SLASH)
           /\ v.port = 0 => PortText(v) = <<>>
           /\ v.port # 0 => PortText(v) = <<COLON>> \o Numeral(v.port)
           /\ Numeral(v.port) \in Word /\ Numeral(v.port) # <<>>
<1>1. v.port \in Ports /\ v.port \in Int
  BY IntAssumption DEF UrlType, Ports
<1>2. Numeral(v.port) \in Word /\ ~Contains(Numeral(v.port), SLASH) /\ Numeral(v.port) # <<>>
  BY <1>1, NumeralBytes, MarksApart, PortIsRead
<1>3. <<COLON>> \in Word /\ ~Contains(<<COLON>>, SLASH)
  BY MarksAreBytes, MarksApart, WordsJoin, ContainsOfOne
<1>4. <<COLON>> \o Numeral(v.port) \in Word /\ ~Contains(<<COLON>> \o Numeral(v.port), SLASH)
  BY <1>2, <1>3, WordsJoin, ContainsOfConcat
<1>5. <<>> \in Word /\ ~Contains(<<>>, SLASH)
  BY WordsJoin, ContainsOfNone
<1>6. PortText(v) = IF v.port = 0 THEN <<>> ELSE <<COLON>> \o Numeral(v.port)
  BY DEF PortText
<1>7. CASE v.port = 0
  BY <1>2, <1>5, <1>6, <1>7
<1>8. CASE v.port # 0
  <2>1. PortText(v) = <<COLON>> \o Numeral(v.port)
    BY <1>6, <1>8
  <2> QED
    BY <1>2, <1>4, <1>8, <2>1, Zenon
<1> QED
  BY <1>7, <1>8

\* The host as it is written.
Braced(e) == <<OPEN>> \o (e \o <<CLOSE>>)

LEMMA HostTextHas ==
    ASSUME NEW v \in UrlType, Spellable(v)
    PROVE  /\ HostText(v) \in Word /\ ~Contains(HostText(v), SLASH)
           /\ HostText(v) = <<>> <=> v.host = <<>>
           /\ Contains(v.host, COLON) =>
                 \E e \in Word : /\ HostText(v) = Braced(e) /\ Decode(e) = v.host
                                 /\ ~Contains(e, CLOSE)
           /\ ~Contains(v.host, COLON) =>
                 /\ Decode(HostText(v)) = v.host /\ ~Contains(HostText(v), COLON)
                 /\ ~Starts(HostText(v), OPEN)
<1>1. v.host \in Word
  BY DEF UrlType
<1>2. CASE Contains(v.host, COLON)
  <2> DEFINE e == Encode(v.host, {})
  <2>1. ~Contains(v.host, SLASH) /\ ~Contains(v.host, CLOSE)
    BY <1>2 DEF Spellable
  <2>2. /\ e \in Word /\ Decode(e) = v.host /\ ~Contains(e, SLASH) /\ ~Contains(e, CLOSE)
    BY <1>1, <2>1, EncodeReads, DecodeReads, MarksApart
  <2>3. HostText(v) = (<<OPEN>> \o e) \o <<CLOSE>>
    BY <1>2 DEF HostText
  <2> HIDE DEF e
  <2>4. /\ <<OPEN>> \in Word /\ <<CLOSE>> \in Word
        /\ ~Contains(<<OPEN>>, SLASH) /\ ~Contains(<<CLOSE>>, SLASH)
    BY MarksAreBytes, MarksApart, WordsJoin, ContainsOfOne
  <2>5. e \o <<CLOSE>> \in Word /\ ~Contains(e \o <<CLOSE>>, SLASH)
    BY <2>2, <2>4, WordsJoin, ContainsOfConcat
  <2>6. Braced(e) \in Word /\ ~Contains(Braced(e), SLASH)
    BY <2>4, <2>5, WordsJoin, ContainsOfConcat DEF Braced
  <2>7. HostText(v) = Braced(e)
    <3> DEFINE o == <<OPEN>>
               c == <<CLOSE>>
    <3>1. o \in Word /\ c \in Word /\ HostText(v) = (o \o e) \o c
      BY <2>3, <2>4
    <3> HIDE DEF o, c
    <3>2. (o \o e) \o c = o \o (e \o c)
      BY <2>2, <3>1, WordsJoin
    <3> QED
      BY <3>1, <3>2 DEF Braced, o, c
  <2>8. Braced(e) # <<>>
    <3>1. Contains(Braced(e), OPEN)
      BY <2>4, <2>5, ContainsOfConcat, ContainsOfOne DEF Braced
    <3> QED
      BY <3>1, ContainsOfNone
  <2>9. v.host # <<>>
    BY <1>2, ContainsOfNone
  <2> QED
    BY <1>2, <2>2, <2>6, <2>7, <2>8, <2>9
<1>3. CASE ~Contains(v.host, COLON)
  <2> DEFINE e == Encode(v.host, {"slash"})
  <2>1. ~Starts(v.host, OPEN)
    BY <1>3 DEF Spellable
  <2>2. /\ e \in Word /\ Decode(e) = v.host /\ ~Contains(e, SLASH) /\ ~Contains(e, COLON)
        /\ ~Starts(e, OPEN) /\ (v.host # <<>> => e # <<>>) /\ (v.host = <<>> => e = <<>>)
    BY <1>1, <1>3, <2>1, EncodeReads, EncodeOfNone, DecodeReads, MarksApart
  <2>3. HostText(v) = e
    BY <1>3 DEF HostText
  <2> QED
    BY <1>3, <2>2, <2>3
<1> QED
  BY <1>2, <1>3

\* What follows the two slashes.
Behind(v) == HostText(v) \o (PortText(v) \o (<<SLASH>> \o RestText(v)))

\* The place of the slash behind host and port.
LEMMA SlashIsFound ==
    ASSUME NEW v \in UrlType, Spellable(v)
    PROVE  /\ Behind(v) \in Word
           /\ Find(Behind(v), SLASH, 1) = (Len(HostText(v)) + Len(PortText(v))) + 1
           /\ Len(HostText(v)) \in Nat /\ Len(PortText(v)) \in Nat
           /\ Len(Behind(v)) = ((Len(HostText(v)) + Len(PortText(v))) + 1) + Len(RestText(v))
           /\ Len(RestText(v)) \in Nat
           /\ Part(Behind(v), ((Len(HostText(v)) + Len(PortText(v))) + 1) + 1,
                   Len(Behind(v)) + 1) = RestText(v)
           /\ Starts(Behind(v), SLASH) <=> HostText(v) \o PortText(v) = <<>>
<1> DEFINE H == HostText(v)
           P == PortText(v)
           R == RestText(v)
           S == <<SLASH>>
           hp == H \o P
<1>1. /\ H \in Word /\ P \in Word /\ R \in Word /\ S \in Word /\ Len(S) = 1 /\ S[1] = SLASH
      /\ ~Contains(H, SLASH) /\ ~Contains(P, SLASH) /\ SLASH \in Byte
  BY HostTextHas, PortTextHas, RestSplits, MarksAreBytes, WordsJoin
<1>2. Behind(v) = H \o (P \o (S \o R))
  BY DEF Behind
<1> HIDE DEF H, P, R
<1>3. /\ hp \in Word /\ ~Contains(hp, SLASH)
      /\ Len(hp) = Len(H) + Len(P) /\ Len(H) \in Nat /\ Len(P) \in Nat
  BY <1>1, ConcatPlaces, ContainsOfConcat
<1>4. Behind(v) = hp \o (S \o R)
  <2> HIDE DEF S
  <2>1. S \o R \in Word
    BY <1>1, WordsJoin, Zenon
  <2>2. hp \o (S \o R) = H \o (P \o (S \o R))
    BY <1>1, <2>1, WordsJoin
  <2> QED
    BY <1>2, <2>2
<1> HIDE DEF hp
<1>5. \A j \in 1 .. Len(hp) : hp[j] # SLASH
  BY <1>3, ContainsPlace
<1>6. Behind(v) \in Word /\ Find(Behind(v), SLASH, 1) = Len(hp) + 1
  <2>1. 1 \in Nat \ {0} /\ 1 <= Len(hp) + 1
    BY <1>3
  <2>2. /\ hp \o (<<SLASH>> \o R) \in Word
        /\ Find(hp \o (<<SLASH>> \o R), SLASH, 1) = Len(hp) + 1
    BY <1>1, <1>3, <1>5, <2>1, FindAfter
  <2> QED
    BY <1>4, <2>2
<1> HIDE DEF S
<1>7. Len(S \o R) = 1 + Len(R) /\ S \o R \in Word /\ Len(R) \in Nat
  <2>1. Len(S \o R) = Len(S) + Len(R) /\ S \o R \in Word /\ Len(R) \in Nat
    BY <1>1, LengthsJoin, WordsJoin, Zenon
  <2> QED
    BY <1>1, <2>1
<1>8. Len(Behind(v)) = (Len(hp) + 1) + Len(R)
  <2>1. Len(hp \o (S \o R)) = Len(hp) + Len(S \o R)
    BY <1>3, <1>7, ConcatPlaces
  <2> QED
    BY <1>3, <1>4, <1>7, <2>1
<1>9. Part(Behind(v), (Len(hp) + 1) + 1, Len(Behind(v)) + 1) = R
  <2> DEFINE a == hp \o S
  <2>1. a \in Word /\ Len(a) = Len(hp) + 1 /\ <<>> \in Word /\ R \o <<>> = R
    <3>1. Len(a) = Len(hp) + Len(S) /\ a \in Word
      BY <1>1, <1>3, LengthsJoin, WordsJoin, Zenon
    <3>2. <<>> \in Word /\ R \o <<>> = R
      BY <1>1, WordsJoin
    <3> HIDE DEF a
    <3> QED
      BY <1>1, <3>1, <3>2
  <2>2. Behind(v) = a \o R
    BY <1>1, <1>3, <1>4, WordsJoin
  <2> HIDE DEF a
  <2>3. Part(a \o (R \o <<>>), Len(a) + 1, (Len(a) + Len(R)) + 1) = R
    BY <1>1, <2>1, PartOfConcat
  <2>4. Len(Behind(v)) = Len(a) + Len(R)
    BY <1>8, <2>1
  <2> QED
    BY <2>1, <2>2, <2>3, <2>4
<1>10. Starts(Behind(v), SLASH) <=> hp = <<>>
  <2>1. CASE hp = <<>>
    <3>1. Behind(v) = S \o R
      BY <1>4, <1>7, <2>1, WordsJoin
    <3>2. 1 \in 1 .. Len(S)
      BY <1>1
    <3>3. (S \o R)[1] = SLASH /\ S \o R # <<>>
      <4>1. (S \o R)[1] = S[1]
        BY <1>1, <3>2, ConcatPlaces
      <4>2. Len(S \o R) # 0
        BY <1>7
      <4> QED
        BY <1>1, <4>1, <4>2, EmptySeq
    <3> QED
      BY <2>1, <3>1, <3>3 DEF Starts
  <2>2. CASE hp # <<>>
    <3>1. 1 \in 1 .. Len(hp)
      <4>1. Len(hp) \in Nat \ {0}
        BY <1>3, <2>2, EmptySeq DEF Word
      <4> QED
        BY <4>1
    <3>2. (hp \o (S \o R))[1] = hp[1]
      BY <1>3, <1>7, <3>1, ConcatPlaces
    <3>3. Behind(v)[1] # SLASH
      BY <1>4, <1>5, <3>1, <3>2
    <3> QED
      BY <2>2, <3>3 DEF Starts
  <2> QED
    BY <2>1, <2>2
<1> QED
  BY <1>3, <1>6, <1>7, <1>8, <1>9, <1>10 DEF hp, H, P, R

\* Where the host ends and the port begins.
HostEnd(w, slash) ==
    CASE Starts(w, OPEN) -> Find(w, CLOSE, 2)
      [] ~Starts(w, OPEN) /\ Find(w, COLON, 1) <= Len(w) -> Find(w, COLON, 1)
      [] ~Starts(w, OPEN) /\ Find(w, COLON, 1) > Len(w) -> slash

PortStart(w, slash) ==
    IF Starts(w, OPEN) THEN HostEnd(w, slash) + 1 ELSE HostEnd(w, slash)

HostPart(w, slash) == Part(w, IF Starts(w, OPEN) THEN 2 ELSE 1, HostEnd(w, slash))

PortPart(w, slash) == Part(w, PortStart(w, slash) + 1, slash)

LEMMA HostAndPortIs ==
    ASSUME NEW u, NEW w, NEW slash
    PROVE  HostAndPort(u, w, slash) =
               IF \/ Starts(w, OPEN) /\ HostEnd(w, slash) > Len(w)
                  \/ Decode(HostPart(w, slash)) = BadText
                  \/ PortStart(w, slash) < slash /\ ~IsPort(PortPart(w, slash))
               THEN Fails
               ELSE [u EXCEPT !.host = @ \o Decode(HostPart(w, slash)),
                              !.port = IF PortStart(w, slash) < slash
                                       THEN PortOf(u, PortPart(w, slash))
                                       ELSE DefaultPort(u)]
BY DEF HostAndPort, HostEnd, PortStart, HostPart, PortPart

\* They are where they were written.
LEMMA HostIsFound ==
    ASSUME NEW v \in UrlType, Spellable(v), HostText(v) \o PortText(v) # <<>>,
           NEW slash, slash = (Len(HostText(v)) + Len(PortText(v))) + 1
    PROVE  /\ PortStart(Behind(v), slash) = Len(HostText(v)) + 1
           /\ Decode(HostPart(Behind(v), slash)) = v.host
           /\ Starts(Behind(v), OPEN) => HostEnd(Behind(v), slash) <= Len(Behind(v))
<1> DEFINE w == Behind(v)
           H == HostText(v)
           P == PortText(v)
           N == Numeral(v.port)
           T == <<SLASH>> \o RestText(v)
           Q == P \o T
           C == <<COLON>>
<1>1. /\ H \in Word /\ P \in Word /\ N \in Word /\ T \in Word /\ w \in Word /\ C \in Word
      /\ RestText(v) \in Word
      /\ v.port = 0 => P = <<>>
      /\ v.port # 0 => P = C \o N
  BY HostTextHas, PortTextHas, RestSplits, SlashIsFound, MarksAreBytes, WordsJoin
<1>2. w = H \o Q /\ Q \in Word
  <2>1. w = H \o Q
    BY DEF Behind
  <2> HIDE DEF H, P, T, w
  <2> QED
    BY <1>1, <2>1, WordsJoin
<1>3. Len(w) = Len(H) + Len(Q) /\ Len(H) \in Nat /\ Len(Q) \in Nat /\ Len(P) \in Nat
  <2> HIDE DEF H, P, Q, w
  <2> QED
    BY <1>1, <1>2, ConcatPlaces
<1>4. slash = (Len(H) + Len(P)) + 1 /\ H \o P # <<>>
  OBVIOUS
<1>5. CASE Contains(v.host, COLON)
  <2> DEFINE o == <<OPEN>>
             c == <<CLOSE>>
  <2>1. PICK e \in Word : H = Braced(e) /\ Decode(e) = v.host /\ ~Contains(e, CLOSE)
    BY <1>5, HostTextHas
  <2>2. /\ o \in Word /\ c \in Word /\ Len(o) = 1 /\ o[1] = OPEN /\ Len(c) = 1
        /\ CLOSE \in Byte
    BY MarksAreBytes, WordsJoin
  <2>3. H = o \o (e \o c)
    BY <2>1 DEF Braced
  <2> HIDE DEF o, H, Q, w
  <2>4. e \o c \in Word /\ c \o Q \in Word /\ o \o e \in Word /\ e \o (c \o Q) \in Word
    <3> HIDE DEF c
    <3>1. e \o c \in Word /\ c \o Q \in Word
      BY <1>2, <2>2, WordsJoin, Zenon
    <3> QED
      BY <2>2, <3>1, WordsJoin, Zenon
  <2>5. w = o \o (e \o (c \o Q))
    <3> HIDE DEF c
    <3>1. w = (o \o (e \o c)) \o Q
      BY <1>2, <2>3
    <3>2. (o \o (e \o c)) \o Q = o \o ((e \o c) \o Q)
      <4> DEFINE y == e \o c
      <4>1. y \in Word
        BY <2>4
      <4> HIDE DEF y
      <4>2. (o \o y) \o Q = o \o (y \o Q)
        BY <1>2, <2>2, <4>1, JoinsRegroup, Zenon
      <4> QED
        BY <4>2 DEF y
    <3>3. (e \o c) \o Q = e \o (c \o Q)
      BY <1>2, <2>2, WordsJoin
    <3> QED
      BY <3>1, <3>2, <3>3
  <2>6. w = (o \o e) \o (c \o Q)
    <3> HIDE DEF c
    <3>1. (o \o e) \o (c \o Q) = o \o (e \o (c \o Q))
      BY <2>2, <2>4, JoinsRegroup, ZenonT(30)
    <3> QED
      BY <2>5, <3>1
  <2>7. /\ Len(e) \in Nat /\ Len(o \o e) = 1 + Len(e)
        /\ \A j \in 1 .. Len(e) : (o \o e)[1 + j] = e[j]
    <3>1. Len(e) \in Nat /\ Len(o \o e) = Len(o) + Len(e)
      BY <2>2, LengthsJoin, Zenon
    <3>2. \A j \in Nat : j \in 1 .. Len(e) => (o \o e)[Len(o) + j] = e[j]
      BY <2>2, LengthsJoin, Zenon
    <3> QED
      BY <2>2, <3>1, <3>2
  <2>8. Len(H) = Len(e) + 2
    <3> HIDE DEF c
    <3>1. Len(e \o c) = Len(e) + Len(c)
      BY <2>2, LengthsJoin, Zenon
    <3>2. Len(o \o (e \o c)) = Len(o) + Len(e \o c)
      BY <2>2, <2>4, LengthsJoin, Zenon
    <3> QED
      BY <2>2, <2>3, <2>7, <3>1, <3>2
  <2>9. Starts(w, OPEN)
    <3> DEFINE x == e \o (c \o Q)
    <3>1. x \in Word /\ w = o \o x
      BY <2>4, <2>5
    <3> HIDE DEF x
    <3>2. 1 \in 1 .. Len(o)
      BY <2>2
    <3>3. w[1] = OPEN
      BY <2>2, <3>1, <3>2, ConcatPlaces, ZenonT(30)
    <3>4. Len(w) # 0
      BY <1>3, <2>7, <2>8
    <3> QED
      BY <3>3, <3>4, EmptySeq DEF Starts
  <2>10. Find(w, CLOSE, 2) = Len(e) + 2
    <3> DEFINE a == o \o e
    <3>1. a \in Word /\ Len(a) = 1 + Len(e) /\ w = a \o (<<CLOSE>> \o Q)
      BY <2>4, <2>6, <2>7
    <3>2. \A j \in 2 .. Len(a) : a[j] # CLOSE
      <4>1. \A j \in 1 .. Len(e) : e[j] # CLOSE
        BY <2>1, ContainsPlace
      <4>2. \A j \in 2 .. Len(a) : j - 1 \in 1 .. Len(e) /\ 1 + (j - 1) = j
        BY <2>7
      <4> QED
        BY <2>7, <4>1, <4>2
    <3> HIDE DEF a
    <3>3. 2 \in Nat \ {0} /\ 2 <= Len(a) + 1
      BY <2>7, <3>1
    <3>4. Find(a \o (<<CLOSE>> \o Q), CLOSE, 2) = Len(a) + 1
      <4>1. /\ a \in Word /\ Q \in Word /\ CLOSE \in Byte
            /\ 2 \in Nat \ {0} /\ 2 <= Len(a) + 1 /\ \A j \in 2 .. Len(a) : a[j] # CLOSE
        BY <1>2, <2>2, <3>1, <3>2, <3>3
      <4> HIDE DEF CLOSE, Q
      <4> QED
        BY <4>1, FindAfter
    <3> QED
      BY <2>7, <3>1, <3>4
  <2>11. HostEnd(w, slash) = Len(e) + 2
    BY <2>9, <2>10 DEF HostEnd
  <2>12. Part(w, 2, Len(e) + 2) = e
    <3> DEFINE x == c \o Q
    <3>1. x \in Word /\ w = o \o (e \o x)
      BY <2>4, <2>5
    <3> HIDE DEF x
    <3>2. Part(o \o (e \o x), Len(o) + 1, (Len(o) + Len(e)) + 1) = e
      BY <2>2, <3>1, PartOfConcat
    <3>3. Len(o) + 1 = 2 /\ (Len(o) + Len(e)) + 1 = Len(e) + 2
      BY <2>2, <2>7
    <3> QED
      BY <3>1, <3>2, <3>3
  <2>13. HostPart(w, slash) = e
    BY <2>9, <2>11, <2>12 DEF HostPart
  <2>14. PortStart(w, slash) = Len(H) + 1
    BY <2>7, <2>8, <2>9, <2>11 DEF PortStart
  <2>15. HostEnd(w, slash) <= Len(w)
    BY <1>3, <2>7, <2>8, <2>11
  <2> QED
    BY <2>1, <2>13, <2>14, <2>15 DEF w, H
<1>6. CASE ~Contains(v.host, COLON)
  <2>1. Decode(H) = v.host /\ ~Contains(H, COLON) /\ ~Starts(H, OPEN)
        /\ (H = <<>> <=> v.host = <<>>) /\ COLON \in Byte
    BY <1>6, HostTextHas, MarksAreBytes
  <2>2. v.port # 0 => w = H \o (C \o (N \o T)) /\ N \o T \in Word /\ C \o (N \o T) \in Word
    <3> HIDE DEF H, C, N, T, w, P
    <3>1. N \o T \in Word
      BY <1>1, WordsJoin, Zenon
    <3>2. C \o (N \o T) \in Word
      BY <1>1, <3>1, WordsJoin, Zenon
    <3>3. (C \o N) \o T = C \o (N \o T)
      BY <1>1, JoinsRegroup, Zenon
    <3>4. v.port # 0 => w = H \o ((C \o N) \o T)
      BY <1>1, <1>2
    <3> QED
      BY <3>1, <3>2, <3>3, <3>4
  <2>3. ~Starts(w, OPEN)
    <3>1. CASE H # <<>>
      <4> HIDE DEF H, Q, w
      <4>1. 1 \in 1 .. Len(H)
        <5>1. Len(H) # 0
          BY <1>1, <3>1, EmptySeq DEF Word
        <5> QED
          BY <1>3, <5>1
      <4>2. w[1] = H[1]
        BY <1>1, <1>2, <4>1, ConcatPlaces
      <4> QED
        BY <2>1, <3>1, <4>2 DEF Starts
    <3>2. CASE H = <<>>
      <4>1. v.port # 0
        <5> HIDE DEF H, P
        <5>1. ASSUME v.port = 0 PROVE FALSE
          <6>1. H \o P = H
            BY <1>1, <5>1, WordsJoin
          <6> QED
            BY <1>4, <3>2, <6>1
        <5> QED
          BY <5>1
      <4> DEFINE x == N \o T
      <4>2. w = C \o x /\ x \in Word
        <5> HIDE DEF H, C, N, T, w
        <5>1. w = H \o (C \o x) /\ C \o x \in Word /\ x \in Word
          BY <2>2, <4>1
        <5> HIDE DEF x
        <5>2. <<>> \o (C \o x) = C \o x
          BY <5>1, WordsJoin
        <5> QED
          BY <3>2, <5>1, <5>2
      <4> HIDE DEF x, w
      <4>3. 1 \in 1 .. Len(C) /\ C[1] = COLON
        OBVIOUS
      <4> HIDE DEF C
      <4>4. w[1] = COLON
        BY <1>1, <4>2, <4>3, ConcatPlaces
      <4> QED
        BY <4>4, MarksApart DEF Starts
    <3> QED
      BY <3>1, <3>2
  <2>4. HostEnd(w, slash) = Len(H) + 1
    <3>1. CASE v.port # 0
      <4> DEFINE x == N \o T
      <4>1. x \in Word /\ w = H \o (<<COLON>> \o x)
        BY <2>2, <3>1
      <4>2. \A j \in 1 .. Len(H) : H[j] # COLON
        <5> HIDE DEF H
        <5> QED
          BY <1>1, <2>1, ContainsPlace
      <4> HIDE DEF x, H, w
      <4>3. 1 \in Nat \ {0} /\ 1 <= Len(H) + 1
        BY <1>3
      <4>4. Find(H \o (<<COLON>> \o x), COLON, 1) = Len(H) + 1
        <5>1. /\ H \in Word /\ x \in Word /\ COLON \in Byte
              /\ 1 \in Nat \ {0} /\ 1 <= Len(H) + 1 /\ \A j \in 1 .. Len(H) : H[j] # COLON
          BY <1>1, <2>1, <4>1, <4>2, <4>3
        <5> HIDE DEF COLON
        <5> QED
          BY <5>1, FindAfter
      <4>5. Len(H) + 1 <= Len(w)
        <5>1. Len(<<COLON>> \o x) = 1 + Len(x) /\ Len(x) \in Nat
          <6>1. Len(C) = 1
            OBVIOUS
          <6>2. Len(C \o x) = Len(C) + Len(x) /\ Len(x) \in Nat
            <7> HIDE DEF C
            <7> QED
              BY <1>1, <4>1, ConcatPlaces
          <6> QED
            BY <6>1, <6>2
        <5>2. C \o x \in Word
          <6> HIDE DEF C
          <6> QED
            BY <1>1, <4>1, WordsJoin, Zenon
        <5>3. Len(H \o (C \o x)) = Len(H) + Len(C \o x)
          <6> HIDE DEF C
          <6> QED
            BY <1>1, <5>2, ConcatPlaces
        <5> QED
          BY <1>3, <4>1, <5>1, <5>3
      <4>6. Find(w, COLON, 1) = Len(H) + 1
        BY <4>1, <4>4
      <4> QED
        BY <2>3, <4>5, <4>6 DEF HostEnd
    <3>2. CASE v.port = 0
      <4>1. P = <<>>
        BY <1>1, <3>2
      <4>2. Q = T
        <5> HIDE DEF P, T
        <5> QED
          BY <1>1, <4>1, WordsJoin
      <4>3. H # <<>>
        <5> HIDE DEF H, P
        <5>1. H = H \o P
          BY <1>1, <4>1, WordsJoin
        <5> QED
          BY <1>4, <5>1
      <4>4. ~Contains(RestText(v), COLON)
        BY <1>6, <2>1, <3>2, <4>3 DEF Spellable
      <4>5. ~Contains(T, COLON)
        <5>1. <<SLASH>> \in Word /\ ~Contains(<<SLASH>>, COLON)
          BY MarksAreBytes, MarksApart, WordsJoin, ContainsOfOne
        <5> QED
          BY <1>1, <4>4, <5>1, ContainsOfConcat
      <4>6. ~Contains(w, COLON)
        <5>1. w = H \o T
          BY <1>2, <4>2
        <5> HIDE DEF w, H, T
        <5> QED
          BY <1>1, <2>1, <4>5, <5>1, ContainsOfConcat
      <4>7. Len(P) = 0
        BY <4>1
      <4> HIDE DEF w, H, P
      <4>8. Find(w, COLON, 1) = Len(w) + 1
        BY <1>1, <4>6, FindNowhere
      <4>9. slash = Len(H) + 1
        BY <1>3, <1>4, <4>7
      <4>10. Len(w) + 1 > Len(w) /\ ~(Len(w) + 1 <= Len(w))
        BY <1>3
      <4> QED
        BY <2>3, <4>8, <4>9, <4>10 DEF HostEnd
    <3> QED
      BY <3>1, <3>2
  <2>5. Part(w, 1, Len(H) + 1) = H
    <3> HIDE DEF w, H, Q
    <3>1. <<>> \in Word /\ <<>> \o w = w /\ Len(<<>>) = 0
      BY <1>1, WordsJoin
    <3>2. Part(<<>> \o (H \o Q), Len(<<>>) + 1, (Len(<<>>) + Len(H)) + 1) = H
      BY <1>1, <1>2, <3>1, PartOfConcat
    <3>3. Len(<<>>) + 1 = 1 /\ (Len(<<>>) + Len(H)) + 1 = Len(H) + 1
      BY <1>3, <3>1
    <3> QED
      BY <1>2, <3>1, <3>2, <3>3
  <2> HIDE DEF w, H
  <2>6. HostPart(w, slash) = H /\ PortStart(w, slash) = Len(H) + 1
    BY <2>3, <2>4, <2>5 DEF HostPart, PortStart
  <2> QED
    BY <2>1, <2>3, <2>6 DEF w, H
<1> QED
  BY <1>5, <1>6

LEMMA PortIsFound ==
    ASSUME NEW v \in UrlType, Spellable(v),
           NEW slash, slash = (Len(HostText(v)) + Len(PortText(v))) + 1
    PROVE  /\ v.port # 0 <=> Len(HostText(v)) + 1 < slash
           /\ v.port # 0 =>
                 Part(Behind(v), (Len(HostText(v)) + 1) + 1, slash) = Numeral(v.port)
<1> DEFINE H == HostText(v)
           P == PortText(v)
           N == Numeral(v.port)
           T == <<SLASH>> \o RestText(v)
           C == <<COLON>>
<1>1. /\ H \in Word /\ P \in Word /\ N \in Word /\ T \in Word /\ C \in Word
      /\ v.port = 0 => P = <<>>
      /\ v.port # 0 => P = C \o N
  BY HostTextHas, PortTextHas, RestSplits, MarksAreBytes, WordsJoin
<1>2. Len(C) = 1 /\ Behind(v) = H \o (P \o T) /\ slash = (Len(H) + Len(P)) + 1
  BY DEF Behind
<1> HIDE DEF H, P, N, T, C
<1>3. Len(H) \in Nat /\ Len(P) \in Nat /\ Len(N) \in Nat
  BY <1>1, LengthsJoin, Zenon
<1>4. CASE v.port = 0
  <2>1. Len(P) = 0
    BY <1>1, <1>4
  <2> QED
    BY <1>2, <1>3, <1>4, <2>1 DEF H
<1>5. CASE v.port # 0
  <2>1. P = C \o N
    BY <1>1, <1>5
  <2>2. Len(P) = Len(C) + Len(N)
    BY <1>1, <2>1, LengthsJoin, Zenon
  <2> DEFINE a == H \o C
             x == N \o T
  <2>3. a \in Word /\ x \in Word /\ Len(a) = Len(H) + Len(C)
    BY <1>1, LengthsJoin, WordsJoin, Zenon
  <2>4. Behind(v) = a \o x
    <3>1. (C \o N) \o T = C \o (N \o T)
      BY <1>1, JoinsRegroup, Zenon
    <3> HIDE DEF x
    <3>2. (H \o C) \o x = H \o (C \o x)
      <4>1. H \in Word /\ C \in Word /\ x \in Word
        BY <1>1, <2>3
      <4> QED
        BY <4>1, JoinsRegroup, Zenon
    <3> QED
      BY <1>2, <2>1, <3>1, <3>2 DEF x
  <2> HIDE DEF a
  <2>5. Part(a \o (N \o T), Len(a) + 1, (Len(a) + Len(N)) + 1) = N
    BY <1>1, <2>3, PartOfConcat
  <2>6. Len(a) + 1 = (Len(H) + 1) + 1 /\ (Len(a) + Len(N)) + 1 = slash /\ Len(H) + 1 < slash
    BY <1>2, <1>3, <2>2, <2>3
  <2> QED
    BY <1>5, <2>4, <2>5, <2>6 DEF H, N
<1> QED
  BY <1>4, <1>5

\* Host and port are read as they were.
LEMMA HostIsRead ==
    ASSUME NEW v \in UrlType, Spellable(v), HostText(v) \o PortText(v) # <<>>,
           NEW u \in UrlType, u.scheme = v.scheme, u.host = <<>>, u.port = 0,
           NEW slash, slash = (Len(HostText(v)) + Len(PortText(v))) + 1
    PROVE  HostAndPort(u, Behind(v), slash) = [u EXCEPT !.host = v.host, !.port = v.port]
<1> DEFINE w == Behind(v)
           host == Decode(HostPart(w, slash))
           port == PortPart(w, slash)
           start == PortStart(w, slash)
<1>1. /\ start = Len(HostText(v)) + 1 /\ host = v.host
      /\ Starts(w, OPEN) => HostEnd(w, slash) <= Len(w)
  BY HostIsFound
<1>2. v.host \in Word /\ v.port \in Ports
  BY DEF UrlType
<1>3. ~(Starts(w, OPEN) /\ HostEnd(w, slash) > Len(w))
  <2>1. Starts(w, OPEN) => HostEnd(w, slash) <= Len(w) /\ HostEnd(w, slash) \in Nat /\ Len(w) \in Nat
    <3>1. w \in Word
      BY SlashIsFound
    <3> HIDE DEF w
    <3>2. Starts(w, OPEN) => HostEnd(w, slash) = Find(w, CLOSE, 2)
      BY DEF HostEnd
    <3>3. Find(w, CLOSE, 2) \in 1 .. Len(w) + 1 /\ Len(w) \in Nat
      BY <3>1, FindFinds, LengthsJoin
    <3> QED
      BY <1>1, <3>2, <3>3
  <2> HIDE DEF w
  <2> QED
    BY <2>1
<1>4. host # BadText
  BY <1>1, <1>2, BadIsNoWord
<1>5. v.port # 0 <=> start < slash
  BY <1>1, PortIsFound
<1>6. v.port # 0 => port = Numeral(v.port)
  <2>1. port = Part(w, (Len(HostText(v)) + 1) + 1, slash)
    BY <1>1 DEF PortPart
  <2> QED
    BY <2>1, PortIsFound
<1>7. start < slash => IsPort(port) /\ PortOf(u, port) = v.port
  <2> HIDE DEF port, start
  <2> QED
    BY <1>2, <1>5, <1>6, PortIsRead
<1>8. ~(start < slash) => DefaultPort(u) = v.port
  <2> HIDE DEF start
  <2>1. SUFFICES ASSUME v.port = 0
                 PROVE  DefaultPort(u) = 0
    BY <1>5
  <2>2. HostText(v) # <<>>
    <3>1. PortText(v) = <<>>
      BY <2>1, PortTextHas
    <3>2. HostText(v) \in Word
      BY HostTextHas
    <3>3. HostText(v) \o <<>> = HostText(v)
      BY <3>2, WordsJoin
    <3> QED
      BY <3>1, <3>3
  <2>3. v.host # <<>>
    BY <2>2, HostTextHas
  <2>4. DefaultPort(v) = 0
    BY <2>1, <2>3 DEF Spellable
  <2>5. DefaultPort(u) = DefaultPort(v)
    BY <2>1 DEF DefaultPort
  <2> QED
    BY <2>4, <2>5
<1>9. HostAndPort(u, w, slash) =
          [u EXCEPT !.host = u.host \o host,
                    !.port = IF start < slash THEN PortOf(u, port) ELSE DefaultPort(u)]
  <2>1. HostAndPort(u, w, slash) =
            IF \/ Starts(w, OPEN) /\ HostEnd(w, slash) > Len(w)
               \/ host = BadText
               \/ start < slash /\ ~IsPort(port)
            THEN Fails
            ELSE [u EXCEPT !.host = @ \o host,
                           !.port = IF start < slash THEN PortOf(u, port) ELSE DefaultPort(u)]
    BY HostAndPortIs
  <2> HIDE DEF w, host, port, start
  <2> QED
    BY <1>3, <1>4, <1>7, <2>1
<1>10. u.host \o host = v.host
  BY <1>1, <1>2, WordsJoin
<1>11. (IF start < slash THEN PortOf(u, port) ELSE DefaultPort(u)) = v.port
  <2> HIDE DEF start, port
  <2> QED
    BY <1>7, <1>8
<1> HIDE DEF host, port, start
<1> QED
  BY <1>9, <1>10, <1>11

\* What is spelled is read as it was.
LEMMA SpelledIs ==
    ASSUME NEW v \in UrlType, Spellable(v)
    PROVE  LET w == Spelled(v)
           IN  /\ w \in Word /\ Len(w) \in Nat /\ Len(w) >= 4
               /\ w[1] = v.scheme /\ w[2] = COLON /\ w[3] = SLASH /\ w[4] = SLASH
               /\ SubSeq(w, 5, Len(w)) = Behind(v)
<1> DEFINE A == <<v.scheme, COLON, SLASH, SLASH>>
           H == HostText(v)
           P == PortText(v)
           R == RestText(v)
           S == <<SLASH>>
           B == Behind(v)
           w == Spelled(v)
<1>1. A \in Word /\ Len(A) = 4
  <2>1. v.scheme \in Byte /\ COLON \in Byte /\ SLASH \in Byte
    BY MarksAreBytes DEF UrlType
  <2> QED
    BY <2>1 DEF Word
<1>2. A[1] = v.scheme /\ A[2] = COLON /\ A[3] = SLASH /\ A[4] = SLASH
  OBVIOUS
<1>3. H \in Word /\ P \in Word /\ R \in Word /\ S \in Word /\ B \in Word
  BY HostTextHas, PortTextHas, RestSplits, MarksAreBytes, SlashIsFound, WordsJoin
<1>4. w = (((A \o H) \o P) \o S) \o R /\ B = H \o (P \o (S \o R))
  BY DEF Spelled, Behind
<1> HIDE DEF A, H, P, R, S, w, B
<1>5. w = A \o B
  <2> DEFINE a == A \o H
             b == a \o P
             y == S \o R
             z == P \o y
  <2>1. a \in Word /\ y \in Word
    BY <1>1, <1>3, WordsJoin, Zenon
  <2> HIDE DEF a, y
  <2>2. b \in Word /\ z \in Word
    BY <1>3, <2>1, WordsJoin, Zenon
  <2> HIDE DEF b, z
  <2>3. (b \o S) \o R = b \o (S \o R)
    <3>1. b \in Word /\ S \in Word /\ R \in Word
      BY <1>3, <2>2
    <3> QED
      BY <3>1, JoinsRegroup, Zenon
  <2>4. (a \o P) \o y = a \o (P \o y)
    <3>1. a \in Word /\ P \in Word /\ y \in Word
      BY <1>3, <2>1
    <3> QED
      BY <3>1, JoinsRegroup, Zenon
  <2>5. (A \o H) \o z = A \o (H \o z)
    BY <1>1, <1>3, <2>2, JoinsRegroup, ZenonT(30)
  <2>6. w = (b \o S) \o R
    BY <1>4 DEF a, b
  <2>7. (b \o S) \o R = a \o z
    BY <2>3, <2>4 DEF b, y, z
  <2>8. a \o z = A \o B
    BY <1>4, <2>5 DEF a, z, y
  <2> QED
    BY <2>6, <2>7, <2>8
<1>6. Len(w) = Len(A) + Len(B) /\ w \in Word /\ Len(B) \in Nat
  BY <1>1, <1>3, <1>5, LengthsJoin, WordsJoin, Zenon
<1>7. w[1] = A[1] /\ w[2] = A[2] /\ w[3] = A[3] /\ w[4] = A[4]
  <2>1. \A i \in 1 .. Len(A) : w[i] = A[i]
    BY <1>1, <1>3, <1>5, ConcatPlaces
  <2>2. 1 \in 1 .. 4 /\ 2 \in 1 .. 4 /\ 3 \in 1 .. 4 /\ 4 \in 1 .. 4
    OBVIOUS
  <2> QED
    BY <1>1, <2>1, <2>2
<1>8. SubSeq(w, 5, Len(w)) = B
  <2>1. <<>> \in Word /\ B \o <<>> = B
    BY <1>3, WordsJoin
  <2>2. Part(A \o (B \o <<>>), Len(A) + 1, (Len(A) + Len(B)) + 1) = B
    BY <1>1, <1>3, <2>1, PartOfConcat
  <2>3. Len(A) + 1 = 5 /\ ((Len(A) + Len(B)) + 1) - 1 = Len(w)
    BY <1>1, <1>6
  <2> QED
    BY <1>5, <2>1, <2>2, <2>3 DEF Part
<1> QED
  BY <1>1, <1>2, <1>6, <1>7, <1>8 DEF w, B

LEMMA NewUrlType ==
    ASSUME NEW s \in Schemes, NEW w \in Word
    PROVE  LET u == [NewUrl EXCEPT !.scheme = s, !.text = w, !.regenerate = FALSE]
           IN  /\ u \in UrlType /\ u.scheme = s /\ u.host = <<>> /\ u.port = 0
               /\ u.dn = <<>> /\ u.attrs = <<>> /\ u.scope = 0 /\ u.filter = <<>>
               /\ u.extensions = <<>> /\ u.text = w /\ u.regenerate = FALSE
<1>1. 0 \in Ports /\ <<>> \in Word /\ <<>> \in Seq(Word)
  BY IntAssumption, WordsJoin, EmptySeq DEF Ports
<1>2. /\ NewUrl \in UrlType /\ NewUrl.host = <<>> /\ NewUrl.port = 0
      /\ NewUrl.dn = <<>> /\ NewUrl.attrs = <<>> /\ NewUrl.scope = 0 /\ NewUrl.filter = <<>>
      /\ NewUrl.extensions = <<>>
  <2>1. 108 \in Schemes
    BY DEF Schemes
  <2> QED
    BY <1>1, <2>1 DEF NewUrl, UrlType
<1> QED
  BY <1>2 DEF UrlType

(***************************************************************************)
(* Every URL with parts of any length and any bytes is read from its        *)
(* spelling as it was, but for what Spellable names (components2Url, then   *)
(* parseUrl).                                                              *)
(***************************************************************************)
THEOREM SpelledIsRead ==
    ASSUME NEW v \in UrlType, Spellable(v)
    PROVE  /\ Parse(NewUrl, Spelled(v)) # Fails
           /\ Parts(Parse(NewUrl, Spelled(v))) = Parts(v)
<1> DEFINE w == Spelled(v)
           rest == Behind(v)
           slash == (Len(HostText(v)) + Len(PortText(v))) + 1
           named == [NewUrl EXCEPT !.scheme = v.scheme, !.text = w, !.regenerate = FALSE]
           hosted == IF Starts(rest, SLASH) THEN named ELSE HostAndPort(named, rest, slash)
           known == [named EXCEPT !.host = v.host, !.port = v.port]
<1>1. /\ w \in Word /\ Len(w) \in Nat /\ Len(w) >= 4
      /\ w[1] = v.scheme /\ w[2] = COLON /\ w[3] = SLASH /\ w[4] = SLASH
      /\ SubSeq(w, 5, Len(w)) = rest
  BY SpelledIs
<1>2. /\ rest \in Word /\ Find(rest, SLASH, 1) = slash /\ slash \in Nat
      /\ Len(rest) = slash + Len(RestText(v)) /\ Len(RestText(v)) \in Nat
      /\ Part(rest, slash + 1, Len(rest) + 1) = RestText(v)
      /\ Starts(rest, SLASH) <=> HostText(v) \o PortText(v) = <<>>
  BY SlashIsFound
<1>3. v.scheme \in Schemes /\ v.host \in Word /\ v.port \in Ports
  BY DEF UrlType
<1> HIDE DEF w, rest
<1>4. /\ named \in UrlType /\ named.scheme = v.scheme /\ named.host = <<>> /\ named.port = 0
      /\ named.dn = <<>> /\ named.attrs = <<>> /\ named.scope = 0 /\ named.filter = <<>>
      /\ named.extensions = <<>>
  BY <1>1, <1>3, NewUrlType, ZenonT(30)
<1> HIDE DEF named
<1>5. hosted = known
  <2>1. CASE HostText(v) \o PortText(v) = <<>>
    <3>1. hosted = named
      BY <1>2, <2>1
    <3>2. HostText(v) = <<>> /\ v.port = 0
      <4> DEFINE H == HostText(v)
                 P == PortText(v)
      <4>1. H \in Word /\ P \in Word
        BY HostTextHas, PortTextHas
      <4>2. v.port # 0 => P = <<COLON>> \o Numeral(v.port) /\ Numeral(v.port) \in Word
        BY PortTextHas
      <4> HIDE DEF H, P
      <4>3. H \o P = <<>>
        BY <2>1 DEF H, P
      <4>4. Len(H \o P) = Len(H) + Len(P) /\ Len(H) \in Nat /\ Len(P) \in Nat
        BY <4>1, LengthsJoin, Zenon
      <4>5. Len(H) = 0 /\ Len(P) = 0
        BY <4>3, <4>4
      <4>6. H = <<>>
        BY <4>1, <4>5, EmptySeq DEF Word
      <4>7. v.port = 0
        <5> SUFFICES ASSUME v.port # 0
                     PROVE  FALSE
          OBVIOUS
        <5> DEFINE C == <<COLON>>
                   N == Numeral(v.port)
        <5>1. C \in Word /\ N \in Word /\ Len(C) = 1 /\ P = C \o N
          BY <4>2, MarksAreBytes, WordsJoin
        <5> HIDE DEF C, N
        <5>2. Len(P) = Len(C) + Len(N) /\ Len(N) \in Nat
          BY <5>1, LengthsJoin, Zenon
        <5> QED
          BY <4>5, <5>1, <5>2
      <4> QED
        BY <4>6, <4>7 DEF H
    <3>3. v.host = <<>>
      BY <3>2, HostTextHas
    <3>4. known = named
      <4>1. [named EXCEPT !.host = named.host, !.port = named.port] = named
        BY <1>4 DEF UrlType
      <4> QED
        BY <1>4, <3>2, <3>3, <4>1
    <3> QED
      BY <3>1, <3>4
  <2>2. CASE HostText(v) \o PortText(v) # <<>>
    <3>1. hosted = HostAndPort(named, rest, slash)
      BY <1>2, <2>2
    <3> QED
      BY <1>4, <2>2, <3>1, HostIsRead DEF rest
  <2> QED
    BY <2>1, <2>2
<1>6. /\ known \in UrlType /\ known.scheme = v.scheme /\ known.host = v.host
      /\ known.port = v.port /\ known.dn = <<>> /\ known.attrs = <<>> /\ known.scope = 0
      /\ known.filter = <<>> /\ known.extensions = <<>>
  BY <1>3, <1>4 DEF UrlType
<1> HIDE DEF hosted, known
<1>7. known # Fails
  <2>1. Fails.scheme = 0 /\ 0 \notin Schemes
    BY DEF Fails, NewUrl, Schemes
  <2> QED
    BY <1>3, <1>6, <2>1
<1>8. WithParts(known, Split(RestText(v), QUESTION)) = WithPartsOf(known, v)
  <2>1. v.attrs # << <<>> >> /\ \A i \in DOMAIN v.attrs : ~Contains(v.attrs[i], COMMAS)
    BY DEF Spellable
  <2> QED
    BY <1>6, <2>1, PartsAreRead
<1>9. Parse(NewUrl, w) = WithPartsOf(known, v)
  <2>1. Parse(NewUrl, w) =
            IF \/ Len(w) < 4 \/ w[1] \notin Schemes
               \/ w[2] # COLON \/ w[3] # SLASH \/ w[4] # SLASH
               \/ hosted = Fails
            THEN Fails
            ELSE IF slash > Len(rest) THEN hosted
            ELSE WithParts(hosted, Split(Part(rest, slash + 1, Len(rest) + 1), QUESTION))
    BY <1>1, <1>2 DEF Parse, hosted, named
  <2> HIDE DEF slash
  <2>2. ~(slash > Len(rest)) /\ ~(Len(w) < 4)
    BY <1>1, <1>2
  <2> QED
    BY <1>1, <1>2, <1>3, <1>5, <1>7, <1>8, <2>1, <2>2
<1> DEFINE u == WithPartsOf(known, v)
<1>10. /\ u.scheme = v.scheme /\ u.host = v.host /\ u.port = v.port /\ u.dn = v.dn
       /\ u.attrs = v.attrs /\ u.scope = v.scope /\ u.filter = v.filter
       /\ u.extensions = v.extensions
  BY <1>6 DEF WithPartsOf, UrlType
<1> HIDE DEF u
<1>11. u # Fails
  <2>1. Fails.scheme = 0 /\ 0 \notin Schemes
    BY DEF Fails, NewUrl, Schemes
  <2> QED
    BY <1>3, <1>10, <2>1
<1>12. Parts(u) = Parts(v)
  BY <1>10 DEF Parts
<1> QED
  BY <1>9, <1>11, <1>12 DEF u, w

-----------------------------------------------------------------------------
(* What is read of any word.                                               *)

\* Nothing but a word, or nothing at all, is read as a host and a port.
LEMMA HostAndPortType ==
    ASSUME NEW u \in UrlType, NEW w \in Word, NEW slash \in 1 .. Len(w) + 1,
           HostAndPort(u, w, slash) # Fails
    PROVE  /\ HostAndPort(u, w, slash) \in UrlType
           /\ HostAndPort(u, w, slash).text = u.text
           /\ HostAndPort(u, w, slash).regenerate = u.regenerate
<1> DEFINE host == Decode(HostPart(w, slash))
           port == PortPart(w, slash)
           start == PortStart(w, slash)
           chosen == IF start < slash THEN PortOf(u, port) ELSE DefaultPort(u)
<1>1. HostAndPort(u, w, slash) =
          IF \/ Starts(w, OPEN) /\ HostEnd(w, slash) > Len(w)
             \/ host = BadText
             \/ start < slash /\ ~IsPort(port)
          THEN Fails
          ELSE [u EXCEPT !.host = @ \o host, !.port = chosen]
  BY HostAndPortIs
<1>2. HostEnd(w, slash) \in 0 .. Len(w) + 1
  <2>1. /\ Find(w, CLOSE, 2) \in 1 .. Len(w) + 1 /\ Find(w, COLON, 1) \in 1 .. Len(w) + 1
        /\ Len(w) \in Nat
    BY FindFinds, LengthsJoin
  <2>2. HostEnd(w, slash) \in {Find(w, CLOSE, 2), Find(w, COLON, 1), slash}
    BY <2>1 DEF HostEnd
  <2> QED
    BY <2>1, <2>2
<1>3. HostPart(w, slash) \in Word
  <2>1. \A i \in {1, 2} : i \in Nat \ {0}
    OBVIOUS
  <2> QED
    BY <1>2, <2>1, PartType DEF HostPart
<1>4. host \in Word \union {BadText}
  BY <1>3, DecodeType
<1> HIDE DEF host, start, port
<1>5. /\ ~(host = BadText) /\ ~(start < slash /\ ~IsPort(port))
      /\ HostAndPort(u, w, slash) = [u EXCEPT !.host = u.host \o host, !.port = chosen]
  <2> HIDE DEF chosen
  <2> QED
    BY <1>1
<1>6. chosen \in Ports
  <2>1. u.port \in Ports
    BY DEF UrlType
  <2>2. CASE start < slash
    <3>1. PortOf(u, port) \in Ports \/ PortOf(u, port) = u.port
      BY <1>5, <2>2, PortType
    <3> QED
      BY <2>1, <2>2, <3>1
  <2>3. CASE ~(start < slash)
    <3>1. DefaultPort(u) \in {LDAPPORT, LDAPSPORT, u.port}
      BY DEF DefaultPort
    <3>2. LDAPPORT \in Ports /\ LDAPSPORT \in Ports
      BY PortsAssumption, IntAssumption DEF LDAPPORT, LDAPSPORT, Ports
    <3> QED
      BY <2>1, <2>3, <3>1, <3>2
  <2> QED
    BY <2>2, <2>3
<1>7. u.host \o host \in Word
  <2>1. u.host \in Word
    BY DEF UrlType
  <2> QED
    BY <1>4, <1>5, <2>1, WordsJoin
<1> HIDE DEF chosen
<1> QED
  BY <1>5, <1>6, <1>7 DEF UrlType

\* The same of the parts.
LEMMA WithPartsType ==
    ASSUME NEW u \in UrlType, NEW pieces \in Seq(Word), WithParts(u, pieces) # Fails
    PROVE  /\ WithParts(u, pieces) \in UrlType
           /\ WithParts(u, pieces).text = u.text
           /\ WithParts(u, pieces).regenerate = u.regenerate
<1> DEFINE given(i) == i \in DOMAIN pieces
           plain(i) == IF given(i) THEN Decode(pieces[i]) ELSE <<>>
           attrs == IF given(2) /\ pieces[2] # <<>> THEN ListOf(pieces[2]) ELSE <<>>
           extensions == IF given(5) THEN ListOf(pieces[5]) ELSE <<>>
           scope == IF given(3) THEN ScopeOf(plain(3)) ELSE u.scope
<1>1. WithParts(u, pieces) =
          IF \/ BadText \in {plain(1), plain(3), plain(4)}
             \/ BadList \in {attrs, extensions}
             \/ ~IsScope(plain(3))
          THEN Fails
          ELSE [u EXCEPT !.dn = @ \o plain(1), !.attrs = @ \o attrs,
                         !.scope = IF given(3) THEN ScopeOf(plain(3)) ELSE @,
                         !.filter = @ \o plain(4), !.extensions = @ \o extensions]
  BY DEF WithParts
<1>2. \A i \in Nat : given(i) => pieces[i] \in Word
  OBVIOUS
<1>3. /\ <<>> \in Word /\ <<>> \in Seq(Word) /\ BadText \notin Word /\ BadList \notin Seq(Word)
      /\ \A w \in Word : /\ Decode(w) \in Word \union {BadText}
                         /\ ListOf(w) \in Seq(Word) \union {BadList}
  BY WordsJoin, EmptySeq, BadIsNoWord, DecodeType, ListType
<1>4. \A i \in Nat : plain(i) \in Word \union {BadText}
  <2> HIDE DEF given
  <2> QED
    BY <1>2, <1>3
<1>5. attrs \in Seq(Word) \union {BadList} /\ extensions \in Seq(Word) \union {BadList}
  <2>1. given(2) => pieces[2] \in Word
    BY <1>2
  <2>2. given(5) => pieces[5] \in Word
    BY <1>2
  <2> HIDE DEF given
  <2> QED
    BY <2>1, <2>2, <1>3
<1>6. scope \in 0 .. 2
  <2>1. \A w : ScopeOf(w) \in 0 .. 2
    BY DEF ScopeOf
  <2>2. u.scope \in 0 .. 2
    BY DEF UrlType
  <2> HIDE DEF given, plain
  <2> QED
    BY <2>1, <2>2
<1> HIDE DEF plain, attrs, extensions
<1>7. /\ WithParts(u, pieces) =
            [u EXCEPT !.dn = u.dn \o plain(1), !.attrs = u.attrs \o attrs,
                      !.scope = scope, !.filter = u.filter \o plain(4),
                      !.extensions = u.extensions \o extensions]
      /\ ~(BadText \in {plain(1), plain(3), plain(4)})
      /\ ~(BadList \in {attrs, extensions})
  <2> HIDE DEF given
  <2> QED
    BY <1>1
<1>8. /\ plain(1) \in Word /\ plain(4) \in Word /\ attrs \in Seq(Word)
      /\ extensions \in Seq(Word)
  <2>1. plain(1) \in Word \union {BadText} /\ plain(4) \in Word \union {BadText}
    BY <1>4
  <2> QED
    BY <1>5, <1>7, <2>1
<1> HIDE DEF scope, given
<1>9. /\ u.dn \o plain(1) \in Word /\ u.filter \o plain(4) \in Word
      /\ u.attrs \o attrs \in Seq(Word) /\ u.extensions \o extensions \in Seq(Word)
  <2>1. /\ u.dn \in Word /\ u.filter \in Word /\ u.attrs \in Seq(Word)
        /\ u.extensions \in Seq(Word)
    BY DEF UrlType
  <2>2. u.dn \o plain(1) \in Word /\ u.filter \o plain(4) \in Word
    BY <1>8, <2>1, WordsJoin
  <2>3. \A l, m \in Seq(Word) : l \o m \in Seq(Word)
    OBVIOUS
  <2>4. u.attrs \o attrs \in Seq(Word) /\ u.extensions \o extensions \in Seq(Word)
    BY <1>8, <2>1, <2>3
  <2> QED
    BY <2>2, <2>4
<1> QED
  BY <1>6, <1>7, <1>9 DEF UrlType

LEMMA ParsedType ==
    ASSUME NEW w \in Word, Parse(NewUrl, w) # Fails
    PROVE  /\ Parse(NewUrl, w) \in UrlType
           /\ Parse(NewUrl, w).text = w /\ Parse(NewUrl, w).regenerate = FALSE
<1> DEFINE rest == SubSeq(w, 5, Len(w))
           slash == Find(rest, SLASH, 1)
           named == [NewUrl EXCEPT !.scheme = w[1], !.text = w, !.regenerate = FALSE]
           hosted == IF Starts(rest, SLASH) THEN named ELSE HostAndPort(named, rest, slash)
           pieces == Split(Part(rest, slash + 1, Len(rest) + 1), QUESTION)
<1>1. Parse(NewUrl, w) =
          IF \/ Len(w) < 4 \/ w[1] \notin Schemes
             \/ w[2] # COLON \/ w[3] # SLASH \/ w[4] # SLASH
             \/ hosted = Fails
          THEN Fails
          ELSE IF slash > Len(rest) THEN hosted ELSE WithParts(hosted, pieces)
  BY DEF Parse
<1>2. rest \in Word /\ Len(rest) \in Nat
  <2>1. Len(w) \in Nat /\ Len(w) + 1 \in 0 .. Len(w) + 1 /\ (Len(w) + 1) - 1 = Len(w)
        /\ 5 \in Nat \ {0}
    BY LengthsJoin
  <2>2. Part(w, 5, Len(w) + 1) \in Word
    BY <2>1, PartType
  <2>3. rest \in Word
    BY <2>1, <2>2 DEF Part
  <2> HIDE DEF rest
  <2> QED
    BY <2>3, LengthsJoin
<1> HIDE DEF rest
<1>3. slash \in 1 .. Len(rest) + 1
  BY <1>2, FindFinds
<1> HIDE DEF slash, pieces, hosted
<1>4. w[1] \in Schemes /\ hosted # Fails /\ ~(Len(w) < 4)
  BY <1>1
<1>5. named \in UrlType /\ named.text = w /\ named.regenerate = FALSE
  BY <1>4, NewUrlType
<1> HIDE DEF named
<1>6. hosted \in UrlType /\ hosted.text = w /\ hosted.regenerate = FALSE
  <2>1. CASE Starts(rest, SLASH)
    BY <1>5, <2>1 DEF hosted
  <2>2. CASE ~Starts(rest, SLASH)
    <3>1. hosted = HostAndPort(named, rest, slash)
      BY <2>2 DEF hosted
    <3>2. HostAndPort(named, rest, slash) # Fails
      BY <1>4, <3>1
    <3>3. /\ HostAndPort(named, rest, slash) \in UrlType
          /\ HostAndPort(named, rest, slash).text = named.text
          /\ HostAndPort(named, rest, slash).regenerate = named.regenerate
      BY <1>2, <1>3, <1>5, <3>2, HostAndPortType
    <3> QED
      BY <1>5, <3>1, <3>3
  <2> QED
    BY <2>1, <2>2
<1>7. Parse(NewUrl, w) = IF slash > Len(rest) THEN hosted ELSE WithParts(hosted, pieces)
  BY <1>1
<1>8. CASE slash > Len(rest)
  <2>1. Parse(NewUrl, w) = hosted
    BY <1>7, <1>8
  <2> QED
    BY <1>6, <2>1
<1>9. CASE ~(slash > Len(rest))
  <2>1. Parse(NewUrl, w) = WithParts(hosted, pieces)
    BY <1>7, <1>9
  <2>2. pieces \in Seq(Word)
    <3>1. /\ slash + 1 \in Nat \ {0} /\ Len(rest) + 1 \in 0 .. Len(rest) + 1
      BY <1>2, <1>3
    <3>2. Part(rest, slash + 1, Len(rest) + 1) \in Word
      BY <1>2, <3>1, PartType
    <3> QED
      BY <3>2, MarksAreBytes, SplitOfAppend DEF pieces, Pieces
  <2>3. WithParts(hosted, pieces) # Fails
    BY <2>1
  <2>4. /\ WithParts(hosted, pieces) \in UrlType
        /\ WithParts(hosted, pieces).text = hosted.text
        /\ WithParts(hosted, pieces).regenerate = hosted.regenerate
    BY <1>6, <2>2, <2>3, WithPartsType
  <2> QED
    BY <1>6, <2>1, <2>4
<1> QED
  BY <1>8, <1>9

\* An object with other parts is one, and its text is made anew.
LEMMA ChangesType ==
    ASSUME NEW u \in UrlType, NEW changed \in Changes(u)
    PROVE  changed \in UrlType /\ changed.regenerate = TRUE
<1>1. /\ u.port \in Ports /\ u.filter \in Word /\ u.dn \in Word /\ u.attrs \in Seq(Word)
      /\ u.extensions \in Seq(Word)
  BY DEF UrlType
<1>2. CASE changed = SetPort(u, u.port)
  BY <1>1, <1>2 DEF SetPort, UrlType
<1>3. CASE changed = SetDN(u, u.filter)
  BY <1>1, <1>3 DEF SetDN, UrlType
<1>4. CASE changed = SetFilter(u, u.dn)
  BY <1>1, <1>4 DEF SetFilter, UrlType
<1>5. CASE changed = SetScope(u, "sub")
  <2>1. ScopeCodes["sub"] = 2
    BY DEF ScopeCodes
  <2> QED
    <3>1. changed = [u EXCEPT !.scope = 2, !.regenerate = TRUE]
      BY <1>5, <2>1 DEF SetScope
    <3>2. 2 \in 0 .. 2
      OBVIOUS
    <3> QED
      BY <3>1, <3>2 DEF UrlType
<1>6. CASE changed = SetAttrs(u, u.extensions)
  BY <1>1, <1>6 DEF SetAttrs, UrlType
<1>7. CASE changed = SetExtensions(u, u.attrs)
  BY <1>1, <1>7 DEF SetExtensions, UrlType
<1>8. CASE changed = SetHost(u, u.dn)
  BY <1>1, <1>8 DEF SetHost, UrlType
<1>9. CASE changed = SetScheme(u, 115)
  <2>1. 115 \in Schemes
    BY DEF Schemes
  <2> QED
    BY <1>9, <2>1 DEF SetScheme, UrlType
<1> QED
  BY <1>2, <1>3, <1>4, <1>5, <1>6, <1>7, <1>8, <1>9 DEF Changes

LEMMA WordsSurvive ==
    ASSUME NEW w \in Word
    PROVE  SurvivesSpelling(w)
<1> DEFINE u == Parse(NewUrl, w)
<1>1. SUFFICES ASSUME u # Fails
               PROVE  /\ Text(u) = w
                      /\ \A changed \in Changes(u) : Spellable(changed) =>
                            LET again == Parse(NewUrl, Text(changed))
                            IN  again # Fails /\ Parts(again) = Parts(changed)
  BY DEF SurvivesSpelling
<1>2. u \in UrlType /\ u.text = w /\ u.regenerate = FALSE
  BY <1>1, ParsedType
<1> HIDE DEF u
<1>3. Text(u) = w
  BY <1>2 DEF Text
<1>4. ASSUME NEW changed \in Changes(u), Spellable(changed)
      PROVE  LET again == Parse(NewUrl, Text(changed))
             IN  again # Fails /\ Parts(again) = Parts(changed)
  <2>1. changed \in UrlType /\ changed.regenerate = TRUE
    BY <1>2, ChangesType
  <2>2. Text(changed) = Spelled(changed)
    BY <2>1 DEF Text
  <2> QED
    BY <1>4, <2>1, <2>2, SpelledIsRead
<1> QED
  BY <1>3, <1>4

\* What is typed of a URL is bytes.
UrlInv == form \in DOMAIN Forms /\ (form \in UrlTypes => typed \in Word)

LEMMA UrlsAreWords == TypingSpec => [](form \in UrlTypes => word \in Word)
<1>1. TypingInit => UrlInv
  BY WordsJoin DEF TypingInit, UrlInv
<1>2. UrlInv /\ [TypingNext]_typingVars => UrlInv'
  <2> SUFFICES ASSUME UrlInv, [TypingNext]_typingVars
               PROVE  UrlInv'
    OBVIOUS
  <2>1. ASSUME NEW c \in Forms[form].letters, Insert(c)
        PROVE  UrlInv'
    <3>1. form' = form /\ typed' = Append(typed, c)
      BY <2>1 DEF Insert
    <3>2. ASSUME form \in UrlTypes
          PROVE  Append(typed, c) \in Word
      <4>1. c \in Byte /\ typed \in Word
        BY <3>2, UrlsAssumption DEF UrlInv
      <4> QED
        BY <4>1, WordsJoin
    <3> QED
      BY <3>1, <3>2 DEF UrlInv
  <2>2. CASE Erase
    <3>1. form' = form /\ typed' = SubSeq(typed, 1, Len(typed) - 1)
      BY <2>2 DEF Erase
    <3>2. typed \in Word => SubSeq(typed, 1, Len(typed) - 1) \in Word
      BY DEF Word
    <3> QED
      BY <3>1, <3>2 DEF UrlInv
  <2>3. CASE UNCHANGED typingVars
    BY <2>3 DEF UrlInv, typingVars
  <2> QED
    BY <2>1, <2>2, <2>3 DEF TypingNext
<1>3. UrlInv => (form \in UrlTypes => word \in Word)
  <2> SUFFICES ASSUME UrlInv, form \in UrlTypes
               PROVE  word \in Word
    OBVIOUS
  <2>1. Forms[form].head \in Word /\ Forms[form].tail \in Word /\ typed \in Word
    BY UrlsAssumption DEF UrlInv, Word
  <2>2. \A p, q \in Word : p \o q \in Word
    BY WordsJoin
  <2> QED
    BY <2>1, <2>2, Zenon DEF word
<1> QED
  BY <1>1, <1>2, <1>3, PTL DEF TypingSpec

(***************************************************************************)
(* UrlsSurvive, for URLs of every length, of all bytes: one that was read   *)
(* keeps its text, and says the same when it is spelled anew with a part    *)
(* changed (LDAPUrl).                                                       *)
(***************************************************************************)
THEOREM EveryUrlSurvives == TypingSpec => []UrlsSurvive
<1>1. (form \in UrlTypes => word \in Word) => UrlsSurvive
  BY WordsSurvive DEF UrlsSurvive
<1> QED
  BY <1>1, UrlsAreWords, PTL

-----------------------------------------------------------------------------
(***************************************************************************)
(* Names (DnValidator): numbers and walks first.                           *)
(***************************************************************************)

\* The least of some numbers.
LEMMA LeastIs ==
    ASSUME NEW T \in SUBSET Nat, T # {}
    PROVE  Min(T) \in T /\ \A y \in T : Min(T) <= y
  BY LeastOf DEF Min

\* That one is the least which is least.
LEMMA LeastIsThat ==
    ASSUME NEW T \in SUBSET Nat, NEW k \in T, \A y \in T : k <= y
    PROVE  Min(T) = k
<1>1. Min(T) \in T /\ Min(T) <= k
  BY LeastIs
<1>2. k <= Min(T)
  BY <1>1
<1>3. k \in Nat /\ Min(T) \in Nat
  BY <1>1
<1> QED
  BY <1>1, <1>2, <1>3

(***************************************************************************)
(* The walks, pass by pass.                                                 *)
(***************************************************************************)

\* What is typed, sign by sign.
Signs == Seq(Nat)

\* A pass over a string takes what is there.
LEMMA TakenFits ==
    ASSUME NEW t \in Signs, NEW p \in 1 .. Len(t), NEW n \in Taken(t, p)
    PROVE  n \in 1 .. 4 /\ p + n <= Len(t) + 1
<1>1. Len(t) \in Nat
  BY DEF Signs
<1>2. n \in 1 .. 4 /\ Takes(t, p, n)
  BY DEF Taken
<1> QED
  BY <1>1, <1>2 DEF Takes, MultiByte

\* The walk over the string of a value: each pass goes on where it has taken
\* something (rdn_validate).
LEMMA StringEndPass ==
    ASSUME NEW t \in Signs
    PROVE  \A p \in 1 .. Len(t) + 1 :
              /\ StringEnd(t, p) \in Nat
              /\ StringEnd(t, p) =
                    IF AtStop(t, p) THEN p
                    ELSE IF Taken(t, p) # {} THEN StringEnd(t, p + Min(Taken(t, p))) ELSE 0
<1> DEFINE A == 1 .. Len(t) + 1
           go == {p \in A : ~AtStop(t, p) /\ Taken(t, p) # {}}
           next == [p \in A |-> p + Min(Taken(t, p))]
           last == [p \in A |-> IF AtStop(t, p) THEN p ELSE 0]
           Unfolds(g) == g = [p \in 1 .. Len(t) + 1 |->
              IF AtStop(t, p) THEN p
              ELSE IF Taken(t, p) # {} THEN g[p + Min(Taken(t, p))] ELSE 0]
           end[p \in 1 .. Len(t) + 1] ==
              IF AtStop(t, p) THEN p
              ELSE IF Taken(t, p) # {} THEN end[p + Min(Taken(t, p))] ELSE 0
<1>1. Len(t) \in Nat /\ 1 \in Nat /\ Len(t) + 1 \in Nat
  BY DEF Signs
<1>2. IsWalk(1, Len(t) + 1, go, next, last, Nat)
  <2>1. ASSUME NEW p \in go PROVE next[p] \in (p + 1) .. Len(t) + 1
    <3>1. Min(Taken(t, p)) \in Taken(t, p)
      <4>1. Taken(t, p) \in SUBSET Nat /\ Taken(t, p) # {}
        BY DEF Taken
      <4> QED
        BY <4>1, LeastIs
    <3>2. p \in 1 .. Len(t)
      BY <1>1 DEF AtStop
    <3>3. Min(Taken(t, p)) \in 1 .. 4 /\ p + Min(Taken(t, p)) <= Len(t) + 1
      BY <3>1, <3>2, TakenFits
    <3>4. next[p] = p + Min(Taken(t, p))
      OBVIOUS
    <3> QED
      BY <1>1, <3>2, <3>3, <3>4
  <2>2. \A p \in A : last[p] \in Nat
    BY <1>1
  <2> HIDE DEF next, last
  <2> QED
    BY <2>1, <2>2 DEF IsWalk
<1>3. \A g : Unfolds(g) <=> WalksTo(g, 1, Len(t) + 1, go, next, last)
  <2> SUFFICES ASSUME NEW g PROVE Unfolds(g) <=> WalksTo(g, 1, Len(t) + 1, go, next, last)
    OBVIOUS
  <2>1. \A p \in A : (IF AtStop(t, p) THEN p
              ELSE IF Taken(t, p) # {} THEN g[p + Min(Taken(t, p))] ELSE 0)
            = IF p \in go THEN g[next[p]] ELSE last[p]
    OBVIOUS
  <2> HIDE DEF go, next, last
  <2> QED
    BY <2>1 DEF WalksTo
<1>4. WalksTo(end, 1, Len(t) + 1, go, next, last)
  <2>1. end = CHOOSE g : Unfolds(g)
    BY DEF end
  <2> DEFINE lo == 1
             hi == Len(t) + 1
  <2>2. IsWalk(lo, hi, go, next, last, Nat) /\ lo \in Nat /\ hi \in Nat /\ Nat # {}
    BY <1>1, <1>2
  <2> HIDE DEF go, next, last, lo, hi
  <2>3. PICK f : WalksTo(f, lo, hi, go, next, last)
    BY <2>2, WalksEnd, Zenon
  <2>4. Unfolds(f)
    BY <1>3, <2>3 DEF lo, hi
  <2> HIDE DEF Unfolds, end
  <2> QED
    BY <1>3, <2>1, <2>4
<1>5. \A p : StringEnd(t, p) = end[p]
  BY DEF StringEnd
<1> HIDE DEF end, go, next, last
<1>6. \A p \in A : end[p] \in Nat
  BY <1>1, <1>2, <1>4, WalkType
<1>7. Unfolds(end)
  BY <1>3, <1>4
<1>8. \A p \in A : end[p] =
              IF AtStop(t, p) THEN p
              ELSE IF Taken(t, p) # {} THEN end[p + Min(Taken(t, p))] ELSE 0
  BY <1>7
<1> QED
  BY <1>5, <1>6, <1>8

\* A walk over a string is over with an error or at a stop.
LEMMA StringEndsAtStop ==
    ASSUME NEW t \in Signs
    PROVE  \A p \in 1 .. Len(t) + 1 :
              \/ StringEnd(t, p) = 0
              \/ StringEnd(t, p) \in p .. Len(t) + 1 /\ AtStop(t, StringEnd(t, p))
<1> DEFINE Good == {p \in 1 .. Len(t) + 1 :
              \/ StringEnd(t, p) = 0
              \/ StringEnd(t, p) \in p .. Len(t) + 1 /\ AtStop(t, StringEnd(t, p))}
<1>1. Len(t) \in Nat /\ 1 \in Nat /\ Len(t) + 1 \in Nat /\ Good \in SUBSET (1 .. Len(t) + 1)
  BY DEF Signs
<1>2. ASSUME NEW p \in 1 .. Len(t) + 1, \A j \in (p + 1) .. Len(t) + 1 : j \in Good
      PROVE  p \in Good
  <2>1. CASE AtStop(t, p)
    <3>1. StringEnd(t, p) = p
      BY <2>1, StringEndPass
    <3>2. p \in p .. Len(t) + 1
      BY <1>1
    <3> QED
      BY <2>1, <3>1, <3>2
  <2>2. CASE ~AtStop(t, p) /\ Taken(t, p) = {}
    <3>1. StringEnd(t, p) = 0
      BY <2>2, StringEndPass
    <3> QED
      BY <3>1
  <2>3. CASE ~AtStop(t, p) /\ Taken(t, p) # {}
    <3> DEFINE n == Min(Taken(t, p))
    <3>1. n \in Taken(t, p)
      <4>1. Taken(t, p) \in SUBSET Nat
        BY DEF Taken
      <4> QED
        BY <2>3, <4>1, LeastIs
    <3>2. p \in 1 .. Len(t)
      BY <1>1, <2>3 DEF AtStop
    <3>3. n \in 1 .. 4 /\ p + n <= Len(t) + 1
      BY <3>1, <3>2, TakenFits
    <3>4. StringEnd(t, p) = StringEnd(t, p + n)
      BY <2>3, StringEndPass
    <3> HIDE DEF n
    <3>5. p + n \in (p + 1) .. Len(t) + 1
      BY <1>1, <3>3
    <3>6. p + n \in Good
      BY <1>2, <3>5
    <3>7. \A q : q \in (p + n) .. Len(t) + 1 => q \in p .. Len(t) + 1
      BY <1>1, <3>3
    <3> QED
      BY <3>4, <3>6, <3>7
  <2> QED
    BY <2>1, <2>2, <2>3
<1> HIDE DEF Good
<1>3. Good = 1 .. Len(t) + 1
  BY <1>1, <1>2, FromTheEnd
<1> QED
  BY <1>3 DEF Good

\* The walk over the digits of a value, two by two.
LEMMA HexEndPass ==
    ASSUME NEW t \in Signs
    PROVE  \A p \in 1 .. Len(t) + 1 :
              /\ HexEnd(t, p) \in Nat
              /\ HexEnd(t, p) =
                    IF AtStop(t, p) THEN p
                    ELSE IF p < Len(t) /\ HexPair(t[p]) THEN HexEnd(t, p + 2) ELSE 0
<1> DEFINE A == 1 .. Len(t) + 1
           go == {p \in A : ~AtStop(t, p) /\ p < Len(t) /\ HexPair(t[p])}
           next == [p \in A |-> p + 2]
           last == [p \in A |-> IF AtStop(t, p) THEN p ELSE 0]
           Unfolds(g) == g = [p \in 1 .. Len(t) + 1 |->
              IF AtStop(t, p) THEN p
              ELSE IF p < Len(t) /\ HexPair(t[p]) THEN g[p + 2] ELSE 0]
           end[p \in 1 .. Len(t) + 1] ==
              IF AtStop(t, p) THEN p
              ELSE IF p < Len(t) /\ HexPair(t[p]) THEN end[p + 2] ELSE 0
<1>1. Len(t) \in Nat /\ 1 \in Nat /\ Len(t) + 1 \in Nat
  BY DEF Signs
<1>2. IsWalk(1, Len(t) + 1, go, next, last, Nat)
  <2>1. ASSUME NEW p \in go PROVE next[p] \in (p + 1) .. Len(t) + 1
    <3>1. p \in 1 .. Len(t) + 1 /\ p < Len(t) /\ next[p] = p + 2
      OBVIOUS
    <3> QED
      BY <1>1, <3>1
  <2>2. \A p \in A : last[p] \in Nat
    BY <1>1
  <2> HIDE DEF next, last
  <2> QED
    BY <2>1, <2>2 DEF IsWalk
<1>3. \A g : Unfolds(g) <=> WalksTo(g, 1, Len(t) + 1, go, next, last)
  <2> SUFFICES ASSUME NEW g PROVE Unfolds(g) <=> WalksTo(g, 1, Len(t) + 1, go, next, last)
    OBVIOUS
  <2>1. \A p \in A : (IF AtStop(t, p) THEN p
              ELSE IF p < Len(t) /\ HexPair(t[p]) THEN g[p + 2] ELSE 0)
            = IF p \in go THEN g[next[p]] ELSE last[p]
    OBVIOUS
  <2> HIDE DEF go, next, last
  <2> QED
    BY <2>1 DEF WalksTo
<1>4. WalksTo(end, 1, Len(t) + 1, go, next, last)
  <2>1. end = CHOOSE g : Unfolds(g)
    BY DEF end
  <2> DEFINE lo == 1
             hi == Len(t) + 1
  <2>2. IsWalk(lo, hi, go, next, last, Nat) /\ lo \in Nat /\ hi \in Nat /\ Nat # {}
    BY <1>1, <1>2
  <2> HIDE DEF go, next, last, lo, hi
  <2>3. PICK f : WalksTo(f, lo, hi, go, next, last)
    BY <2>2, WalksEnd, Zenon
  <2>4. Unfolds(f)
    BY <1>3, <2>3 DEF lo, hi
  <2> HIDE DEF Unfolds, end
  <2> QED
    BY <1>3, <2>1, <2>4
<1>5. \A p : HexEnd(t, p) = end[p]
  BY DEF HexEnd
<1> HIDE DEF end, go, next, last
<1>6. \A p \in A : end[p] \in Nat
  BY <1>1, <1>2, <1>4, WalkType
<1>7. Unfolds(end)
  BY <1>3, <1>4
<1>8. \A p \in A : end[p] =
              IF AtStop(t, p) THEN p
              ELSE IF p < Len(t) /\ HexPair(t[p]) THEN end[p + 2] ELSE 0
  BY <1>7
<1> QED
  BY <1>5, <1>6, <1>8

\* A walk over digits is over with an error or at a stop.
LEMMA HexEndsAtStop ==
    ASSUME NEW t \in Signs
    PROVE  \A p \in 1 .. Len(t) + 1 :
              \/ HexEnd(t, p) = 0
              \/ HexEnd(t, p) \in p .. Len(t) + 1 /\ AtStop(t, HexEnd(t, p))
<1> DEFINE Good == {p \in 1 .. Len(t) + 1 :
              \/ HexEnd(t, p) = 0
              \/ HexEnd(t, p) \in p .. Len(t) + 1 /\ AtStop(t, HexEnd(t, p))}
<1>1. Len(t) \in Nat /\ 1 \in Nat /\ Len(t) + 1 \in Nat /\ Good \in SUBSET (1 .. Len(t) + 1)
  BY DEF Signs
<1>2. ASSUME NEW p \in 1 .. Len(t) + 1, \A j \in (p + 1) .. Len(t) + 1 : j \in Good
      PROVE  p \in Good
  <2>1. CASE AtStop(t, p)
    <3>1. HexEnd(t, p) = p
      BY <2>1, HexEndPass
    <3>2. p \in p .. Len(t) + 1
      BY <1>1
    <3> QED
      BY <2>1, <3>1, <3>2
  <2>2. CASE ~AtStop(t, p) /\ ~(p < Len(t) /\ HexPair(t[p]))
    <3>1. HexEnd(t, p) = 0
      BY <2>2, HexEndPass
    <3> QED
      BY <3>1
  <2>3. CASE ~AtStop(t, p) /\ p < Len(t) /\ HexPair(t[p])
    <3>4. HexEnd(t, p) = HexEnd(t, p + 2)
      BY <2>3, HexEndPass
    <3>5. p + 2 \in (p + 1) .. Len(t) + 1
      BY <1>1, <2>3
    <3>6. p + 2 \in Good
      BY <1>2, <3>5
    <3>7. \A q : q \in (p + 2) .. Len(t) + 1 => q \in p .. Len(t) + 1
      BY <1>1
    <3> QED
      BY <3>4, <3>6, <3>7
  <2> QED
    BY <2>1, <2>2, <2>3
<1> HIDE DEF Good
<1>3. Good = 1 .. Len(t) + 1
  BY <1>1, <1>2, FromTheEnd
<1> QED
  BY <1>3 DEF Good

\* The first '=' of a part.
LEMMA SeparatorIs ==
    ASSUME NEW t \in Signs, NEW p \in 1 .. Len(t), Equals(t, p) # {}
    PROVE  /\ Separator(t, p) \in p .. Len(t) /\ t[Separator(t, p)] = EQUALS
           /\ \A i \in p .. (Separator(t, p) - 1) : t[i] # EQUALS
<1> DEFINE s == Separator(t, p)
<1>1. Equals(t, p) \in SUBSET Nat /\ Len(t) \in Nat
  BY DEF Equals, Signs
<1>2. s \in Equals(t, p) /\ \A y \in Equals(t, p) : s <= y
  BY <1>1, LeastIs DEF Separator
<1> HIDE DEF s
<1>3. s \in p .. Len(t) /\ t[s] = EQUALS
  BY <1>2 DEF Equals
<1>4. ASSUME NEW i \in p .. (s - 1), t[i] = EQUALS PROVE FALSE
  <2>1. i \in Equals(t, p)
    BY <1>1, <1>3, <1>4 DEF Equals
  <2> QED
    BY <1>1, <1>2, <1>3, <1>4, <2>1
<1> QED
  BY <1>3, <1>4 DEF s

\* A part is read to a stop behind its '='.
LEMMA PartEndsAtStop ==
    ASSUME NEW t \in Signs, NEW p \in 1 .. Len(t)
    PROVE  \/ PartEnd(t, p) = 0
           \/ /\ PartEnd(t, p) \in (p + 1) .. Len(t) + 1
              /\ Separator(t, p) < PartEnd(t, p)
              /\ AtStop(t, PartEnd(t, p))
<1> DEFINE s == Separator(t, p)
           e == PartEnd(t, p)
<1>1. Len(t) \in Nat
  BY DEF Signs
<1>2. SUFFICES ASSUME PartEnd(t, p) # 0
               PROVE  e \in (p + 1) .. Len(t) + 1 /\ s < e /\ AtStop(t, e)
  OBVIOUS
<1>3. Equals(t, p) # {} /\ Begins(t, s + 1, t[p] \in DIGIT)
  BY <1>2 DEF PartEnd, HasType
<1>4. s \in p .. Len(t) /\ s + 1 <= Len(t)
  <2>1. s \in p .. Len(t)
    BY <1>3, SeparatorIs
  <2> QED
    BY <1>3, <2>1 DEF Begins
<1>5. CASE t[p] \in DIGIT
  <2>1. PartEnd(t, p) = HexEnd(t, s + 2)
    BY <1>2, <1>5 DEF PartEnd
  <2>2. s + 1 < Len(t)
    BY <1>3, <1>5 DEF Begins
  <2> HIDE DEF s
  <2>3. s + 2 \in 1 .. Len(t) + 1
    BY <1>1, <1>4, <2>2
  <2>4. HexEnd(t, s + 2) \in (s + 2) .. Len(t) + 1 /\ AtStop(t, HexEnd(t, s + 2))
    BY <1>2, <2>1, <2>3, HexEndsAtStop
  <2> QED
    BY <1>1, <1>4, <2>1, <2>4
<1>6. CASE ~(t[p] \in DIGIT)
  <2>1. PartEnd(t, p) = StringEnd(t, s + 1)
    BY <1>2, <1>6 DEF PartEnd
  <2> HIDE DEF s
  <2>3. s + 1 \in 1 .. Len(t) + 1
    BY <1>1, <1>4
  <2>4. StringEnd(t, s + 1) \in (s + 1) .. Len(t) + 1 /\ AtStop(t, StringEnd(t, s + 1))
    BY <1>2, <2>1, <2>3, StringEndsAtStop
  <2> QED
    BY <1>1, <1>4, <2>1, <2>4
<1> QED
  BY <1>5, <1>6

\* The walk over the values of a part, from one plus sign to the next.
LEMMA RdnEndPass ==
    ASSUME NEW t \in Signs
    PROVE  \A p \in 1 .. Len(t) :
              /\ RdnEnd(t, p) \in Nat
              /\ RdnEnd(t, p) =
                    IF GoesOn(t, PartEnd(t, p), PLUS) THEN RdnEnd(t, PartEnd(t, p) + 1)
                    ELSE IF PartEnd(t, p) = Len(t) /\ t[Len(t)] = PLUS THEN 0 ELSE PartEnd(t, p)
<1> DEFINE A == 1 .. Len(t)
           go == {p \in A : GoesOn(t, PartEnd(t, p), PLUS)}
           next == [p \in A |-> PartEnd(t, p) + 1]
           last == [p \in A |-> IF PartEnd(t, p) = Len(t) /\ t[Len(t)] = PLUS THEN 0 ELSE PartEnd(t, p)]
           Unfolds(g) == g = [p \in 1 .. Len(t) |->
              IF GoesOn(t, PartEnd(t, p), PLUS) THEN g[PartEnd(t, p) + 1]
              ELSE IF PartEnd(t, p) = Len(t) /\ t[Len(t)] = PLUS THEN 0 ELSE PartEnd(t, p)]
           end[p \in 1 .. Len(t)] ==
              IF GoesOn(t, PartEnd(t, p), PLUS) THEN end[PartEnd(t, p) + 1]
              ELSE IF PartEnd(t, p) = Len(t) /\ t[Len(t)] = PLUS THEN 0 ELSE PartEnd(t, p)
<1>1. Len(t) \in Nat /\ 1 \in Nat
  BY DEF Signs
<1>2. IsWalk(1, Len(t), go, next, last, Nat)
  <2>1. ASSUME NEW p \in go PROVE next[p] \in (p + 1) .. Len(t)
    <3>1. p \in 1 .. Len(t) /\ GoesOn(t, PartEnd(t, p), PLUS) /\ next[p] = PartEnd(t, p) + 1
      OBVIOUS
    <3>2. PartEnd(t, p) \in 1 .. (Len(t) - 1)
      BY <3>1 DEF GoesOn
    <3>3. PartEnd(t, p) \in (p + 1) .. Len(t) + 1
      BY <1>1, <3>1, <3>2, PartEndsAtStop
    <3> QED
      BY <1>1, <3>1, <3>2, <3>3
  <2>2. \A p \in A : last[p] \in Nat
    <3>1. \A p \in A : PartEnd(t, p) \in Nat
      BY <1>1, PartEndsAtStop
    <3> QED
      BY <3>1
  <2> HIDE DEF next, last
  <2> QED
    BY <2>1, <2>2 DEF IsWalk
<1>3. \A g : Unfolds(g) <=> WalksTo(g, 1, Len(t), go, next, last)
  <2> SUFFICES ASSUME NEW g PROVE Unfolds(g) <=> WalksTo(g, 1, Len(t), go, next, last)
    OBVIOUS
  <2>1. \A p \in A : (IF GoesOn(t, PartEnd(t, p), PLUS) THEN g[PartEnd(t, p) + 1]
              ELSE IF PartEnd(t, p) = Len(t) /\ t[Len(t)] = PLUS THEN 0 ELSE PartEnd(t, p))
            = IF p \in go THEN g[next[p]] ELSE last[p]
    OBVIOUS
  <2> HIDE DEF go, next, last
  <2> QED
    BY <2>1 DEF WalksTo
<1>4. WalksTo(end, 1, Len(t), go, next, last)
  <2>1. end = CHOOSE g : Unfolds(g)
    BY DEF end
  <2> DEFINE lo == 1
             hi == Len(t)
  <2>2. IsWalk(lo, hi, go, next, last, Nat) /\ lo \in Nat /\ hi \in Nat /\ Nat # {}
    BY <1>1, <1>2
  <2> HIDE DEF go, next, last, lo, hi
  <2>3. PICK f : WalksTo(f, lo, hi, go, next, last)
    BY <2>2, WalksEnd, Zenon
  <2>4. Unfolds(f)
    BY <1>3, <2>3 DEF lo, hi
  <2> HIDE DEF Unfolds, end
  <2> QED
    BY <1>3, <2>1, <2>4
<1>5. \A p : RdnEnd(t, p) = end[p]
  BY DEF RdnEnd
<1> HIDE DEF end, go, next, last
<1>6. \A p \in A : end[p] \in Nat
  BY <1>1, <1>2, <1>4, WalkType
<1>7. Unfolds(end)
  BY <1>3, <1>4
<1>8. \A p \in A : end[p] =
              IF GoesOn(t, PartEnd(t, p), PLUS) THEN end[PartEnd(t, p) + 1]
              ELSE IF PartEnd(t, p) = Len(t) /\ t[Len(t)] = PLUS THEN 0 ELSE PartEnd(t, p)
  BY <1>7
<1> QED
  BY <1>5, <1>6, <1>8

\* A walk over the values of a part goes forwards.
LEMMA RdnEndsLater ==
    ASSUME NEW t \in Signs
    PROVE  \A p \in 1 .. Len(t) : RdnEnd(t, p) = 0 \/ RdnEnd(t, p) > p
<1> DEFINE Good == {p \in 1 .. Len(t) : RdnEnd(t, p) = 0 \/ RdnEnd(t, p) > p}
<1>1. Len(t) \in Nat /\ 1 \in Nat /\ Good \in SUBSET (1 .. Len(t))
  BY DEF Signs
<1>2. ASSUME NEW p \in 1 .. Len(t), \A j \in (p + 1) .. Len(t) : j \in Good
      PROVE  p \in Good
  <2>1. PartEnd(t, p) \in Nat /\ (PartEnd(t, p) = 0 \/ PartEnd(t, p) > p)
    BY <1>1, PartEndsAtStop
  <2>2. CASE GoesOn(t, PartEnd(t, p), PLUS)
    <3>1. RdnEnd(t, p) = RdnEnd(t, PartEnd(t, p) + 1)
      BY <2>2, RdnEndPass
    <3>2. PartEnd(t, p) + 1 \in (p + 1) .. Len(t)
      BY <1>1, <2>1, <2>2 DEF GoesOn
    <3>3. PartEnd(t, p) + 1 \in Good
      BY <1>2, <3>2
    <3>4. RdnEnd(t, p) \in Nat
      BY RdnEndPass
    <3> QED
      BY <1>1, <2>1, <3>1, <3>2, <3>3, <3>4
  <2>3. CASE ~GoesOn(t, PartEnd(t, p), PLUS)
    <3>1. RdnEnd(t, p) \in {0, PartEnd(t, p)}
      BY <2>3, RdnEndPass
    <3> QED
      BY <2>1, <3>1
  <2> QED
    BY <2>2, <2>3
<1> HIDE DEF Good
<1>3. Good = 1 .. Len(t)
  BY <1>1, <1>2, FromTheEnd
<1> QED
  BY <1>3 DEF Good

\* The search over the parts of a name, from one comma to the next
\* (distinguishedname_validate).
LEMMA DnFromPass ==
    ASSUME NEW t \in Signs
    PROVE  \A p \in 1 .. Len(t) :
              DnFrom(t, p) <=>
                 \/ RdnEnd(t, p) > Len(t)
                 \/ GoesOn(t, RdnEnd(t, p), COMMA) /\ DnFrom(t, RdnEnd(t, p) + 1)
<1> DEFINE A == 1 .. Len(t) + 1
           over == {p \in A : p > Len(t) \/ RdnEnd(t, p) > Len(t)}
           steps == {<<p, RdnEnd(t, p) + 1>> : p \in {q \in A : GoesOn(t, RdnEnd(t, q), COMMA)}}
           Unfolds(g) == g = [p \in 1 .. Len(t) + 1 |->
              \/ p > Len(t) \/ RdnEnd(t, p) > Len(t)
              \/ GoesOn(t, RdnEnd(t, p), COMMA) /\ g[RdnEnd(t, p) + 1]]
           from[p \in 1 .. Len(t) + 1] ==
              \/ p > Len(t) \/ RdnEnd(t, p) > Len(t)
              \/ GoesOn(t, RdnEnd(t, p), COMMA) /\ from[RdnEnd(t, p) + 1]
<1>1. Len(t) \in Nat /\ 1 \in Nat /\ Len(t) + 1 \in Nat
  BY DEF Signs
<1>2. ASSUME NEW g, NEW p \in A
      PROVE  (\/ p > Len(t) \/ RdnEnd(t, p) > Len(t)
              \/ GoesOn(t, RdnEnd(t, p), COMMA) /\ g[RdnEnd(t, p) + 1])
             <=> (p \in over \/ \E j \in (p + 1) .. Len(t) + 1 : <<p, j>> \in steps /\ g[j])
  <2>1. \A j : <<p, j>> \in steps <=> GoesOn(t, RdnEnd(t, p), COMMA) /\ j = RdnEnd(t, p) + 1
    OBVIOUS
  <2>2. p \in over <=> p > Len(t) \/ RdnEnd(t, p) > Len(t)
    OBVIOUS
  <2>3. ASSUME p \notin over, GoesOn(t, RdnEnd(t, p), COMMA)
        PROVE  RdnEnd(t, p) + 1 \in (p + 1) .. Len(t) + 1
    <3>1. p \in 1 .. Len(t) /\ RdnEnd(t, p) \in 1 .. (Len(t) - 1)
      BY <1>1, <2>3 DEF GoesOn
    <3>2. RdnEnd(t, p) > p
      BY <3>1, RdnEndsLater
    <3> QED
      BY <1>1, <3>1, <3>2
  <2> HIDE DEF over, steps
  <2> QED
    BY <2>1, <2>2, <2>3
<1>3. \A g : Unfolds(g) <=> SearchesTo(g, 1, Len(t) + 1, over, steps)
  <2> DEFINE Here(g, p) == \/ p > Len(t) \/ RdnEnd(t, p) > Len(t)
                           \/ GoesOn(t, RdnEnd(t, p), COMMA) /\ g[RdnEnd(t, p) + 1]
             There(g, p) == p \in over \/ \E j \in (p + 1) .. Len(t) + 1 : <<p, j>> \in steps /\ g[j]
  <2>1. \A g : \A p \in A : Here(g, p) = There(g, p)
    <3> HIDE DEF over, steps
    <3> QED
      BY <1>2
  <2> HIDE DEF over, steps, Here, There
  <2>2. \A g : [p \in A |-> Here(g, p)] = [p \in A |-> There(g, p)]
    BY <2>1
  <2> QED
    BY <2>2 DEF SearchesTo, Here, There
<1>4. Unfolds(from)
  <2>1. from = CHOOSE g : Unfolds(g)
    BY DEF from
  <2> DEFINE lo == 1
             hi == Len(t) + 1
  <2>2. lo \in Nat /\ hi \in Nat
    BY <1>1
  <2> HIDE DEF over, steps, lo, hi
  <2>3. PICK f : SearchesTo(f, lo, hi, over, steps)
    BY <2>2, SearchesEnd, Zenon
  <2>4. Unfolds(f)
    BY <1>3, <2>3 DEF lo, hi
  <2> HIDE DEF Unfolds, from
  <2> QED
    BY <2>1, <2>4
<1>5. \A p : DnFrom(t, p) = from[p]
  BY DEF DnFrom
<1> HIDE DEF from, over, steps
<1>6. \A p \in A : from[p] <=>
              \/ p > Len(t) \/ RdnEnd(t, p) > Len(t)
              \/ GoesOn(t, RdnEnd(t, p), COMMA) /\ from[RdnEnd(t, p) + 1]
  BY <1>4
<1>7. \A p \in 1 .. Len(t) : p \in A /\ ~(p > Len(t))
  BY <1>1
<1> QED
  BY <1>5, <1>6, <1>7

\* Where a number ends.
LEMMA NumberEndIs ==
    ASSUME NEW o \in Signs, NEW p \in 1 .. Len(o), o[p] \in DIGIT
    PROVE  /\ NumberEnd(o, p) \in (p + 1) .. Len(o) + 1
           /\ \A i \in p .. (NumberEnd(o, p) - 1) : o[i] \in DIGIT
           /\ o[p] = 48 => NumberEnd(o, p) = p + 1
           /\ o[p] # 48 /\ NumberEnd(o, p) <= Len(o) => o[NumberEnd(o, p)] \notin DIGIT
<1> DEFINE others == {i \in p..Len(o) : o[i] \notin DIGIT}
<1>1. Len(o) \in Nat /\ others \in SUBSET Nat
  BY DEF Signs
<1>2. NumberEnd(o, p) = CASE o[p] = 48 -> p + 1
          [] o[p] # 48 /\ others # {} -> Min(others)
          [] OTHER -> Len(o) + 1
  BY DEF NumberEnd
<1>3. CASE o[p] = 48
  <2>1. NumberEnd(o, p) = p + 1
    BY <1>2, <1>3
  <2> QED
    BY <1>1, <1>3, <2>1
<1>4. CASE o[p] # 48 /\ others # {}
  <2>1. NumberEnd(o, p) = Min(others)
    <3> HIDE DEF others
    <3> QED
      BY <1>2, <1>4
  <2>2. Min(others) \in others /\ \A y \in others : Min(others) <= y
    <3> HIDE DEF others
    <3> QED
      BY <1>1, <1>4, LeastIs
  <2> DEFINE m == Min(others)
  <2> HIDE DEF m
  <2>3. m \in p .. Len(o) /\ o[m] \notin DIGIT
    BY <2>2 DEF m
  <2>4. \A i \in p .. Len(o) : i < m => o[i] \in DIGIT
    BY <2>2, <2>3 DEF m
  <2>5. NumberEnd(o, p) = m
    BY <2>1 DEF m
  <2>6. m # p
    BY <2>3
  <2> QED
    BY <1>1, <1>4, <2>3, <2>4, <2>5, <2>6
<1>5. CASE o[p] # 48 /\ others = {}
  <2>1. NumberEnd(o, p) = Len(o) + 1
    <3> HIDE DEF others
    <3> QED
      BY <1>2, <1>5
  <2>2. \A i \in p .. Len(o) : o[i] \in DIGIT
    BY <1>5
  <2> QED
    BY <1>1, <1>5, <2>1, <2>2
<1> QED
  BY <1>3, <1>4, <1>5

\* The search over the numbers of a type, from one dot to the next
\* (numericoid_validate).
LEMMA OidFromPass ==
    ASSUME NEW o \in Signs
    PROVE  \E from : /\ NumericOid(o) <=> from[1]
                     /\ \A p \in 1 .. Len(o) : from[p] <=>
                          /\ o[p] \in DIGIT
                          /\ \/ NumberEnd(o, p) > Len(o) /\ p > 1
                             \/ /\ NumberEnd(o, p) < Len(o)
                                /\ o[NumberEnd(o, p)] = DOT /\ from[NumberEnd(o, p) + 1]
<1> DEFINE A == 1 .. Len(o) + 1
           over == {p \in A : \/ p > Len(o)
                              \/ o[p] \in DIGIT /\ NumberEnd(o, p) > Len(o) /\ (FALSE \/ p > 1)}
           steps == {<<p, NumberEnd(o, p) + 1>> :
                        p \in {q \in A : /\ o[q] \in DIGIT /\ NumberEnd(o, q) < Len(o)
                                         /\ o[NumberEnd(o, q)] = DOT}}
           Unfolds(g) == g = [p \in 1 .. Len(o) + 1 |->
            \/ p > Len(o)
            \/ o[p] \in DIGIT /\ NumberEnd(o, p) > Len(o) /\ (FALSE \/ p > 1)
            \/ /\ o[p] \in DIGIT /\ NumberEnd(o, p) < Len(o)
               /\ o[NumberEnd(o, p)] = DOT /\ g[NumberEnd(o, p) + 1]]
           from[p \in 1 .. Len(o) + 1] ==
            \/ p > Len(o)
            \/ o[p] \in DIGIT /\ NumberEnd(o, p) > Len(o) /\ (FALSE \/ p > 1)
            \/ /\ o[p] \in DIGIT /\ NumberEnd(o, p) < Len(o)
               /\ o[NumberEnd(o, p)] = DOT /\ from[NumberEnd(o, p) + 1]
<1>1. Len(o) \in Nat /\ 1 \in Nat /\ Len(o) + 1 \in Nat
  BY DEF Signs
<1>2. ASSUME NEW g, NEW p \in A
      PROVE  (\/ p > Len(o)
              \/ o[p] \in DIGIT /\ NumberEnd(o, p) > Len(o) /\ (FALSE \/ p > 1)
              \/ /\ o[p] \in DIGIT /\ NumberEnd(o, p) < Len(o)
                 /\ o[NumberEnd(o, p)] = DOT /\ g[NumberEnd(o, p) + 1])
             <=> (p \in over \/ \E j \in (p + 1) .. Len(o) + 1 : <<p, j>> \in steps /\ g[j])
  <2>1. \A j : <<p, j>> \in steps <=>
           /\ o[p] \in DIGIT /\ NumberEnd(o, p) < Len(o) /\ o[NumberEnd(o, p)] = DOT
           /\ j = NumberEnd(o, p) + 1
    OBVIOUS
  <2>2. p \in over <=> \/ p > Len(o)
                       \/ o[p] \in DIGIT /\ NumberEnd(o, p) > Len(o) /\ (FALSE \/ p > 1)
    OBVIOUS
  <2>3. ASSUME p \notin over, o[p] \in DIGIT, NumberEnd(o, p) < Len(o)
        PROVE  NumberEnd(o, p) + 1 \in (p + 1) .. Len(o) + 1
    <3>1. p \in 1 .. Len(o)
      BY <1>1, <2>3
    <3>2. NumberEnd(o, p) \in (p + 1) .. Len(o) + 1
      BY <2>3, <3>1, NumberEndIs
    <3> QED
      BY <1>1, <2>3, <3>1, <3>2
  <2> HIDE DEF over, steps
  <2>4. CASE p \in over
    BY <2>2, <2>4
  <2>5. CASE p \notin over
    <3>1. ~(p > Len(o))
          /\ ~(o[p] \in DIGIT /\ NumberEnd(o, p) > Len(o) /\ (FALSE \/ p > 1))
      BY <2>2, <2>5
    <3>2. (\E j \in (p + 1) .. Len(o) + 1 : <<p, j>> \in steps /\ g[j])
          <=> /\ o[p] \in DIGIT /\ NumberEnd(o, p) < Len(o) /\ o[NumberEnd(o, p)] = DOT
              /\ g[NumberEnd(o, p) + 1]
      <4> DEFINE n == NumberEnd(o, p) + 1
                 Goes == o[p] \in DIGIT /\ NumberEnd(o, p) < Len(o) /\ o[NumberEnd(o, p)] = DOT
      <4>1. \A j : <<p, j>> \in steps <=> Goes /\ j = n
        BY <2>1
      <4>2. Goes => n \in (p + 1) .. Len(o) + 1
        BY <2>3, <2>5
      <4> HIDE DEF n, Goes
      <4>3. (\E j \in (p + 1) .. Len(o) + 1 : <<p, j>> \in steps /\ g[j]) <=> Goes /\ g[n]
        BY <4>1, <4>2
      <4> QED
        BY <4>3 DEF n, Goes
    <3> QED
      BY <2>5, <3>1, <3>2
  <2> QED
    BY <2>4, <2>5
<1>3. \A g : Unfolds(g) <=> SearchesTo(g, 1, Len(o) + 1, over, steps)
  <2> DEFINE Here(g, p) ==
                \/ p > Len(o)
                \/ o[p] \in DIGIT /\ NumberEnd(o, p) > Len(o) /\ (FALSE \/ p > 1)
                \/ /\ o[p] \in DIGIT /\ NumberEnd(o, p) < Len(o)
                   /\ o[NumberEnd(o, p)] = DOT /\ g[NumberEnd(o, p) + 1]
             There(g, p) == p \in over \/ \E j \in (p + 1) .. Len(o) + 1 : <<p, j>> \in steps /\ g[j]
  <2>1. \A g : \A p \in A : Here(g, p) = There(g, p)
    <3> HIDE DEF over, steps
    <3> QED
      BY <1>2
  <2> HIDE DEF over, steps, Here, There
  <2>2. \A g : [p \in A |-> Here(g, p)] = [p \in A |-> There(g, p)]
    BY <2>1
  <2> QED
    BY <2>2 DEF SearchesTo, Here, There
<1>4. Unfolds(from)
  <2>1. from = CHOOSE g : Unfolds(g)
    BY DEF from
  <2> DEFINE lo == 1
             hi == Len(o) + 1
  <2>2. lo \in Nat /\ hi \in Nat
    BY <1>1
  <2> HIDE DEF over, steps, lo, hi
  <2>3. PICK f : SearchesTo(f, lo, hi, over, steps)
    BY <2>2, SearchesEnd, Zenon
  <2>4. Unfolds(f)
    BY <1>3, <2>3 DEF lo, hi
  <2> HIDE DEF Unfolds, from
  <2> QED
    BY <2>1, <2>4
<1>5. NumericOid(o) = from[1]
  BY DEF NumericOid, OidFrom
<1> HIDE DEF from, over, steps
<1>6. \A p \in A : from[p] <=>
              \/ p > Len(o)
              \/ o[p] \in DIGIT /\ NumberEnd(o, p) > Len(o) /\ (FALSE \/ p > 1)
              \/ /\ o[p] \in DIGIT /\ NumberEnd(o, p) < Len(o)
                 /\ o[NumberEnd(o, p)] = DOT /\ from[NumberEnd(o, p) + 1]
  BY <1>4
<1>7. \A p \in 1 .. Len(o) : p \in A /\ ~(p > Len(o))
  BY <1>1
<1>8. \A p \in 1 .. Len(o) : from[p] <=>
                          /\ o[p] \in DIGIT
                          /\ \/ NumberEnd(o, p) > Len(o) /\ p > 1
                             \/ /\ NumberEnd(o, p) < Len(o)
                                /\ o[NumberEnd(o, p)] = DOT /\ from[NumberEnd(o, p) + 1]
  BY <1>6, <1>7
<1> QED
  BY <1>5, <1>8

(***************************************************************************)
(* The words of the grammar, piece by piece.                                *)
(***************************************************************************)

\* Where the rest of a word is made of items.
ItemsFrom(w, f) ==
    /\ IsItems(w) <=> f[0]
    /\ \A i \in 0 .. Len(w) :
          f[i] <=> \/ i = Len(w)
                   \/ \E j \in (i + 1) .. Len(w) : IsItem(SubSeq(w, i + 1, j)) /\ f[j]

\* There are such places.
LEMMA ItemsRead ==
    ASSUME NEW w \in Signs
    PROVE  \E f : ItemsFrom(w, f)
<1> DEFINE A == 0 .. Len(w)
           over == {i \in A : i = Len(w)}
           steps == {q \in A \X A : IsItem(SubSeq(w, q[1] + 1, q[2]))}
           Step(i, j) == IsItem(SubSeq(w, i + 1, j))
           Unfolds(g) == g = [i \in 0 .. Len(w) |->
              i = Len(w) \/ \E n \in (i + 1)..Len(w) : IsItem(SubSeq(w, i + 1, n)) /\ g[n]]
           items[i \in 0 .. Len(w)] ==
              i = Len(w) \/ \E n \in (i + 1)..Len(w) : IsItem(SubSeq(w, i + 1, n)) /\ items[n]
           Here(g, i) == i = Len(w) \/ \E n \in (i + 1)..Len(w) : IsItem(SubSeq(w, i + 1, n)) /\ g[n]
           There(g, i) == i \in over \/ \E j \in (i + 1) .. Len(w) : <<i, j>> \in steps /\ g[j]
<1>1. Len(w) \in Nat /\ 0 \in Nat
  BY DEF Signs
<1>2. ASSUME NEW g, NEW i \in A PROVE Here(g, i) <=> There(g, i)
  <2>1. i \in over <=> i = Len(w)
    OBVIOUS
  <2>2. ASSUME NEW j \in (i + 1) .. Len(w) PROVE <<i, j>> \in steps <=> Step(i, j)
    <3>1. j \in A
      BY <1>1
    <3> QED
      BY <3>1
  <2> HIDE DEF over, steps
  <2> QED
    BY <2>1, <2>2
<1>3. \A g : Unfolds(g) <=> SearchesTo(g, 0, Len(w), over, steps)
  <2>1. \A g : \A i \in A : Here(g, i) = There(g, i)
    <3> HIDE DEF over, steps
    <3> QED
      BY <1>2
  <2> HIDE DEF over, steps, Here, There
  <2>2. \A g : [i \in A |-> Here(g, i)] = [i \in A |-> There(g, i)]
    BY <2>1
  <2> QED
    BY <2>2 DEF SearchesTo, Here, There
<1>4. Unfolds(items)
  <2>1. items = CHOOSE g : Unfolds(g)
    BY DEF items
  <2> DEFINE lo == 0
             hi == Len(w)
  <2>2. lo \in Nat /\ hi \in Nat
    BY <1>1
  <2> HIDE DEF over, steps, lo, hi
  <2>3. PICK f : SearchesTo(f, lo, hi, over, steps)
    BY <2>2, SearchesEnd, Zenon
  <2>4. Unfolds(f)
    BY <1>3, <2>3 DEF lo, hi
  <2> HIDE DEF Unfolds, items
  <2> QED
    BY <2>1, <2>4
<1>5. IsItems(w) = items[0]
  BY DEF IsItems
<1> HIDE DEF items, over, steps
<1>6. \A i \in A : items[i] <=>
              i = Len(w) \/ \E n \in (i + 1)..Len(w) : IsItem(SubSeq(w, i + 1, n)) /\ items[n]
  BY <1>4
<1>7. ItemsFrom(w, items)
  BY <1>5, <1>6 DEF ItemsFrom
<1> QED
  BY <1>7

\* Where the rest of a word is values and plus signs.
RdnsFrom(w, f) ==
    /\ IsRdn(w) <=> f[0]
    /\ \A i \in 0 .. Len(w) :
          f[i] <=> \/ IsTypeAndValue(After(w, i))
                   \/ \E j \in (i + 1) .. Len(w) : w[j] = PLUS /\ IsTypeAndValue(SubSeq(w, i + 1, j - 1)) /\ f[j]

\* There are such places.
LEMMA RdnsRead ==
    ASSUME NEW w \in Signs
    PROVE  \E f : RdnsFrom(w, f)
<1> DEFINE A == 0 .. Len(w)
           over == {i \in A : IsTypeAndValue(After(w, i))}
           steps == {q \in A \X A : w[q[2]] = PLUS /\ IsTypeAndValue(SubSeq(w, q[1] + 1, q[2] - 1))}
           Step(i, j) == w[j] = PLUS /\ IsTypeAndValue(SubSeq(w, i + 1, j - 1))
           Unfolds(g) == g = [i \in 0 .. Len(w) |->
              \/ IsTypeAndValue(After(w, i))
              \/ \E j \in (i + 1)..Len(w) :
                    w[j] = PLUS /\ IsTypeAndValue(SubSeq(w, i + 1, j - 1)) /\ g[j]]
           rdn[i \in 0 .. Len(w)] ==
              \/ IsTypeAndValue(After(w, i))
              \/ \E j \in (i + 1)..Len(w) :
                    w[j] = PLUS /\ IsTypeAndValue(SubSeq(w, i + 1, j - 1)) /\ rdn[j]
           Here(g, i) == \/ IsTypeAndValue(After(w, i))
              \/ \E j \in (i + 1)..Len(w) :
                    w[j] = PLUS /\ IsTypeAndValue(SubSeq(w, i + 1, j - 1)) /\ g[j]
           There(g, i) == i \in over \/ \E j \in (i + 1) .. Len(w) : <<i, j>> \in steps /\ g[j]
<1>1. Len(w) \in Nat /\ 0 \in Nat
  BY DEF Signs
<1>2. ASSUME NEW g, NEW i \in A PROVE Here(g, i) <=> There(g, i)
  <2>1. i \in over <=> IsTypeAndValue(After(w, i))
    OBVIOUS
  <2>2. ASSUME NEW j \in (i + 1) .. Len(w) PROVE <<i, j>> \in steps <=> Step(i, j)
    <3>1. j \in A
      BY <1>1
    <3> QED
      BY <3>1
  <2> HIDE DEF over, steps
  <2> QED
    BY <2>1, <2>2
<1>3. \A g : Unfolds(g) <=> SearchesTo(g, 0, Len(w), over, steps)
  <2>1. \A g : \A i \in A : Here(g, i) = There(g, i)
    <3> HIDE DEF over, steps
    <3> QED
      BY <1>2
  <2> HIDE DEF over, steps, Here, There
  <2>2. \A g : [i \in A |-> Here(g, i)] = [i \in A |-> There(g, i)]
    BY <2>1
  <2> QED
    BY <2>2 DEF SearchesTo, Here, There
<1>4. Unfolds(rdn)
  <2>1. rdn = CHOOSE g : Unfolds(g)
    BY DEF rdn
  <2> DEFINE lo == 0
             hi == Len(w)
  <2>2. lo \in Nat /\ hi \in Nat
    BY <1>1
  <2> HIDE DEF over, steps, lo, hi
  <2>3. PICK f : SearchesTo(f, lo, hi, over, steps)
    BY <2>2, SearchesEnd, Zenon
  <2>4. Unfolds(f)
    BY <1>3, <2>3 DEF lo, hi
  <2> HIDE DEF Unfolds, rdn
  <2> QED
    BY <2>1, <2>4
<1>5. IsRdn(w) = rdn[0]
  BY DEF IsRdn
<1> HIDE DEF rdn, over, steps
<1>6. \A i \in A : rdn[i] <=>
              \/ IsTypeAndValue(After(w, i))
              \/ \E j \in (i + 1)..Len(w) :
                    w[j] = PLUS /\ IsTypeAndValue(SubSeq(w, i + 1, j - 1)) /\ rdn[j]
  BY <1>4
<1>7. RdnsFrom(w, rdn)
  BY <1>5, <1>6 DEF RdnsFrom
<1> QED
  BY <1>7

\* Where the rest of a word is parts and commas.
DnsFrom(w, f) ==
    /\ IsDn(w) <=> f[0]
    /\ \A i \in 0 .. Len(w) :
          f[i] <=> \/ IsRdn(After(w, i))
                   \/ \E j \in (i + 1) .. Len(w) : w[j] = COMMA /\ IsRdn(SubSeq(w, i + 1, j - 1)) /\ f[j]

\* There are such places.
LEMMA DnsRead ==
    ASSUME NEW w \in Signs
    PROVE  \E f : DnsFrom(w, f)
<1> DEFINE A == 0 .. Len(w)
           over == {i \in A : IsRdn(After(w, i))}
           steps == {q \in A \X A : w[q[2]] = COMMA /\ IsRdn(SubSeq(w, q[1] + 1, q[2] - 1))}
           Step(i, j) == w[j] = COMMA /\ IsRdn(SubSeq(w, i + 1, j - 1))
           Unfolds(g) == g = [i \in 0 .. Len(w) |->
              \/ IsRdn(After(w, i))
              \/ \E j \in (i + 1)..Len(w) :
                    w[j] = COMMA /\ IsRdn(SubSeq(w, i + 1, j - 1)) /\ g[j]]
           dn[i \in 0 .. Len(w)] ==
              \/ IsRdn(After(w, i))
              \/ \E j \in (i + 1)..Len(w) :
                    w[j] = COMMA /\ IsRdn(SubSeq(w, i + 1, j - 1)) /\ dn[j]
           Here(g, i) == \/ IsRdn(After(w, i))
              \/ \E j \in (i + 1)..Len(w) :
                    w[j] = COMMA /\ IsRdn(SubSeq(w, i + 1, j - 1)) /\ g[j]
           There(g, i) == i \in over \/ \E j \in (i + 1) .. Len(w) : <<i, j>> \in steps /\ g[j]
<1>1. Len(w) \in Nat /\ 0 \in Nat
  BY DEF Signs
<1>2. ASSUME NEW g, NEW i \in A PROVE Here(g, i) <=> There(g, i)
  <2>1. i \in over <=> IsRdn(After(w, i))
    OBVIOUS
  <2>2. ASSUME NEW j \in (i + 1) .. Len(w) PROVE <<i, j>> \in steps <=> Step(i, j)
    <3>1. j \in A
      BY <1>1
    <3> QED
      BY <3>1
  <2> HIDE DEF over, steps
  <2> QED
    BY <2>1, <2>2
<1>3. \A g : Unfolds(g) <=> SearchesTo(g, 0, Len(w), over, steps)
  <2>1. \A g : \A i \in A : Here(g, i) = There(g, i)
    <3> HIDE DEF over, steps
    <3> QED
      BY <1>2
  <2> HIDE DEF over, steps, Here, There
  <2>2. \A g : [i \in A |-> Here(g, i)] = [i \in A |-> There(g, i)]
    BY <2>1
  <2> QED
    BY <2>2 DEF SearchesTo, Here, There
<1>4. Unfolds(dn)
  <2>1. dn = CHOOSE g : Unfolds(g)
    BY DEF dn
  <2> DEFINE lo == 0
             hi == Len(w)
  <2>2. lo \in Nat /\ hi \in Nat
    BY <1>1
  <2> HIDE DEF over, steps, lo, hi
  <2>3. PICK f : SearchesTo(f, lo, hi, over, steps)
    BY <2>2, SearchesEnd, Zenon
  <2>4. Unfolds(f)
    BY <1>3, <2>3 DEF lo, hi
  <2> HIDE DEF Unfolds, dn
  <2> QED
    BY <2>1, <2>4
<1>5. IsDn(w) = dn[0]
  BY DEF IsDn
<1> HIDE DEF dn, over, steps
<1>6. \A i \in A : dn[i] <=>
              \/ IsRdn(After(w, i))
              \/ \E j \in (i + 1)..Len(w) :
                    w[j] = COMMA /\ IsRdn(SubSeq(w, i + 1, j - 1)) /\ dn[j]
  BY <1>4
<1>7. DnsFrom(w, dn)
  BY <1>5, <1>6 DEF DnsFrom
<1> QED
  BY <1>7

\* A piece of a word.
LEMMA PieceIs ==
    ASSUME NEW s \in Signs, NEW p \in 1 .. Len(s) + 1, NEW q \in (p - 1) .. Len(s)
    PROVE  /\ SubSeq(s, p, q) \in Signs
           /\ Len(SubSeq(s, p, q)) = q - p + 1
           /\ \A i \in 1 .. q - p + 1 : SubSeq(s, p, q)[i] = s[p + i - 1]
  BY DEF Signs

\* A piece of a piece.
LEMMA PieceOfPiece ==
    ASSUME NEW s \in Signs, NEW p \in 1 .. Len(s) + 1, NEW q \in (p - 1) .. Len(s),
           NEW i \in 0 .. q - p + 1, NEW j \in i .. q - p + 1
    PROVE  SubSeq(SubSeq(s, p, q), i + 1, j) = SubSeq(s, p + i, p + j - 1)
<1> DEFINE w == SubSeq(s, p, q)
           u == SubSeq(w, i + 1, j)
           v == SubSeq(s, p + i, p + j - 1)
<1>0. Len(s) \in Nat
  BY DEF Signs
<1>1. w \in Signs /\ Len(w) = q - p + 1 /\ \A k \in 1 .. q - p + 1 : w[k] = s[p + k - 1]
  BY PieceIs
<1>2. i + 1 \in 1 .. Len(w) + 1 /\ j \in (i + 1) - 1 .. Len(w)
  BY <1>0, <1>1
<1> HIDE DEF w
<1>3. u \in Signs /\ Len(u) = j - i /\ \A k \in 1 .. j - i : u[k] = w[i + k]
  <2>1. u \in Signs /\ Len(u) = j - (i + 1) + 1
        /\ \A k \in 1 .. j - (i + 1) + 1 : u[k] = w[i + 1 + k - 1]
    BY <1>1, <1>2, PieceIs
  <2> QED
    BY <1>0, <2>1
<1>4. p + i \in 1 .. Len(s) + 1 /\ p + j - 1 \in (p + i) - 1 .. Len(s)
  BY <1>0
<1>5. v \in Signs /\ Len(v) = j - i /\ \A k \in 1 .. j - i : v[k] = s[p + i + k - 1]
  <2>1. v \in Signs /\ Len(v) = (p + j - 1) - (p + i) + 1
        /\ \A k \in 1 .. (p + j - 1) - (p + i) + 1 : v[k] = s[p + i + k - 1]
    BY <1>4, PieceIs
  <2> QED
    BY <1>0, <2>1
<1> HIDE DEF u, v
<1>6. \A k \in 1 .. j - i : u[k] = v[k]
  <2> TAKE k \in 1 .. j - i
  <2>1. i + k \in 1 .. q - p + 1 /\ p + (i + k) - 1 = p + i + k - 1
    BY <1>0
  <2> QED
    BY <1>1, <1>3, <1>5, <2>1
<1>7. u = v
  BY <1>3, <1>5, <1>6 DEF Signs
<1> QED
  BY <1>7 DEF u, v, w

\* keystring_validate takes the keystrings.
LEMMA KeyStringsAgree ==
    ASSUME NEW k \in Signs
    PROVE  KeyString(k) <=> IsKeyString(k)
<1>1. Len(k) \in Nat /\ (k # <<>> => 1 \in 1 .. Len(k))
  BY DEF Signs
<1>2. \A i \in 1 .. Len(k) : i = 1 \/ i \in 2 .. Len(k)
  BY <1>1
<1>3. \A i \in 2 .. Len(k) : i \in 1 .. Len(k)
  BY <1>1
<1> QED
  BY <1>1, <1>2, <1>3 DEF KeyString, IsKeyString

\* The dots of a word, and what is between one and the next.
DotsOf(o) == {i \in 1 .. Len(o) : o[i] = DOT}

NumberAfter(o, i) ==
    \E j \in DotsOf(o) \union {Len(o) + 1} : i < j /\ IsNumber(SubSeq(o, i + 1, j - 1))

\* numericoid_validate finds the end of a number where the grammar has it.
LEMMA NumberIsRead ==
    ASSUME NEW o \in Signs, NEW p \in 1 .. Len(o),
           NEW j \in (DotsOf(o) \union {Len(o) + 1}), p - 1 < j
    PROVE  IsNumber(SubSeq(o, p, j - 1)) <=> o[p] \in DIGIT /\ NumberEnd(o, p) = j
<1>1. Len(o) \in Nat /\ j \in 1 .. Len(o) + 1 /\ (j <= Len(o) => o[j] = DOT)
  BY DEF Signs, DotsOf
<1> DEFINE w == SubSeq(o, p, j - 1)
<1>2. w \in Signs /\ Len(w) = j - p /\ \A i \in 1 .. j - p : w[i] = o[p + i - 1]
  <2>1. p \in 1 .. Len(o) + 1 /\ j - 1 \in (p - 1) .. Len(o)
    BY <1>1
  <2>2. w \in Signs /\ Len(w) = (j - 1) - p + 1
        /\ \A i \in 1 .. (j - 1) - p + 1 : w[i] = o[p + i - 1]
    BY <2>1, PieceIs
  <2> QED
    BY <1>1, <2>2
<1>3. DOT \notin DIGIT /\ 48 \in DIGIT
  BY DEF DOT, DIGIT
<1> HIDE DEF w
<1>4. ASSUME IsNumber(w) PROVE o[p] \in DIGIT /\ NumberEnd(o, p) = j
  <2>1. w # <<>> /\ (\A i \in 1 .. Len(w) : w[i] \in DIGIT) /\ (Len(w) > 1 => w[1] # 48)
    BY <1>4 DEF IsNumber
  <2>2. j > p
    BY <1>1, <1>2, <2>1 DEF Signs
  <2>3. \A i \in p .. j - 1 : o[i] \in DIGIT
    <3> TAKE i \in p .. j - 1
    <3>1. i - p + 1 \in 1 .. j - p /\ p + (i - p + 1) - 1 = i
      BY <1>1
    <3>2. w[i - p + 1] \in DIGIT /\ w[i - p + 1] = o[i]
      BY <1>2, <2>1, <3>1
    <3> QED
      BY <3>2
  <2>4. o[p] \in DIGIT
    BY <1>1, <2>2, <2>3
  <2> DEFINE e == NumberEnd(o, p)
  <2>5. /\ e \in (p + 1) .. Len(o) + 1
        /\ \A i \in p .. (e - 1) : o[i] \in DIGIT
        /\ o[p] = 48 => e = p + 1
        /\ o[p] # 48 /\ e <= Len(o) => o[e] \notin DIGIT
    BY <2>4, NumberEndIs
  <2> HIDE DEF e
  <2>6. CASE o[p] = 48
    <3>1. w[1] = o[p]
      BY <1>1, <1>2, <2>2
    <3>2. j - p = 1
      BY <1>1, <1>2, <2>1, <2>2, <2>6, <3>1
    <3> QED
      BY <1>1, <2>4, <2>5, <2>6, <3>2 DEF e
  <2>7. CASE o[p] # 48
    <3>1. ~(e < j)
      BY <1>1, <2>3, <2>5, <2>7
    <3>2. ~(j < e)
      BY <1>1, <1>3, <2>2, <2>5
    <3> QED
      BY <1>1, <2>4, <2>5, <3>1, <3>2 DEF e
  <2> QED
    BY <2>6, <2>7
<1>5. ASSUME o[p] \in DIGIT, NumberEnd(o, p) = j PROVE IsNumber(w)
  <2>5. /\ j \in (p + 1) .. Len(o) + 1
        /\ \A i \in p .. (j - 1) : o[i] \in DIGIT
        /\ o[p] = 48 => j = p + 1
    BY <1>5, NumberEndIs
  <2>1. w # <<>>
    BY <1>1, <1>2, <2>5
  <2>2. \A i \in 1 .. Len(w) : w[i] \in DIGIT
    BY <1>1, <1>2, <2>5
  <2>3. Len(w) > 1 => w[1] # 48
    BY <1>1, <1>2, <2>5
  <2> QED
    BY <2>1, <2>2, <2>3 DEF IsNumber
<1> QED
  BY <1>4, <1>5 DEF w

\* numericoid_validate takes the dotted numbers.
LEMMA NumericOidsAgree ==
    ASSUME NEW o \in Signs, o # <<>>
    PROVE  NumericOid(o) <=> IsNumericOid(o)
<1> DEFINE Rest(p) == /\ p > 1 \/ DotsOf(o) # {}
                      /\ \A i \in DotsOf(o) \union {p - 1} : i >= p - 1 => NumberAfter(o, i)
<1>1. Len(o) \in Nat /\ 1 \in Nat /\ 1 \in 1 .. Len(o)
  BY DEF Signs
<1>2. PICK from : /\ NumericOid(o) <=> from[1]
                  /\ \A p \in 1 .. Len(o) : from[p] <=>
                       /\ o[p] \in DIGIT
                       /\ \/ NumberEnd(o, p) > Len(o) /\ p > 1
                          \/ /\ NumberEnd(o, p) < Len(o)
                             /\ o[NumberEnd(o, p)] = DOT /\ from[NumberEnd(o, p) + 1]
  BY OidFromPass
<1>3. \A q : q > 1 =>
          (Rest(q) <=> \A i \in DotsOf(o) \union {q - 1} : i >= q - 1 => NumberAfter(o, i))
  OBVIOUS
<1> DEFINE Good == {p \in 1 .. Len(o) : (p = 1 \/ o[p - 1] = DOT) => (from[p] <=> Rest(p))}
<1>4. ASSUME NEW p \in 1 .. Len(o), \A j \in (p + 1) .. Len(o) : j \in Good
      PROVE  p \in Good
  <2> SUFFICES ASSUME p = 1 \/ o[p - 1] = DOT PROVE from[p] <=> Rest(p)
    OBVIOUS
  <2> DEFINE e == NumberEnd(o, p)
             dots == DotsOf(o)
  <2>1. NumberAfter(o, p - 1) <=> o[p] \in DIGIT /\ e \in dots \union {Len(o) + 1}
    <3>1. \A j \in dots \union {Len(o) + 1} : p - 1 < j =>
            (IsNumber(SubSeq(o, p, j - 1)) <=> o[p] \in DIGIT /\ e = j)
      BY NumberIsRead
    <3>2. o[p] \in DIGIT => p - 1 < e
      <4>1. o[p] \in DIGIT => e \in (p + 1) .. Len(o) + 1
        BY NumberEndIs
      <4> QED
        BY <1>1, <4>1
    <3>3. p - 1 + 1 = p
      OBVIOUS
    <3> HIDE DEF e, dots
    <3> QED
      BY <3>1, <3>2, <3>3 DEF NumberAfter, dots
  <2>2. o[p] \in DIGIT => e \in (p + 1) .. Len(o) + 1 /\ \A i \in p .. (e - 1) : o[i] \in DIGIT
    BY NumberEndIs
  <2>3. DOT \notin DIGIT /\ dots \subseteq 1 .. Len(o) /\ \A i \in 1 .. Len(o) : i \in dots <=> o[i] = DOT
    BY DEF DOT, DIGIT, DotsOf
  <2>4. from[p] <=> /\ o[p] \in DIGIT
                    /\ \/ e > Len(o) /\ p > 1
                       \/ e < Len(o) /\ o[e] = DOT /\ from[e + 1]
    BY <1>2
  <2> HIDE DEF e, dots
  <2>5. CASE ~(o[p] \in DIGIT /\ e \in dots \union {Len(o) + 1})
    <3>1. ~NumberAfter(o, p - 1)
      BY <2>1, <2>5
    <3>2. ~Rest(p)
      BY <3>1
    <3>3. ~from[p]
      BY <1>1, <2>2, <2>3, <2>4, <2>5
    <3> QED
      BY <3>2, <3>3
  <2>6. CASE o[p] \in DIGIT /\ e = Len(o) + 1
    <3>1. \A i \in dots : i < p
      BY <1>1, <2>2, <2>3, <2>6
    <3>2. NumberAfter(o, p - 1)
      BY <2>1, <2>6
    <3>3. from[p] <=> p > 1
      BY <1>1, <2>4, <2>6
    <3>4. p = 1 => dots = {}
      BY <1>1, <2>3, <3>1
    <3>5. p > 1 => p - 1 \in dots
      BY <1>1, <2>3
    <3>6. \A i \in dots \union {p - 1} : i >= p - 1 => i = p - 1
      BY <1>1, <2>3, <3>1
    <3> QED
      BY <1>1, <3>2, <3>3, <3>4, <3>6 DEF dots
  <2>7. CASE o[p] \in DIGIT /\ e \in dots
    <3>1. e \in 1 .. Len(o) /\ o[e] = DOT /\ e >= p + 1
      BY <1>1, <2>2, <2>3, <2>7
    <3>2. \A i \in dots : i < p \/ i >= e
      BY <1>1, <2>2, <2>3, <2>7, <3>1
    <3>3. NumberAfter(o, p - 1)
      BY <2>1, <2>7
    <3>4. CASE e = Len(o)
      <4>1. ~NumberAfter(o, e)
        <5> SUFFICES ASSUME NEW j \in DotsOf(o) \union {Len(o) + 1}, e < j,
                            IsNumber(SubSeq(o, e + 1, j - 1))
                     PROVE  FALSE
          BY DEF NumberAfter
        <5>1. j = Len(o) + 1
          BY <1>1, <2>3, <3>1, <3>4 DEF dots
        <5>2. SubSeq(o, e + 1, j - 1) = <<>>
          BY <1>1, <3>1, <3>4, <5>1 DEF Signs
        <5> QED
          BY <5>2 DEF IsNumber
      <4>2. e >= p - 1
        BY <1>1, <3>1
      <4>3. ~Rest(p)
        BY <2>7, <4>1, <4>2 DEF dots
      <4>4. ~from[p]
        BY <1>1, <2>4, <3>1, <3>4
      <4> QED
        BY <4>3, <4>4
    <3>5. CASE e # Len(o)
      <4>1. e + 1 \in (p + 1) .. Len(o) /\ e + 1 - 1 = e
        BY <1>1, <3>1, <3>5
      <4>2. from[e + 1] <=> Rest(e + 1)
        <5>1. e + 1 \in Good
          BY <1>4, <4>1
        <5> QED
          BY <3>1, <4>1, <5>1
      <4>3. from[p] <=> from[e + 1]
        BY <1>1, <2>4, <2>7, <3>1, <3>5
      <4>4. Rest(e + 1) <=> \A i \in dots : i >= e => NumberAfter(o, i)
        <5> DEFINE q == e + 1
        <5>1. q > 1 /\ q - 1 = e
          BY <1>1, <3>1
        <5> HIDE DEF q, Rest
        <5>2. Rest(q) <=> \A i \in dots \union {q - 1} : i >= q - 1 => NumberAfter(o, i)
          BY <1>3, <5>1 DEF dots
        <5>3. dots \union {q - 1} = dots
          BY <2>7, <5>1
        <5> QED
          BY <5>1, <5>2, <5>3 DEF q
      <4>5. Rest(p) <=> \A i \in dots : i >= e => NumberAfter(o, i)
        <5>1. \A i \in dots : i >= e => i >= p - 1
          BY <1>1, <2>3, <3>1
        <5>2. \A i \in dots \union {p - 1} : i >= p - 1 => i = p - 1 \/ i >= e
          BY <1>1, <2>3, <3>1, <3>2
        <5>3. dots # {}
          BY <2>7
        <5> QED
          BY <3>3, <5>1, <5>2, <5>3 DEF dots
      <4> QED
        BY <4>2, <4>3, <4>4, <4>5
    <3> QED
      BY <3>4, <3>5
  <2> QED
    BY <2>5, <2>6, <2>7
<1>5. Good \in SUBSET (1 .. Len(o))
  OBVIOUS
<1>6. Good = 1 .. Len(o)
  <2> HIDE DEF Good
  <2> QED
    BY <1>1, <1>4, <1>5, FromTheEnd
<1>7. NumericOid(o) <=> Rest(1)
  BY <1>1, <1>2, <1>6
<1>8. Rest(1) <=> IsNumericOid(o)
  <2>1. \A i \in DotsOf(o) \union {1 - 1} : i >= 1 - 1
    BY <1>1 DEF DotsOf
  <2>2. 1 - 1 = 0 /\ ~(1 > 1)
    OBVIOUS
  <2>3. Rest(1) <=> DotsOf(o) # {} /\ \A i \in DotsOf(o) \union {0} : NumberAfter(o, i)
    BY <2>1, <2>2
  <2>4. IsNumericOid(o) <=> DotsOf(o) # {} /\ \A i \in DotsOf(o) \union {0} : NumberAfter(o, i)
    BY Zenon DEF IsNumericOid, DotsOf, NumberAfter
  <2> QED
    BY <2>3, <2>4
<1> QED
  BY <1>7, <1>8

\* The n bytes before i are the escapes that stand there.
EscapesBefore(w, i, n) ==
    /\ n \in 0 .. (i - 1)
    /\ \A j \in (i - n) .. (i - 1) : w[j] = ESC
    /\ i - n > 1 => w[i - n - 1] # ESC

\* They can be counted, and how many they are follows from place to place.
LEMMA EscapesAreCounted ==
    ASSUME NEW w \in Signs
    PROVE  /\ \A i \in 1 .. Len(w) + 1 : \E n \in Nat : EscapesBefore(w, i, n)
           /\ \A i \in 1 .. Len(w) + 1 : \A n, m : EscapesBefore(w, i, n) /\ EscapesBefore(w, i, m) => n = m
           /\ \A i \in 1 .. Len(w) : \A n : EscapesBefore(w, i, n) =>
                 IF w[i] = ESC THEN EscapesBefore(w, i + 1, n + 1) ELSE EscapesBefore(w, i + 1, 0)
<1>1. Len(w) \in Nat
  BY DEF Signs
<1>2. ASSUME NEW i \in 1 .. Len(w), NEW n, EscapesBefore(w, i, n)
      PROVE  IF w[i] = ESC THEN EscapesBefore(w, i + 1, n + 1) ELSE EscapesBefore(w, i + 1, 0)
  <2>1. n \in 0 .. (i - 1) /\ (\A j \in (i - n) .. (i - 1) : w[j] = ESC)
        /\ (i - n > 1 => w[i - n - 1] # ESC)
    BY <1>2 DEF EscapesBefore
  <2>2. CASE w[i] = ESC
    <3>1. n + 1 \in 0 .. (i + 1 - 1) /\ i + 1 - (n + 1) = i - n /\ i + 1 - 1 = i
      BY <1>1, <2>1
    <3>2. \A j \in (i - n) .. i : w[j] = ESC
      BY <1>1, <2>1, <2>2
    <3> QED
      BY <2>1, <2>2, <3>1, <3>2 DEF EscapesBefore
  <2>3. CASE w[i] # ESC
    <3>1. i + 1 - 0 = i + 1 /\ i + 1 - 0 - 1 = i /\ (i + 1 - 0) .. (i + 1 - 1) = {} /\ 0 \in 0 .. (i + 1 - 1)
      BY <1>1
    <3> QED
      BY <2>3, <3>1 DEF EscapesBefore
  <2> QED
    BY <2>2, <2>3
<1>3. ASSUME NEW i \in 1 .. Len(w) + 1, NEW n, NEW m, EscapesBefore(w, i, n), EscapesBefore(w, i, m), n < m
      PROVE  FALSE
  <2>1. n \in 0 .. (i - 1) /\ m \in 0 .. (i - 1) /\ (i - n > 1 => w[i - n - 1] # ESC)
        /\ \A j \in (i - m) .. (i - 1) : w[j] = ESC
    BY <1>3 DEF EscapesBefore
  <2>2. i - n > 1 /\ i - n - 1 \in (i - m) .. (i - 1)
    BY <1>1, <1>3, <2>1
  <2> QED
    BY <2>1, <2>2
<1>4. ASSUME NEW i \in 1 .. Len(w) + 1, NEW n, NEW m, EscapesBefore(w, i, n), EscapesBefore(w, i, m)
      PROVE  n = m
  <2>1. n \in Int /\ m \in Int
    BY <1>4 DEF EscapesBefore
  <2>2. ~(n < m) /\ ~(m < n)
    BY <1>3, <1>4
  <2> QED
    BY <2>1, <2>2
<1> DEFINE Good == {k \in 0 .. Len(w) : \E n \in Nat : EscapesBefore(w, k + 1, n)}
<1>5. 0 \in Good
  <2>1. EscapesBefore(w, 0 + 1, 0)
    BY DEF EscapesBefore
  <2> QED
    BY <1>1, <2>1
<1>6. ASSUME NEW k \in 1 .. Len(w), k - 1 \in Good
      PROVE  k \in Good
  <2>1. PICK n \in Nat : EscapesBefore(w, k, n)
    BY <1>1, <1>6
  <2>2. IF w[k] = ESC THEN EscapesBefore(w, k + 1, n + 1) ELSE EscapesBefore(w, k + 1, 0)
    BY <1>2, <2>1
  <2>3. n + 1 \in Nat /\ 0 \in Nat /\ k \in 0 .. Len(w)
    BY <1>1
  <2> QED
    BY <2>2, <2>3
<1>7. Good \in SUBSET (0 .. Len(w))
  OBVIOUS
<1>8. Good = 0 .. Len(w)
  <2> HIDE DEF Good
  <2> QED
    BY <1>1, <1>5, <1>6, <1>7, OneByOne
<1>9. \A i \in 1 .. Len(w) + 1 : \E n \in Nat : EscapesBefore(w, i, n)
  <2> TAKE i \in 1 .. Len(w) + 1
  <2>1. i - 1 \in 0 .. Len(w) /\ i - 1 + 1 = i
    BY <1>1
  <2>2. \E n \in Nat : EscapesBefore(w, i - 1 + 1, n)
    BY <1>8, <2>1
  <2> QED
    BY <2>1, <2>2
<1> QED
  BY <1>2, <1>4, <1>9

\* A byte is escaped by an escape that is not.
LEMMA CoveredByEscape ==
    ASSUME NEW w \in Signs, NEW i \in 1 .. Len(w)
    PROVE  Covered(w, i + 1) <=> w[i] = ESC /\ ~Covered(w, i)
<1>1. Len(w) \in Nat /\ i \in 1 .. Len(w) + 1 /\ i + 1 \in 1 .. Len(w) + 1
  BY DEF Signs
<1>2. ASSUME NEW k \in 1 .. Len(w) + 1, NEW n, EscapesBefore(w, k, n)
      PROVE  Covered(w, k) <=> n % 2 = 1
  <2>1. n \in 0 .. (k - 1)
    BY <1>2 DEF EscapesBefore
  <2>2. ASSUME n % 2 = 1 PROVE Covered(w, k)
    <3>1. n # 0
      BY <2>1, <2>2
    <3>2. n \in 1 .. (k - 1)
      BY <1>1, <2>1, <3>1
    <3> QED
      BY <1>2, <2>2, <3>2 DEF Covered, EscapesBefore
  <2>3. ASSUME Covered(w, k) PROVE n % 2 = 1
    <3>1. PICK m \in 1 .. (k - 1) : /\ m % 2 = 1
                                    /\ \A j \in (k - m)..(k - 1) : w[j] = ESC
                                    /\ k - m > 1 => w[k - m - 1] # ESC
      BY <2>3 DEF Covered
    <3>2. m \in 0 .. (k - 1)
      BY <1>1
    <3>3. EscapesBefore(w, k, m)
      BY <3>1, <3>2 DEF EscapesBefore
    <3>4. m = n
      BY <1>2, <3>3, EscapesAreCounted
    <3> QED
      BY <3>1, <3>4
  <2> QED
    BY <2>2, <2>3
<1>3. PICK n \in Nat : EscapesBefore(w, i, n)
  BY <1>1, EscapesAreCounted
<1>4. IF w[i] = ESC THEN EscapesBefore(w, i + 1, n + 1) ELSE EscapesBefore(w, i + 1, 0)
  BY <1>3, EscapesAreCounted
<1>5. Covered(w, i) <=> n % 2 = 1
  BY <1>1, <1>2, <1>3
<1>6. CASE w[i] = ESC
  <2>1. Covered(w, i + 1) <=> (n + 1) % 2 = 1
    BY <1>1, <1>2, <1>4, <1>6
  <2>2. (n + 1) % 2 = 1 <=> ~(n % 2 = 1)
    OBVIOUS
  <2> QED
    BY <1>5, <1>6, <2>1, <2>2
<1>7. CASE w[i] # ESC
  <2>1. Covered(w, i + 1) <=> 0 % 2 = 1
    BY <1>1, <1>2, <1>4, <1>7
  <2> QED
    BY <1>7, <2>1
<1> QED
  BY <1>6, <1>7

\* c is the first of n bytes.
StartsMany(c, n) ==
    \/ n = 2 /\ c \in 194..223
    \/ n = 3 /\ c \in 224..239
    \/ n = 4 /\ c \in 240..244

\* An item of n bytes at p.
ItemAt(s, p, n) ==
    \/ n = 1 /\ s[p] \in UTF1 \ (Escaped \union {ESC})
    \/ n = 2 /\ s[p] = ESC /\ s[p + 1] \in Special \union {ESC}
    \/ n = 3 /\ s[p] = ESC /\ s[p + 1] \in HEX /\ s[p + 2] \in HEX
    \/ /\ StartsMany(s[p], n)
       /\ s[p + 1] \in SecondOf(s[p])
       /\ \A i \in 2 .. (n - 1) : s[p + i] \in UTF0

\* An item that is a piece is one at its place.
LEMMA ItemIsAt ==
    ASSUME NEW s \in Signs, NEW p \in 1 .. Len(s), NEW q \in p .. Len(s)
    PROVE  IsItem(SubSeq(s, p, q)) <=> ItemAt(s, p, q - p + 1)
<1> DEFINE w == SubSeq(s, p, q)
           n == q - p + 1
<1>1. Len(s) \in Nat /\ n \in Nat \ {0} /\ p \in 1 .. Len(s) + 1 /\ q \in (p - 1) .. Len(s)
  BY DEF Signs
<1>2. Len(w) = n /\ \A i \in 1 .. n : w[i] = s[p + i - 1]
  BY <1>1, PieceIs
<1>3. \A i \in 0 .. n - 1 : w[i + 1] = s[p + i]
  <2> TAKE i \in 0 .. n - 1
  <2>1. i + 1 \in 1 .. n /\ p + (i + 1) - 1 = p + i
    BY <1>1
  <2> QED
    BY <1>2, <2>1
<1> HIDE DEF w, n
<1>4. w[1] = s[p]
  <2>1. 0 \in 0 .. n - 1 /\ 0 + 1 = 1 /\ p + 0 = p
    BY <1>1
  <2> QED
    BY <1>3, <2>1
<1>5. n > 1 => w[2] = s[p + 1]
  <2>1. n > 1 => 1 \in 0 .. n - 1
    BY <1>1
  <2> QED
    BY <1>3, <2>1
<1>6. n > 2 => w[3] = s[p + 2]
  <2>1. n > 2 => 2 \in 0 .. n - 1
    BY <1>1
  <2> QED
    BY <1>3, <2>1
<1>7. Len(w) = 1 /\ w[1] \in UTF1 \ (Escaped \union {ESC}) <=> n = 1 /\ s[p] \in UTF1 \ (Escaped \union {ESC})
  BY <1>2, <1>4
<1>8. IsPair(w) <=> \/ n = 2 /\ s[p] = ESC /\ s[p + 1] \in Special \union {ESC}
                    \/ n = 3 /\ s[p] = ESC /\ s[p + 1] \in HEX /\ s[p + 2] \in HEX
  BY <1>1, <1>2, <1>4, <1>5, <1>6 DEF IsPair
<1>9. IsMultiByte(w) <=>
       /\ \/ n = 2 /\ s[p] \in 194..223
          \/ n = 3 /\ s[p] \in 224..239
          \/ n = 4 /\ s[p] \in 240..244
       /\ s[p + 1] \in SecondOf(s[p])
       /\ \A i \in 2 .. (n - 1) : s[p + i] \in UTF0
  <2>1. (\A i \in 3 .. n : w[i] \in UTF0) <=> \A i \in 2 .. (n - 1) : s[p + i] \in UTF0
    <3>1. ASSUME \A i \in 3 .. n : w[i] \in UTF0, NEW i \in 2 .. (n - 1)
          PROVE  s[p + i] \in UTF0
      <4>1. i + 1 \in 3 .. n /\ i \in 0 .. n - 1
        BY <1>1
      <4> QED
        BY <1>3, <3>1, <4>1
    <3>2. ASSUME \A i \in 2 .. (n - 1) : s[p + i] \in UTF0, NEW i \in 3 .. n
          PROVE  w[i] \in UTF0
      <4>1. i - 1 \in 2 .. (n - 1) /\ i - 1 \in 0 .. n - 1 /\ i - 1 + 1 = i
        BY <1>1
      <4>2. w[i - 1 + 1] = s[p + (i - 1)] /\ s[p + (i - 1)] \in UTF0
        BY <1>3, <3>2, <4>1
      <4> QED
        BY <4>1, <4>2
    <3> QED
      BY <3>1, <3>2
  <2>2. n > 1 => (w[2] \in SecondOf(w[1]) <=> s[p + 1] \in SecondOf(s[p]))
    BY <1>4, <1>5
  <2>3. IsMultiByte(w) <=>
       /\ \/ n = 2 /\ w[1] \in 194..223
          \/ n = 3 /\ w[1] \in 224..239
          \/ n = 4 /\ w[1] \in 240..244
       /\ w[2] \in SecondOf(w[1])
       /\ \A i \in 3 .. n : w[i] \in UTF0
    BY <1>2, Zenon DEF IsMultiByte
  <2> QED
    BY <1>4, <2>1, <2>2, <2>3
<1>10. IsItem(w) <=> ItemAt(s, p, n)
  BY <1>7, <1>8, <1>9, Zenon DEF IsItem, ItemAt, StartsMany
<1> QED
  BY <1>10 DEF w, n

\* What an item begins with tells how long it is.
LEMMA OneItemAt ==
    ASSUME NEW s, NEW p, NEW n, NEW m, ItemAt(s, p, n), ItemAt(s, p, m)
    PROVE  n = m
<1>1. ESC \notin UTF1 \ (Escaped \union {ESC}) /\ UTF1 = 0 .. 127 /\ ESC = 92
  BY DEF ESC, UTF1
<1>2. \A c \in HEX : c \notin Special \union {ESC}
  BY DEF HEX, DIGIT, Special, Escaped, ESC, SPACE, SHARP, EQUALS
<1> QED
  BY <1>1, <1>2 DEF ItemAt, StartsMany

\* It does not begin with a separator, and has at most four bytes.
LEMMA ItemStart ==
    ASSUME NEW s, NEW p, NEW n, ItemAt(s, p, n)
    PROVE  n \in 1 .. 4 /\ s[p] \notin {COMMA, PLUS}
  BY DEF ItemAt, StartsMany, UTF1, Escaped, ESC, COMMA, PLUS

\* What follows an item is not escaped, when the item itself is not.
LEMMA ItemLeavesUncovered ==
    ASSUME NEW s \in Signs, NEW p \in 1 .. Len(s), NEW n, p + n <= Len(s) + 1,
           ItemAt(s, p, n), ~Covered(s, p)
    PROVE  ~Covered(s, p + n)
<1>1. Len(s) \in Nat /\ n \in 1 .. 4
  BY ItemStart DEF Signs
<1>2. \A i \in 1 .. Len(s) : s[i] # ESC => ~Covered(s, i + 1)
  BY CoveredByEscape
<1>3. p + n - 1 \in 1 .. Len(s) /\ p + n - 1 + 1 = p + n
  BY <1>1
<1>6. ESC \notin HEX \union UTF0 /\ \A b : ESC \notin SecondOf(b)
  <2>1. ESC \notin HEX \union UTF0
    BY DEF ESC, HEX, DIGIT, UTF0
  <2>2. \A b : ESC \notin SecondOf(b)
    BY DEF ESC, SecondOf, UTF0
  <2> QED
    BY <2>1, <2>2
<1>4. CASE n = 2 /\ s[p] = ESC
  <2>1. Covered(s, p + 1)
    BY <1>4, CoveredByEscape
  <2>2. p + 1 \in 1 .. Len(s) /\ p + 1 + 1 = p + 2
    BY <1>1, <1>3, <1>4
  <2>3. ~Covered(s, p + 1 + 1)
    BY <2>1, <2>2, CoveredByEscape
  <2> QED
    BY <1>4, <2>2, <2>3
<1>5. CASE ~(n = 2 /\ s[p] = ESC)
  <2>1. s[p + n - 1] # ESC
    <3>1. CASE n = 1
      BY <1>1, <3>1 DEF ItemAt, StartsMany
    <3>2. CASE n = 2
      <4>1. s[p + 1] \in SecondOf(s[p])
        BY <1>5, <3>2 DEF ItemAt
      <4>2. s[p + 1] # ESC
        BY <1>6, <4>1
      <4>3. p + n - 1 = p + 1
        BY <3>2
      <4> QED
        BY <4>2, <4>3
    <3>3. CASE n = 3
      <4>1. s[p + 2] \in HEX \union UTF0
        BY <3>3 DEF ItemAt
      <4>2. p + n - 1 = p + 2
        BY <3>3
      <4>3. s[p + 2] # ESC
        BY <1>6, <4>1
      <4> QED
        BY <4>2, <4>3
    <3>4. CASE n = 4
      <4>1. s[p + 3] \in UTF0
        BY <3>4 DEF ItemAt
      <4>2. p + n - 1 = p + 3
        BY <3>4
      <4>3. s[p + 3] # ESC
        BY <1>6, <4>1
      <4> QED
        BY <4>2, <4>3
    <3> QED
      BY <1>1, <3>1, <3>2, <3>3, <3>4
  <2> QED
    BY <1>2, <1>3, <2>1
<1> QED
  BY <1>4, <1>5

\* A word with the zero behind it.
LEMMA PaddedIs ==
    ASSUME NEW s \in Signs
    PROVE  /\ Append(s, 0) \in Signs /\ Len(Append(s, 0)) = Len(s) + 1 /\ Len(s) \in Nat
           /\ \A i \in 1 .. Len(s) : Append(s, 0)[i] = s[i]
           /\ Append(s, 0)[Len(s) + 1] = 0
  BY DEF Signs

\* Where items of a piece are read from on, by places of the whole.
LEMMA ItemsAtPlaces ==
    ASSUME NEW s \in Signs, NEW v \in 1 .. Len(s) + 1, NEW e \in v .. Len(s) + 1
    PROVE  \E f : /\ IsItems(SubSeq(s, v, e - 1)) <=> f[v]
                  /\ \A q \in v .. e :
                        f[q] <=> q = e \/ \E n \in 1 .. e - q : ItemAt(s, q, n) /\ f[q + n]
<1> DEFINE w == SubSeq(s, v, e - 1)
<1>1. Len(s) \in Nat /\ e - 1 \in (v - 1) .. Len(s) /\ (e - 1) - v + 1 = e - v
  BY DEF Signs
<1>2. w \in Signs /\ Len(w) = e - v
  BY <1>1, PieceIs
<1>3. \A i \in 0 .. e - v : \A j \in i .. e - v :
          SubSeq(w, i + 1, j) = SubSeq(s, v + i, v + j - 1)
  BY <1>1, PieceOfPiece
<1>4. PICK g : ItemsFrom(w, g)
  BY <1>2, ItemsRead
<1> HIDE DEF w
<1> DEFINE f == [q \in v .. e |-> g[q - v]]
<1>5. \A q \in v .. e : f[q] = g[q - v]
  OBVIOUS
<1> HIDE DEF f
<1>6. IsItems(w) <=> f[v]
  <2>1. v \in v .. e /\ v - v = 0
    BY <1>1
  <2>2. f[v] = g[0]
    BY <1>5, <2>1
  <2> QED
    BY <1>4, <2>2 DEF ItemsFrom
<1>7. ASSUME NEW q \in v .. e
      PROVE  f[q] <=> q = e \/ \E n \in 1 .. e - q : ItemAt(s, q, n) /\ f[q + n]
  <2> DEFINE i == q - v
  <2>1. i \in 0 .. Len(w) /\ (i = Len(w) <=> q = e) /\ v + i = q
    BY <1>1, <1>2
  <2>2. f[q] <=> i = Len(w) \/ \E j \in (i + 1) .. Len(w) : IsItem(SubSeq(w, i + 1, j)) /\ g[j]
    <3>1. f[q] = g[i]
      BY <1>5
    <3> HIDE DEF i
    <3> QED
      BY <1>4, <2>1, <3>1 DEF ItemsFrom
  <2>3. ASSUME NEW n \in 1 .. e - q
        PROVE  /\ i + n \in (i + 1) .. Len(w) /\ g[i + n] = f[q + n]
               /\ IsItem(SubSeq(w, i + 1, i + n)) <=> ItemAt(s, q, n)
    <3>1. i + n \in i .. e - v /\ i \in 0 .. e - v /\ i + n \in (i + 1) .. Len(w)
      BY <1>1, <1>2
    <3>2. q + n \in v .. e /\ q + n - v = i + n /\ v + (i + n) - 1 = q + n - 1
      BY <1>1
    <3>3. SubSeq(w, i + 1, i + n) = SubSeq(s, q, q + n - 1)
      <4> HIDE DEF i
      <4>1. SubSeq(w, i + 1, i + n) = SubSeq(s, v + i, v + (i + n) - 1)
        BY <1>3, <3>1
      <4> QED
        BY <2>1, <3>2, <4>1
    <3>4. q \in 1 .. Len(s) /\ q + n - 1 \in q .. Len(s) /\ q + n - 1 - q + 1 = n
      BY <1>1
    <3>5. IsItem(SubSeq(s, q, q + n - 1)) <=> ItemAt(s, q, n)
      <4>1. IsItem(SubSeq(s, q, q + n - 1)) <=> ItemAt(s, q, q + n - 1 - q + 1)
        BY <3>4, ItemIsAt
      <4> QED
        BY <3>4, <4>1
    <3>6. g[i + n] = f[q + n]
      <4> DEFINE r == q + n
      <4>0. r \in v .. e
        BY <3>2
      <4> HIDE DEF r, i
      <4>1. f[r] = g[r - v]
        BY <1>5, <4>0
      <4> QED
        BY <3>2, <4>1 DEF r
    <3> QED
      BY <3>1, <3>3, <3>5, <3>6
  <2>4. \A j \in (i + 1) .. Len(w) : j - i \in 1 .. e - q /\ i + (j - i) = j
    BY <1>1, <1>2
  <2> HIDE DEF i
  <2>5. ASSUME NEW j \in (i + 1) .. Len(w), IsItem(SubSeq(w, i + 1, j)), g[j]
        PROVE  \E n \in 1 .. e - q : ItemAt(s, q, n) /\ f[q + n]
    <3> DEFINE n == j - i
    <3>1. n \in 1 .. e - q /\ i + n = j
      BY <2>4
    <3> HIDE DEF n
    <3> QED
      BY <2>3, <2>5, <3>1
  <2> QED
    BY <2>1, <2>2, <2>3, <2>5
<1> QED
  BY <1>6, <1>7 DEF w

\* Items leave what follows them not escaped.
LEMMA ItemsLeaveUncovered ==
    ASSUME NEW s \in Signs, NEW v \in 1 .. Len(s) + 1, NEW e \in v .. Len(s) + 1,
           ~Covered(s, v), IsItems(SubSeq(s, v, e - 1))
    PROVE  ~Covered(s, e)
<1>1. Len(s) \in Nat /\ v \in Nat /\ e \in Nat
  BY DEF Signs
<1>2. PICK f : /\ IsItems(SubSeq(s, v, e - 1)) <=> f[v]
               /\ \A q \in v .. e :
                     f[q] <=> q = e \/ \E n \in 1 .. e - q : ItemAt(s, q, n) /\ f[q + n]
  BY ItemsAtPlaces
<1> DEFINE Good == {q \in v .. e : ~Covered(s, q) /\ f[q] => ~Covered(s, e)}
<1>3. ASSUME NEW q \in v .. e, \A j \in (q + 1) .. e : j \in Good
      PROVE  q \in Good
  <2> SUFFICES ASSUME ~Covered(s, q), f[q], q # e PROVE ~Covered(s, e)
    OBVIOUS
  <2>1. PICK n \in 1 .. e - q : ItemAt(s, q, n) /\ f[q + n]
    BY <1>2
  <2>2. q + n \in (q + 1) .. e /\ q \in 1 .. Len(s) /\ q + n <= Len(s) + 1
    BY <1>1
  <2>3. ~Covered(s, q + n)
    BY <2>1, <2>2, ItemLeavesUncovered
  <2> QED
    BY <1>3, <2>1, <2>2, <2>3
<1>4. Good \in SUBSET (v .. e)
  OBVIOUS
<1>5. Good = v .. e
  <2> HIDE DEF Good
  <2> QED
    BY <1>1, <1>3, <1>4, FromTheEnd
<1>6. v \in Good
  BY <1>1, <1>5
<1> QED
  BY <1>2, <1>6

\* The first byte of several.
LEMMA FirstOfSeveral ==
    ASSUME NEW c, NEW n, StartsMany(c, n)
    PROVE  c \notin UTF1 /\ n \in 2 .. 4
<1>1. CASE n = 2 /\ c \in 194..223
  BY <1>1 DEF UTF1
<1>2. CASE n = 3 /\ c \in 224..239
  BY <1>2 DEF UTF1
<1>3. CASE n = 4 /\ c \in 240..244
  BY <1>3 DEF UTF1
<1> QED
  BY <1>1, <1>2, <1>3 DEF StartsMany

\* One pass over a value takes one item.
LEMMA PassTakesItem ==
    ASSUME NEW s \in Signs, PairsRead(s), ~WideF4(s),
           NEW p \in 1 .. Len(s), ~Covered(s, p), NEW n \in 1 .. 4
    PROVE  Takes(Append(s, 0), p, n) <=> p + n <= Len(s) + 1 /\ ItemAt(s, p, n)
<1> DEFINE t == Append(s, 0)
           N == Len(s)
<1>1. N \in Nat /\ Len(t) = N + 1 /\ t[N + 1] = 0 /\ \A i \in 1 .. N : t[i] = s[i]
  BY PaddedIs
<1> HIDE DEF t, N
<1>2. p \in 1 .. N /\ t[p] = s[p] /\ p # Len(t)
  BY <1>1 DEF N
<1>3. n = 1 /\ t[p] \in SUTF1 /\ (p = Len(t) => t[p] \in TUTF1)
      <=> n = 1 /\ p + n <= N + 1 /\ s[p] \in UTF1 \ (Escaped \union {ESC})
  <2>1. n = 1 => p + n <= N + 1
    BY <1>1, <1>2
  <2> QED
    BY <1>2, <2>1 DEF SUTF1
<1>4. n = 2 /\ t[p] = ESC /\ p < Len(t) /\ t[p + 1] \in Special \union {ESC}
      <=> n = 2 /\ p + n <= N + 1 /\ s[p] = ESC /\ s[p + 1] \in Special \union {ESC}
  <2>1. 0 \notin Special \union {ESC}
    BY DEF Special, Escaped, SPACE, SHARP, EQUALS, ESC
  <2>2. p < Len(t)
    BY <1>1, <1>2
  <2>3. p = N => t[p + 1] = 0
    BY <1>1
  <2>4. p # N => p + 1 \in 1 .. N /\ t[p + 1] = s[p + 1]
    BY <1>1, <1>2
  <2>5. n = 2 => (p + n <= N + 1 <=> p # N)
    BY <1>1, <1>2
  <2> QED
    BY <1>2, <2>1, <2>2, <2>3, <2>4, <2>5
<1>5. /\ n = 3 /\ t[p] = ESC /\ p + 1 < Len(t)
      /\ t[p + 1] \notin Special \union {ESC} /\ HexPair(t[p + 1])
      <=> n = 3 /\ p + n <= N + 1 /\ s[p] = ESC /\ s[p + 1] \in HEX /\ s[p + 2] \in HEX
  <2>1. \A c \in HEX : c \notin Special \union {ESC}
    BY DEF HEX, DIGIT, Special, Escaped, SPACE, SHARP, EQUALS, ESC
  <2>2. p + 1 < Len(t) <=> p + 1 <= N
    BY <1>1, <1>2
  <2>3. p + 1 <= N => p + 1 \in 2 .. N /\ t[p + 1] = s[p + 1]
    BY <1>1, <1>2
  <2>4. s[p] = ESC => Covered(s, p + 1)
    BY CoveredByEscape
  <2>5. p + 1 <= N /\ s[p] = ESC /\ s[p + 1] \in HEX =>
           HexPair(s[p + 1]) /\ p + 1 < N /\ s[p + 2] \in HEX
    <3>1. SUFFICES ASSUME p + 1 <= N, s[p] = ESC, s[p + 1] \in HEX
                   PROVE  HexPair(s[p + 1]) /\ p + 1 < N /\ s[p + 2] \in HEX
      OBVIOUS
    <3>2. p + 1 \in 2 .. Len(s) /\ p + 1 + 1 = p + 2
      BY <2>3, <3>1 DEF N
    <3>3. HexPair(s[p + 1]) /\ p + 1 < Len(s) /\ s[p + 1 + 1] \in HEX
      BY <2>4, <3>1, <3>2 DEF PairsRead
    <3> QED
      BY <3>2, <3>3 DEF N
  <2>6. \A c : HexPair(c) => c \in HEX
    BY DEF HexPair
  <2>7. p + 1 < N => p + 3 <= N + 1
    BY <1>1, <1>2
  <2>8. p + 3 <= N + 1 => p + 1 <= N
    BY <1>1, <1>2
  <2> QED
    BY <1>2, <2>1, <2>2, <2>3, <2>5, <2>6, <2>7, <2>8
<1>6. t[p] \notin UTF1 /\ MultiByte(t, p, n)
      <=> /\ p + n <= N + 1
          /\ StartsMany(s[p], n)
          /\ s[p + 1] \in SecondOf(s[p])
          /\ \A i \in 2 .. (n - 1) : s[p + i] \in UTF0
  <2> DEFINE First == StartsMany(s[p], n)
  <2>1. First => s[p] \notin UTF1 /\ n \in 2 .. 4
    BY FirstOfSeveral
  <2>2. \A b : 0 \notin NextByte(b)
    BY DEF NextByte, UTF0
  <2>3. 0 \notin UTF0
    BY DEF UTF0
  <2> HIDE DEF First
  <2>4. ASSUME First, MultiByte(t, p, n) PROVE p + n <= N + 1
    <3>1. p + n - 1 <= N + 1 /\ t[p + 1] \in NextByte(t[p])
          /\ \A i \in 2 .. (n - 1) : IsByte0(t, p + i)
      BY <1>1, <2>4 DEF MultiByte
    <3>2. SUFFICES ASSUME p + n - 1 = N + 1 PROVE FALSE
      BY <1>1, <1>2, <2>1, <2>4, <3>1
    <3>3. t[p + n - 1] = 0
      BY <1>1, <3>2
    <3>4. CASE n = 2
      <4>1. p + n - 1 = p + 1
        BY <3>4
      <4> QED
        BY <2>2, <3>1, <3>3, <4>1
    <3>5. CASE n # 2
      <4>1. n - 1 \in 2 .. (n - 1) /\ p + (n - 1) = p + n - 1
        BY <2>1, <2>4, <3>5, <1>2
      <4>2. t[p + n - 1] \in UTF0
        <5>1. IsByte0(t, p + (n - 1))
          BY <3>1, <4>1
        <5> QED
          BY <4>1, <5>1 DEF IsByte0
      <4> QED
        BY <2>3, <3>3, <4>2
    <3> QED
      BY <3>4, <3>5
  <2>5. ASSUME First, p + n <= N + 1
        PROVE  MultiByte(t, p, n) <=>
                  s[p + 1] \in SecondOf(s[p]) /\ \A i \in 2 .. (n - 1) : s[p + i] \in UTF0
    <3>1. \A i \in 1 .. n - 1 : p + i \in 1 .. N /\ t[p + i] = s[p + i] /\ p + i <= Len(t)
      <4>1. \A i \in 1 .. n - 1 : p + i \in 1 .. N
        BY <1>1, <1>2, <2>5
      <4> QED
        BY <1>1, <4>1
    <3>2. 1 \in 1 .. n - 1 /\ p + n - 1 <= Len(t)
      BY <1>1, <1>2, <2>1, <2>5
    <3>3. (\A i \in 2 .. (n - 1) : IsByte0(t, p + i)) <=> \A i \in 2 .. (n - 1) : s[p + i] \in UTF0
      <4>1. \A i \in 2 .. (n - 1) : i \in 1 .. n - 1
        OBVIOUS
      <4> QED
        BY <3>1, <4>1 DEF IsByte0
    <3>4. t[p + 1] \in NextByte(t[p]) <=> s[p + 1] \in SecondOf(s[p])
      <4>1. t[p + 1] = s[p + 1] /\ p + 1 \in 1 .. N
        BY <3>1, <3>2
      <4>2. s[p] = 244 => s[p + 1] \notin 144..191
        <5>1. p \in 1 .. (Len(s) - 1)
          BY <1>1, <1>2, <4>1 DEF N
        <5> QED
          BY <5>1 DEF WideF4
      <4>3. \A b, c : (b = 244 => c \notin 144..191) => (c \in NextByte(b) <=> c \in SecondOf(b))
        <5> SUFFICES ASSUME NEW b, NEW c, b = 244 => c \notin 144..191
                     PROVE  c \in NextByte(b) <=> c \in SecondOf(b)
          OBVIOUS
        <5>1. CASE b = 244
          <6>1. NextByte(b) = 128..191 /\ SecondOf(b) = 128..143
            BY <5>1 DEF NextByte, SecondOf, UTF0
          <6>3. c \notin 144..191
            BY <5>1
          <6>4. c \in 128..191 <=> c \in 128..143
            BY <6>3
          <6> QED
            BY <6>1, <6>4
        <5>2. CASE b # 244
          <6>1. NextByte(b) = SecondOf(b)
            BY <5>2 DEF NextByte, SecondOf
          <6> QED
            BY <6>1
        <5> QED
          BY <5>1, <5>2
      <4> QED
        BY <1>2, <4>1, <4>2, <4>3
    <3>5. MultiByte(t, p, n) <=>
             /\ First /\ p + n - 1 <= Len(t) /\ t[p + 1] \in NextByte(t[p])
             /\ \A i \in 2 .. (n - 1) : IsByte0(t, p + i)
      <4>1. First <=> \/ n = 2 /\ t[p] \in 194..223
                      \/ n = 3 /\ t[p] \in 224..239
                      \/ n = 4 /\ t[p] \in 240..244
        <5>1. StartsMany(t[p], n) <=>
                 \/ n = 2 /\ t[p] \in 194..223
                 \/ n = 3 /\ t[p] \in 224..239
                 \/ n = 4 /\ t[p] \in 240..244
          BY DEF StartsMany
        <5> QED
          BY <1>2, <5>1 DEF First
      <4> QED
        BY <4>1, Zenon DEF MultiByte
    <3> QED
      BY <2>5, <3>2, <3>3, <3>4, <3>5
  <2>6. MultiByte(t, p, n) => First
    <3>1. MultiByte(t, p, n) => StartsMany(t[p], n)
      BY Zenon DEF MultiByte, StartsMany
    <3> QED
      BY <1>2, <3>1 DEF First
  <2> QED
    BY <1>2, <2>1, <2>4, <2>5, <2>6 DEF First
<1>7. Takes(t, p, n) <=> p + n <= N + 1 /\ ItemAt(s, p, n)
  <2> DEFINE Fits == p + n <= N + 1
             One == n = 1 /\ s[p] \in UTF1 \ (Escaped \union {ESC})
             Two == n = 2 /\ s[p] = ESC /\ s[p + 1] \in Special \union {ESC}
             Three == n = 3 /\ s[p] = ESC /\ s[p + 1] \in HEX /\ s[p + 2] \in HEX
             Many == /\ StartsMany(s[p], n)
                     /\ s[p + 1] \in SecondOf(s[p])
                     /\ \A i \in 2 .. (n - 1) : s[p + i] \in UTF0
  <2>1. n = 1 /\ t[p] \in SUTF1 /\ (p = Len(t) => t[p] \in TUTF1) <=> Fits /\ One
    BY <1>3, Zenon
  <2>2. n = 2 /\ t[p] = ESC /\ p < Len(t) /\ t[p + 1] \in Special \union {ESC} <=> Fits /\ Two
    BY <1>4, Zenon
  <2>3. (/\ n = 3 /\ t[p] = ESC /\ p + 1 < Len(t)
         /\ t[p + 1] \notin Special \union {ESC} /\ HexPair(t[p + 1]))
        <=> Fits /\ Three
    BY <1>5, Zenon
  <2>4. t[p] \notin UTF1 /\ MultiByte(t, p, n) <=> Fits /\ Many
    BY <1>6, Zenon
  <2>5. ItemAt(s, p, n) <=> One \/ Two \/ Three \/ Many
    BY Zenon DEF ItemAt
  <2> HIDE DEF Fits, One, Two, Three, Many
  <2>6. Takes(t, p, n) <=> Fits /\ (One \/ Two \/ Three \/ Many)
    BY <2>1, <2>2, <2>3, <2>4, Zenon DEF Takes
  <2> QED
    BY <2>5, <2>6 DEF Fits
<1> QED
  BY <1>7 DEF t, N

\* Where a value may end, and where a walk is that ends there: one that reads
\* the zero is behind it.
Stops(s, e) == e = Len(s) + 1 \/ s[e] \in {COMMA, PLUS}

Reached(s, e) == IF e = Len(s) + 1 THEN e + 1 ELSE e

\* Passes over a string take items to the end of a value.
LEMMA StringEndReadsItems ==
    ASSUME NEW s \in Signs, PairsRead(s), ~WideF4(s),
           NEW v \in 1 .. Len(s) + 1, NEW e \in v .. Len(s) + 1, Stops(s, e), ~Covered(s, v)
    PROVE  IsItems(SubSeq(s, v, e - 1)) <=> StringEnd(Append(s, 0), v) = Reached(s, e)
<1> DEFINE t == Append(s, 0)
           End(q) == StringEnd(t, q)
           there == Reached(s, e)
<1>1. /\ Len(s) \in Nat /\ v \in Nat /\ e \in Nat
      /\ t \in Signs /\ Len(t) = Len(s) + 1 /\ t[Len(s) + 1] = 0
      /\ \A i \in 1 .. Len(s) : t[i] = s[i]
  BY PaddedIs
<1>2. there \in Nat /\ there >= e
  BY <1>1 DEF Reached
<1>3. PICK f : /\ IsItems(SubSeq(s, v, e - 1)) <=> f[v]
               /\ \A q \in v .. e :
                     f[q] <=> q = e \/ \E n \in 1 .. e - q : ItemAt(s, q, n) /\ f[q + n]
  BY ItemsAtPlaces
<1>4. /\ \A q \in 1 .. Len(t) + 1 : End(q) = 0 \/ End(q) \in q .. Len(t) + 1
      /\ \A q \in 1 .. Len(t) + 1 :
            End(q) = IF AtStop(t, q) THEN q
                     ELSE IF Taken(t, q) # {} THEN End(q + Min(Taken(t, q))) ELSE 0
  BY <1>1, StringEndPass, StringEndsAtStop
<1> HIDE DEF End
<1>5. End(e) = there
  <2>1. CASE e = Len(s) + 1
    <3>1. ~AtStop(t, e)
      BY <1>1, <2>1 DEF AtStop, COMMA, PLUS
    <3>2. 1 \in Taken(t, e)
      BY <1>1, <2>1 DEF Taken, Takes, SUTF1, TUTF1, UTF1, Escaped, ESC, SPACE
    <3>3. Min(Taken(t, e)) = 1
      <4>1. Taken(t, e) \in SUBSET Nat /\ \A y \in Taken(t, e) : 1 <= y
        BY DEF Taken
      <4> QED
        BY <3>2, <4>1, LeastIsThat
    <3>4. End(e) = End(e + 1)
      BY <1>1, <1>4, <2>1, <3>1, <3>2, <3>3
    <3>5. e + 1 \in 1 .. Len(t) + 1 /\ AtStop(t, e + 1)
      BY <1>1, <2>1 DEF AtStop
    <3>6. End(e + 1) = e + 1
      BY <1>4, <3>5
    <3> QED
      BY <2>1, <3>4, <3>6 DEF Reached
  <2>2. CASE e # Len(s) + 1
    <3>1. e \in 1 .. Len(s) /\ e \in 1 .. Len(t) + 1
      BY <1>1, <2>2
    <3>2. AtStop(t, e)
      BY <1>1, <2>2, <3>1 DEF Stops, AtStop
    <3> QED
      BY <1>4, <2>2, <3>1, <3>2 DEF Reached
  <2> QED
    BY <2>1, <2>2
<1> DEFINE Good == {q \in v .. e : ~Covered(s, q) => (f[q] <=> End(q) = there)}
<1>6. ASSUME NEW q \in v .. e, \A j \in (q + 1) .. e : j \in Good
      PROVE  q \in Good
  <2> SUFFICES ASSUME ~Covered(s, q), q # e PROVE f[q] <=> End(q) = there
    BY <1>3, <1>5
  <2>1. q \in 1 .. Len(s) /\ q \in 1 .. Len(t) + 1 /\ q < e /\ q <= Len(t)
    BY <1>1
  <2>2. t[q] = s[q]
    BY <1>1, <2>1
  <2>3. \A n \in 1 .. 4 : n \in Taken(t, q) <=> q + n <= Len(s) + 1 /\ ItemAt(s, q, n)
    BY <2>1, PassTakesItem DEF Taken
  <2> HIDE DEF t, there
  <2>4. CASE s[q] \in {COMMA, PLUS}
    <3>1. End(q) = q
      BY <1>4, <2>1, <2>2, <2>4 DEF AtStop
    <3>2. End(q) # there
      BY <1>2, <2>1, <3>1
    <3>3. \A n : ~ItemAt(s, q, n)
      BY <2>4, ItemStart
    <3>4. ~f[q]
      BY <1>3, <3>3
    <3> QED
      BY <3>2, <3>4
  <2>5. CASE s[q] \notin {COMMA, PLUS} /\ Taken(t, q) = {}
    <3>1. ~AtStop(t, q)
      BY <1>1, <2>1, <2>2, <2>5 DEF AtStop
    <3>2. End(q) = 0
      BY <1>4, <2>1, <2>5, <3>1
    <3>3. ASSUME NEW n \in 1 .. e - q, ItemAt(s, q, n) PROVE FALSE
      <4>1. n \in 1 .. 4
        BY <3>3, ItemStart
      <4>2. q + n <= Len(s) + 1
        BY <1>1, <2>1
      <4> QED
        BY <2>3, <2>5, <3>3, <4>1, <4>2
    <3>4. ~f[q]
      BY <1>3, <3>3
    <3>5. there # 0
      BY <1>2, <2>1
    <3> QED
      BY <3>2, <3>4, <3>5
  <2>6. CASE s[q] \notin {COMMA, PLUS} /\ Taken(t, q) # {}
    <3> DEFINE n == Min(Taken(t, q))
    <3>1. n \in Taken(t, q)
      <4>1. Taken(t, q) \in SUBSET Nat
        BY DEF Taken
      <4> QED
        BY <2>6, <4>1, LeastIs
    <3>2. ~AtStop(t, q)
      BY <1>1, <2>1, <2>2, <2>6 DEF AtStop
    <3>3. End(q) = End(q + n)
      BY <1>4, <2>1, <2>6, <3>2
    <3> HIDE DEF n
    <3>4. n \in 1 .. 4
      BY <3>1 DEF Taken
    <3>5. q + n <= Len(s) + 1 /\ ItemAt(s, q, n)
      BY <2>3, <3>1, <3>4
    <3>6. ~Covered(s, q + n)
      BY <2>1, <3>5, ItemLeavesUncovered
    <3>7. \A m : ItemAt(s, q, m) => m = n
      BY <3>5, OneItemAt
    <3>8. f[q] <=> q + n <= e /\ f[q + n]
      <4>1. n \in 1 .. e - q <=> q + n <= e
        BY <1>1, <2>1, <3>4
      <4> QED
        BY <1>3, <3>5, <3>7, <4>1
    <3>9. CASE q + n <= e
      <4>1. q + n \in (q + 1) .. e
        BY <1>1, <2>1, <3>4, <3>9
      <4>2. f[q + n] <=> End(q + n) = there
        BY <1>6, <3>6, <4>1
      <4> QED
        BY <3>3, <3>8, <3>9, <4>2
    <3>10. CASE ~(q + n <= e)
      <4>1. q + n \in 1 .. Len(t) + 1 /\ q + n > e /\ e # Len(s) + 1
        BY <1>1, <2>1, <3>4, <3>5, <3>10
      <4>2. there = e
        BY <4>1 DEF there, Reached
      <4>3. End(q + n) = 0 \/ End(q + n) \in q + n .. Len(t) + 1
        BY <1>4, <4>1
      <4>4. End(q + n) # e
        BY <1>1, <2>1, <4>1, <4>3
      <4> QED
        BY <3>3, <3>8, <3>10, <4>2, <4>4
    <3> QED
      BY <3>9, <3>10
  <2> QED
    BY <2>4, <2>5, <2>6
<1>7. Good \in SUBSET (v .. e)
  OBVIOUS
<1>8. Good = v .. e
  <2> HIDE DEF Good
  <2> QED
    BY <1>1, <1>6, <1>7, FromTheEnd
<1>9. v \in Good
  BY <1>1, <1>8
<1> QED
  BY <1>3, <1>9 DEF End

\* The value of a type that is a keystring is checked to be one.
LEMMA StringsAgree ==
    ASSUME NEW s \in Signs, PairsRead(s), SpacesRead(s), ValuesRead(s), ~WideF4(s),
           NEW x \in 1 .. Len(s), s[x] = EQUALS,
           NEW e \in (x + 1) .. Len(s) + 1, Stops(s, e)
    PROVE  IsString(SubSeq(s, x + 1, e - 1))
           <=> /\ Begins(Append(s, 0), x + 1, FALSE)
               /\ StringEnd(Append(s, 0), x + 1) = Reached(s, e)
<1> DEFINE t == Append(s, 0)
           v == x + 1
           w == SubSeq(s, x + 1, e - 1)
<1>1. /\ Len(s) \in Nat /\ x \in Nat /\ e \in Nat
      /\ Len(t) = Len(s) + 1 /\ t[Len(s) + 1] = 0
      /\ \A i \in 1 .. Len(s) : t[i] = s[i]
  BY PaddedIs
<1>2. /\ v \in 1 .. Len(s) + 1 /\ e \in v .. Len(s) + 1
      /\ e - 1 \in (v - 1) .. Len(s) /\ (e - 1) - v + 1 = e - v
  BY <1>1
<1>3. ~Covered(s, v)
  BY CoveredByEscape DEF EQUALS, ESC
<1>4. IsItems(w) <=> StringEnd(t, v) = Reached(s, e)
  <2> HIDE DEF v
  <2>1. IsItems(SubSeq(s, v, e - 1)) <=> StringEnd(t, v) = Reached(s, e)
    BY <1>2, <1>3, StringEndReadsItems
  <2> QED
    BY <2>1 DEF v
<1>5. Len(w) = e - v /\ w \in Signs /\ \A i \in 1 .. e - v : w[i] = s[v + i - 1]
  BY <1>2, PieceIs
<1>6. CASE v = e
  <2>1. w = <<>>
    BY <1>1, <1>5, <1>6 DEF Signs
  <2>2. IsString(w)
    BY <2>1 DEF IsString
  <2>3. e = Len(s) + 1
    <3>1. SUFFICES ASSUME e # Len(s) + 1 PROVE FALSE
      OBVIOUS
    <3>2. e \in 2 .. Len(s) /\ e - 1 = x
      BY <1>1, <1>6, <3>1
    <3> QED
      BY <3>1, <3>2 DEF ValuesRead, Stops
  <2>4. Begins(t, v, FALSE)
    <3>1. t[v] = 0 /\ v <= Len(t)
      BY <1>1, <1>6, <2>3
    <3>2. 0 \in LUTF1
      BY DEF LUTF1, UTF1, Escaped, SPACE, SHARP, ESC
    <3> QED
      BY <3>1, <3>2 DEF Begins
  <2>5. IsItems(w)
    <3>1. PICK f : ItemsFrom(w, f)
      BY <1>5, ItemsRead
    <3>2. Len(w) = 0 /\ 0 \in 0 .. Len(w)
      BY <1>1, <1>5, <1>6
    <3> QED
      BY <3>1, <3>2 DEF ItemsFrom
  <2> QED
    BY <1>4, <2>2, <2>4, <2>5
<1>7. CASE v # e
  <2>1. v \in 1 .. Len(s) /\ v < e /\ v <= Len(t) /\ w # <<>>
    <3> HIDE DEF v, t, w
    <3>1. v \in Nat /\ v >= 1 /\ v < e /\ e <= Len(s) + 1
      BY <1>1, <1>2, <1>7
    <3>2. v \in 1 .. Len(s) /\ v <= Len(t)
      BY <1>1, <3>1
    <3>3. Len(w) > 0
      BY <1>1, <1>5, <3>1
    <3> QED
      BY <3>1, <3>2, <3>3
  <2>2. t[v] = s[v] /\ w[1] = s[v] /\ w[Len(w)] = s[e - 1]
    <3>1. t[v] = s[v]
      BY <1>1, <2>1
    <3>2. 1 \in 1 .. e - v /\ v + 1 - 1 = v /\ Len(w) \in 1 .. e - v /\ v + (e - v) - 1 = e - 1
      BY <1>1, <1>5, <2>1
    <3>3. w[1] = s[v + 1 - 1] /\ w[e - v] = s[v + (e - v) - 1]
      BY <1>5, <3>2
    <3> HIDE DEF v, w, t
    <3> QED
      BY <1>5, <3>1, <3>2, <3>3
  <2>3. s[v] \in Nat /\ e - 1 \in 1 .. Len(s)
    <3>1. s[v] \in Nat
      BY <2>1 DEF Signs
    <3> QED
      BY <1>1, <1>2, <2>1, <3>1
  <2>4. Upto(w, Len(w) - 1) = SubSeq(s, v, e - 2)
    <3> DEFINE n == Len(w) - 1
    <3>1. 0 \in 0 .. (e - 1) - v + 1 /\ n \in 0 .. (e - 1) - v + 1 /\ v + 0 = v /\ v + n - 1 = e - 2
      <4>1. v \in Nat /\ n = e - v - 1 /\ v < e
        BY <1>1, <1>5, <2>1
      <4>2. e \in Nat
        BY <1>1
      <4> HIDE DEF v, n, w, t
      <4>3. 0 \in 0 .. (e - 1) - v + 1 /\ v + 0 = v
        BY <4>1, <4>2
      <4>4. n \in 0 .. (e - 1) - v + 1
        BY <4>1, <4>2
      <4>5. v + n - 1 = e - 2
        BY <4>1, <4>2
      <4> QED
        BY <4>3, <4>4, <4>5
    <3> HIDE DEF v, n
    <3>2. SubSeq(SubSeq(s, v, e - 1), 0 + 1, n) = SubSeq(s, v + 0, v + n - 1)
      BY <1>2, <3>1, PieceOfPiece
    <3> QED
      BY <3>1, <3>2 DEF Upto, n, v
  <2>5. ~(w[Len(w)] = SPACE /\ IsItems(Upto(w, Len(w) - 1)))
    <3>1. SUFFICES ASSUME s[e - 1] = SPACE, IsItems(SubSeq(s, v, e - 2)) PROVE FALSE
      BY <2>2, <2>4
    <3>2. ~Covered(s, e - 1)
      <4>1. e - 1 \in v .. Len(s) + 1 /\ (e - 1) - 1 = e - 2
        BY <1>1, <1>2, <2>1
      <4> HIDE DEF v
      <4>2. IsItems(SubSeq(s, v, (e - 1) - 1))
        BY <3>1, <4>1
      <4> QED
        BY <1>2, <1>3, <4>1, <4>2, ItemsLeaveUncovered
    <3>3. e - 1 < Len(s) /\ s[e - 1 + 1] \notin {COMMA, PLUS}
      BY <2>3, <3>1, <3>2 DEF SpacesRead
    <3>4. e - 1 + 1 = e
      BY <1>1
    <3> QED
      BY <1>1, <3>3, <3>4 DEF Stops
  <2>6. IsString(w) <=> IsItems(w) /\ s[v] \notin {SPACE, SHARP}
    BY <2>1, <2>2, <2>5 DEF IsString
  <2>7. Begins(t, v, FALSE) <=> (s[v] \in UTF1 => s[v] \in LUTF1 \union {ESC})
    BY <2>1, <2>2 DEF Begins
  <2>8. (s[v] \in UTF1 => s[v] \in LUTF1 \union {ESC}) => s[v] \notin {SPACE, SHARP}
    BY DEF LUTF1, UTF1, SPACE, SHARP, ESC
  <2>9. IsItems(w) /\ s[v] \notin {SPACE, SHARP} => (s[v] \in UTF1 => s[v] \in LUTF1 \union {ESC})
    <3>1. SUFFICES ASSUME IsItems(w), s[v] \notin {SPACE, SHARP}, s[v] \in UTF1
                   PROVE  s[v] \in LUTF1 \union {ESC}
      OBVIOUS
    <3>2. \E n : ItemAt(s, v, n)
      <4>1. v \in v .. e
        BY <1>1, <2>1
      <4> HIDE DEF v
      <4>2. PICK f : /\ IsItems(SubSeq(s, v, e - 1)) <=> f[v]
                     /\ \A q \in v .. e :
                           f[q] <=> q = e \/ \E n \in 1 .. e - q : ItemAt(s, q, n) /\ f[q + n]
        <5>1. v \in 1 .. Len(s) + 1 /\ e \in v .. Len(s) + 1
          BY <1>2
        <5> HIDE DEF w, t
        <5> QED
          BY <5>1, ItemsAtPlaces
      <4> QED
        BY <1>7, <3>1, <4>1, <4>2 DEF v
    <3>3. PICK n : ItemAt(s, v, n)
      BY <3>2
    <3>5. s[v] \in UTF1 \ (Escaped \union {ESC}) \/ s[v] = ESC
      <4> HIDE DEF v
      <4>1. StartsMany(s[v], n) => s[v] \notin UTF1
        BY FirstOfSeveral
      <4> QED
        BY <3>1, <3>3, <4>1, Zenon DEF ItemAt
    <3> QED
      BY <3>1, <3>5 DEF LUTF1
  <2> QED
    BY <1>4, <2>6, <2>7, <2>8, <2>9
<1> QED
  BY <1>6, <1>7

\* The value of a type that is a dotted number is checked to be digits.
LEMMA HexStringsAgree ==
    ASSUME NEW s \in Signs, HexRead(s),
           NEW x \in 1 .. Len(s), s[x] = EQUALS,
           NEW p \in 1 .. x, p > 1 => s[p - 1] \in {COMMA, PLUS},
           IsNumericOid(SubSeq(s, p, x - 1)),
           NEW e \in (x + 1) .. Len(s) + 1, Stops(s, e)
    PROVE  IsHexString(SubSeq(s, x + 1, e - 1))
           <=> /\ Begins(Append(s, 0), x + 1, TRUE)
               /\ HexEnd(Append(s, 0), x + 2) = Reached(s, e)
<1> DEFINE t == Append(s, 0)
           w == SubSeq(s, x + 1, e - 1)
           there == Reached(s, e)
           AllHex(q, r) == \A j \in q .. (r - 1) : s[j] \in HEX
           Even(n) == n % 2 = 0
<1>1. /\ Len(s) \in Nat /\ x \in Nat /\ e \in Nat /\ t \in Signs
      /\ Len(t) = Len(s) + 1 /\ t[Len(s) + 1] = 0
      /\ \A i \in 1 .. Len(s) : t[i] = s[i]
  BY PaddedIs
<1>2. Len(w) = e - x - 1 /\ \A i \in 1 .. e - x - 1 : w[i] = s[x + i]
  <2>1. x + 1 \in 1 .. Len(s) + 1 /\ e - 1 \in (x + 1) - 1 .. Len(s) /\ (e - 1) - (x + 1) + 1 = e - x - 1
    BY <1>1
  <2>2. Len(w) = e - x - 1 /\ \A i \in 1 .. e - x - 1 : w[i] = s[x + 1 + i - 1]
    BY <2>1, PieceIs
  <2>3. \A i \in 1 .. e - x - 1 : x + 1 + i - 1 = x + i
    BY <1>1
  <2> QED
    BY <2>2, <2>3
<1>3. CASE ~(x + 1 <= Len(s) /\ s[x + 1] = SHARP)
  <2>1. ~Begins(t, x + 1, TRUE)
    BY <1>1, <1>3 DEF Begins
  <2>2. ~IsHexString(w)
    <3>1. SUFFICES ASSUME Len(w) > 1, w[1] = SHARP PROVE FALSE
      BY DEF IsHexString
    <3>2. 1 \in 1 .. e - x - 1 /\ x + 1 <= Len(s)
      <4>1. e - x - 1 > 1 /\ e \in Nat /\ x \in Nat
        BY <1>1, <1>2, <3>1
      <4>2. e <= Len(s) + 1 /\ Len(s) \in Nat
        BY <1>1
      <4> HIDE DEF w, t
      <4> QED
        BY <4>1, <4>2
    <3> QED
      BY <1>2, <1>3, <3>1, <3>2
  <2> QED
    BY <2>1, <2>2
<1>4. CASE x + 1 <= Len(s) /\ s[x + 1] = SHARP
  <2>1. ASSUME NEW q \in (x + 2) .. Len(s) + 1, Even(q - x), AllHex(x + 2, q)
        PROVE  /\ q <= Len(s) /\ (s[q] \in {COMMA, PLUS} => q > x + 2)
               /\ s[q] \in HEX => HexPair(s[q]) /\ q < Len(s) /\ s[q + 1] \in HEX
    <3>1. x \in 1 .. (Len(s) - 1)
      BY <1>1, <1>4
    <3> QED
      BY <1>4, <2>1, <3>1, Zenon DEF HexRead
  <2>2. e >= x + 2
    <3>1. SUFFICES ASSUME e = x + 1 PROVE FALSE
      BY <1>1
    <3> QED
      BY <1>1, <1>4, <3>1 DEF Stops, SHARP, COMMA, PLUS
  <2>3. \A q \in 1 .. Len(t) + 1 :
           HexEnd(t, q) = IF AtStop(t, q) THEN q
                          ELSE IF q < Len(t) /\ HexPair(t[q]) THEN HexEnd(t, q + 2) ELSE 0
    BY <1>1, HexEndPass
  <2>4. \A c \in HEX : c \notin {COMMA, PLUS}
    BY DEF HEX, DIGIT, COMMA, PLUS
  <2>5. \A c : HexPair(c) => c \in HEX
    BY DEF HexPair
  <2>6. there >= e /\ there \in Nat
    BY <1>1 DEF Reached
  <2> DEFINE Good == {q \in (x + 2) .. e : Even(q - x) /\ AllHex(x + 2, q) =>
                         (HexEnd(t, q) = there <=> Even(e - q) /\ AllHex(q, e))}
  <2>7. ASSUME NEW q \in (x + 2) .. e, \A j \in (q + 1) .. e : j \in Good
        PROVE  q \in Good
    <3> SUFFICES ASSUME Even(q - x), AllHex(x + 2, q)
                 PROVE  HexEnd(t, q) = there <=> Even(e - q) /\ AllHex(q, e)
      OBVIOUS
    <3> HIDE DEF AllHex, Even
    <3>1. q \in (x + 2) .. Len(s) + 1 /\ q \in 1 .. Len(t) + 1 /\ q \in Nat
      BY <1>1
    <3>2. /\ q <= Len(s) /\ (s[q] \in {COMMA, PLUS} => q > x + 2)
          /\ s[q] \in HEX => HexPair(s[q]) /\ q < Len(s) /\ s[q + 1] \in HEX
      BY <2>1, <3>1
    <3>3. q \in 1 .. Len(s) /\ t[q] = s[q] /\ q < Len(t)
      BY <1>1, <3>1, <3>2
    <3>4. AtStop(t, q) <=> s[q] \in {COMMA, PLUS}
      BY <1>1, <3>3 DEF AtStop
    <3> HIDE DEF there
    <3>5. CASE q = e
      <4>1. s[q] \in {COMMA, PLUS} /\ there = q
        BY <1>1, <3>2, <3>5 DEF Stops, Reached, there
      <4>2. HexEnd(t, q) = q
        BY <2>3, <3>1, <3>4, <4>1
      <4>3. Even(e - q) /\ AllHex(q, e)
        BY <1>1, <3>5 DEF Even, AllHex
      <4> QED
        BY <4>1, <4>2, <4>3
    <3>6. CASE q # e /\ s[q] \notin HEX
      <4>1. q \in q .. (e - 1) /\ q < e
        BY <1>1, <3>6
      <4>2. ~AllHex(q, e)
        BY <3>6, <4>1 DEF AllHex
      <4>3. HexEnd(t, q) = q \/ HexEnd(t, q) = 0
        BY <2>3, <2>5, <3>1, <3>3, <3>6
      <4>4. HexEnd(t, q) # there
        BY <2>6, <3>1, <3>3, <4>1, <4>3
      <4> QED
        BY <4>2, <4>4
    <3>7. CASE q # e /\ s[q] \in HEX
      <4>1. HexPair(s[q]) /\ q < Len(s) /\ s[q + 1] \in HEX
        BY <3>2, <3>7
      <4>2. HexEnd(t, q) = HexEnd(t, q + 2)
        BY <2>3, <2>4, <3>1, <3>3, <3>4, <3>7, <4>1
      <4>3. q + 1 # e
        BY <1>1, <2>4, <4>1 DEF Stops
      <4>4. q + 2 \in (q + 1) .. e
        BY <1>1, <3>1, <3>7, <4>3
      <4>5. Even(q + 2 - x)
        <5>1. (q - x) % 2 = 0
          BY DEF Even
        <5>2. q + 2 - x = (q - x) + 2 /\ q - x \in Nat
          BY <1>1, <3>1
        <5>3. ((q - x) + 2) % 2 = 0
          BY <5>1, <5>2
        <5> QED
          BY <5>2, <5>3 DEF Even
      <4>6. AllHex(x + 2, q + 2)
        <5>1. \A j \in (x + 2) .. (q + 2 - 1) : j \in (x + 2) .. (q - 1) \/ j = q \/ j = q + 1
          BY <1>1, <3>1
        <5> QED
          BY <3>7, <4>1, <5>1 DEF AllHex
      <4>7. HexEnd(t, q + 2) = there <=> Even(e - (q + 2)) /\ AllHex(q + 2, e)
        <5>1. q + 2 \in Good
          BY <2>7, <4>4
        <5> HIDE DEF t
        <5> QED
          BY <4>5, <4>6, <5>1
      <4>8. Even(e - (q + 2)) <=> Even(e - q)
        <5> HIDE DEF Good, t
        <5>1. e - q \in Nat /\ e - (q + 2) \in Nat /\ e - q = (e - (q + 2)) + 2
          <6>1. e \in Nat /\ q \in Nat /\ q + 2 <= e
            BY <1>1, <3>1, <4>4
          <6> QED
            BY <6>1
        <5> QED
          BY <5>1 DEF Even
      <4>9. AllHex(q + 2, e) <=> AllHex(q, e)
        <5> HIDE DEF Good, t, w
        <5>0. q \in Nat /\ e \in Nat
          BY <1>1, <3>1
        <5>1. \A j \in q .. (e - 1) : j \in (q + 2) .. (e - 1) \/ j = q \/ j = q + 1
          BY <5>0
        <5>2. \A j \in (q + 2) .. (e - 1) : j \in q .. (e - 1)
          BY <5>0
        <5> QED
          BY <3>7, <4>1, <5>1, <5>2 DEF AllHex
      <4> QED
        BY <4>2, <4>7, <4>8, <4>9
    <3> QED
      BY <3>5, <3>6, <3>7
  <2>8. Good \in SUBSET ((x + 2) .. e)
    OBVIOUS
  <2>9. Good = (x + 2) .. e
    <3> DEFINE lo == x + 2
    <3>1. lo \in Nat
      BY <1>1
    <3> HIDE DEF Good
    <3> QED
      BY <1>1, <2>7, <2>8, <3>1, FromTheEnd
  <2>10. Even((x + 2) - x) /\ AllHex(x + 2, x + 2)
    <3>1. (x + 2) - x = 2 /\ (x + 2) .. (x + 2 - 1) = {} /\ 2 % 2 = 0
      BY <1>1
    <3> QED
      BY <3>1
  <2>11. HexEnd(t, x + 2) = there <=> Even(e - (x + 2)) /\ AllHex(x + 2, e)
    <3>1. x + 2 \in Good
      <4>1. x + 2 \in (x + 2) .. e
        BY <1>1, <2>2
      <4> HIDE DEF Good
      <4> QED
        BY <2>9, <4>1
    <3> HIDE DEF Even, AllHex, t, there
    <3> QED
      BY <2>10, <3>1
  <2>12. Begins(t, x + 1, TRUE)
    <3>1. t[x + 1] = s[x + 1]
      BY <1>1, <1>4
    <3> QED
      BY <1>1, <1>4, <3>1 DEF Begins
  <2>13. IsHexString(w) <=> Even(e - (x + 2)) /\ AllHex(x + 2, e)
    <3>1. e # x + 2
      <4>1. x + 2 \in (x + 2) .. Len(s) + 1
        BY <1>1, <1>4
      <4> DEFINE q == x + 2
      <4> HIDE DEF q, Even, AllHex
      <4>2. q <= Len(s) /\ (s[q] \in {COMMA, PLUS} => q > x + 2)
        BY <2>1, <2>10, <4>1 DEF q
      <4> QED
        BY <1>1, <4>2 DEF q, Stops
    <3>2. Len(w) > 1 /\ w[1] = s[x + 1]
      <4>1. 1 \in 1 .. e - x - 1 /\ e - x - 1 > 1
        BY <1>1, <2>2, <3>1
      <4> QED
        BY <1>2, <4>1
    <3>3. Len(w) % 2 = 1 <=> Even(e - (x + 2))
      <4>1. e - (x + 2) \in Nat /\ e - x - 1 = (e - (x + 2)) + 1
        BY <1>1, <2>2
      <4>2. ((e - (x + 2)) + 1) % 2 = 1 <=> (e - (x + 2)) % 2 = 0
        BY <4>1
      <4> QED
        BY <1>2, <4>1, <4>2
    <3>4. (\A i \in 2 .. Len(w) : w[i] \in HEX) <=> AllHex(x + 2, e)
      <4>1. \A i \in 2 .. e - x - 1 : i \in 1 .. e - x - 1 /\ x + i \in (x + 2) .. (e - 1)
        BY <1>1
      <4>2. \A j \in (x + 2) .. (e - 1) : j - x \in 2 .. e - x - 1 /\ x + (j - x) = j
        BY <1>1
      <4>3. ASSUME \A i \in 2 .. Len(w) : w[i] \in HEX PROVE AllHex(x + 2, e)
        <5> SUFFICES ASSUME NEW j \in (x + 2) .. (e - 1) PROVE s[j] \in HEX
          OBVIOUS
        <5> DEFINE i == j - x
        <5>1. i \in 2 .. e - x - 1 /\ x + i = j
          BY <4>2
        <5> HIDE DEF i, w
        <5> QED
          BY <1>2, <4>1, <4>3, <5>1
      <4>4. ASSUME AllHex(x + 2, e), NEW i \in 2 .. Len(w) PROVE w[i] \in HEX
        <5> HIDE DEF w
        <5> QED
          BY <1>2, <4>1, <4>4
      <4> QED
        BY <4>3, <4>4
    <3> QED
      BY <1>4, <3>2, <3>3, <3>4 DEF IsHexString
  <2> QED
    BY <2>11, <2>12, <2>13
<1> QED
  BY <1>3, <1>4

\* What types are made of.
LEMMA TypesAreWithoutEquals ==
    ASSUME NEW k \in Signs, IsKeyString(k) \/ IsNumericOid(k)
    PROVE  /\ 1 \in 1 .. Len(k)
           /\ IsNumericOid(k) => k[1] \in DIGIT
           /\ IsKeyString(k) => k[1] \in ALPHA
           /\ \A i \in 1 .. Len(k) : k[i] # EQUALS
<1>1. Len(k) \in Nat /\ (k # <<>> => 1 \in 1 .. Len(k))
  BY DEF Signs
<1>2. ASSUME IsKeyString(k)
      PROVE  1 \in 1 .. Len(k) /\ k[1] \in ALPHA /\ \A i \in 1 .. Len(k) : k[i] # EQUALS
  <2>1. EQUALS \notin ALPHA \union DIGIT \union {DASH}
    BY DEF EQUALS, ALPHA, DIGIT, DASH
  <2> QED
    BY <1>1, <1>2, <2>1 DEF IsKeyString
<1>3. ASSUME IsNumericOid(k)
      PROVE  1 \in 1 .. Len(k) /\ k[1] \in DIGIT /\ \A i \in 1 .. Len(k) : k[i] # EQUALS
  <2> DEFINE dots == DotsOf(k)
  <2>1. dots # {} /\ \A i \in dots \union {0} : NumberAfter(k, i)
    BY <1>3, Zenon DEF IsNumericOid, DotsOf, NumberAfter
  <2>2. dots \subseteq 1 .. Len(k) /\ \A i \in 1 .. Len(k) : i \in dots <=> k[i] = DOT
    BY DEF DotsOf
  <2>3. 1 \in 1 .. Len(k)
    BY <1>1, <2>1, <2>2
  <2>4. EQUALS \notin DIGIT /\ EQUALS # DOT
    BY DEF EQUALS, DIGIT, DOT
  <2>5. ASSUME NEW i \in dots \union {0}
        PROVE  \E j \in dots \union {Len(k) + 1} :
                  i + 1 < j /\ \A m \in (i + 1) .. (j - 1) : k[m] \in DIGIT
    <3>1. PICK j \in dots \union {Len(k) + 1} : i < j /\ IsNumber(SubSeq(k, i + 1, j - 1))
      BY <2>1 DEF NumberAfter
    <3> DEFINE w == SubSeq(k, i + 1, j - 1)
    <3>2. i \in 0 .. Len(k) /\ j \in 1 .. Len(k) + 1
      BY <1>1, <2>2
    <3>3. w # <<>> /\ \A m \in 1 .. Len(w) : w[m] \in DIGIT
      BY <3>1 DEF IsNumber
    <3>4. i + 1 \in 1 .. Len(k) + 1 /\ j - 1 \in (i + 1) - 1 .. Len(k) /\ (j - 1) - (i + 1) + 1 = j - i - 1
      BY <1>1, <3>1, <3>2
    <3>5. w \in Signs /\ Len(w) = j - i - 1 /\ \A m \in 1 .. j - i - 1 : w[m] = k[i + 1 + m - 1]
      BY <3>4, PieceIs
    <3>6. i + 1 < j
      BY <3>1, <3>2, <3>3, <3>5 DEF Signs
    <3>7. \A m \in (i + 1) .. (j - 1) : k[m] \in DIGIT
      <4> TAKE m \in (i + 1) .. (j - 1)
      <4>1. m - i \in 1 .. j - i - 1 /\ i + 1 + (m - i) - 1 = m
        BY <3>2
      <4> HIDE DEF w
      <4>2. w[m - i] \in DIGIT /\ w[m - i] = k[i + 1 + (m - i) - 1]
        BY <3>3, <3>5, <4>1
      <4> QED
        BY <4>1, <4>2
    <3> QED
      BY <3>1, <3>6, <3>7
  <2> HIDE DEF dots
  <2>6. k[1] \in DIGIT
    <3>1. PICK j \in dots \union {Len(k) + 1} : 0 + 1 < j /\ \A m \in (0 + 1) .. (j - 1) : k[m] \in DIGIT
      BY <2>5
    <3>2. 1 \in (0 + 1) .. (j - 1)
      BY <1>1, <2>2, <3>1
    <3> QED
      BY <3>1, <3>2
  <2>7. ASSUME NEW i \in 1 .. Len(k), k[i] = EQUALS PROVE FALSE
    <3> DEFINE far == {i - d : d \in {b \in dots \union {0} : b < i}}
    <3>1. far \in SUBSET Nat /\ far # {}
      <4>1. 0 \in {b \in dots \union {0} : b < i}
        BY <1>1
      <4>2. \A b \in dots \union {0} : b \in Nat
        BY <1>1, <2>2
      <4> QED
        BY <1>1, <4>1, <4>2
    <3>2. PICK y \in far : \A z \in far : y <= z
      <4> HIDE DEF far
      <4> QED
        BY <3>1, LeastOf
    <3>3. PICK d \in dots \union {0} : d < i /\ y = i - d
      BY <3>2
    <3>4. d \in Nat /\ d <= Len(k)
      BY <1>1, <2>2
    <3>5. PICK j \in dots \union {Len(k) + 1} :
              d + 1 < j /\ \A m \in (d + 1) .. (j - 1) : k[m] \in DIGIT
      BY <2>5
    <3>6. j \in 1 .. Len(k) + 1
      BY <1>1, <2>2
    <3>7. ~(i < j)
      <4>1. i < j => i \in (d + 1) .. (j - 1)
        BY <1>1, <3>3, <3>4, <3>6
      <4> QED
        BY <2>4, <2>7, <3>5, <4>1
    <3>8. j \in dots /\ j < i
      <4>1. j \in dots
        BY <1>1, <3>6, <3>7
      <4>2. j # i
        BY <2>2, <2>4, <2>7, <4>1
      <4> QED
        BY <3>6, <3>7, <4>1, <4>2
    <3>9. i - j \in far
      BY <3>8
    <3>10. y <= i - j
      <4> HIDE DEF far
      <4> QED
        BY <3>2, <3>9
    <3> QED
      BY <3>3, <3>4, <3>5, <3>6, <3>10
  <2> QED
    BY <2>3, <2>6, <2>7
<1> QED
  BY <1>2, <1>3

\* A type and its value by places of the whole.
LEMMA TypeAndValueAtPlaces ==
    ASSUME NEW s \in Signs, NEW p \in 1 .. Len(s) + 1, NEW e \in p .. Len(s) + 1
    PROVE  IsTypeAndValue(SubSeq(s, p, e - 1)) <=>
              \E x \in p .. (e - 1) :
                 /\ s[x] = EQUALS
                 /\ LET type  == SubSeq(s, p, x - 1)
                        value == SubSeq(s, x + 1, e - 1)
                    IN  \/ IsKeyString(type) /\ IsString(value)
                        \/ IsNumericOid(type) /\ IsHexString(value)
<1> DEFINE w == SubSeq(s, p, e - 1)
           Typed(type, value) == \/ IsKeyString(type) /\ IsString(value)
                                 \/ IsNumericOid(type) /\ IsHexString(value)
<1>1. Len(s) \in Nat /\ e - 1 \in (p - 1) .. Len(s) /\ (e - 1) - p + 1 = e - p
  BY DEF Signs
<1>2. w \in Signs /\ Len(w) = e - p /\ \A i \in 1 .. e - p : w[i] = s[p + i - 1]
  BY <1>1, PieceIs
<1>3. ASSUME NEW i \in 1 .. Len(w), NEW x \in p .. (e - 1), x = p + i - 1
      PROVE  w[i] = s[x] /\ Upto(w, i - 1) = SubSeq(s, p, x - 1) /\ After(w, i) = SubSeq(s, x + 1, e - 1)
  <2>1. w[i] = s[x]
    BY <1>2, <1>3
  <2>2. Upto(w, i - 1) = SubSeq(s, p, x - 1)
    <3> DEFINE j == i - 1
    <3>1. 0 \in 0 .. (e - 1) - p + 1 /\ j \in 0 .. (e - 1) - p + 1 /\ p + 0 = p /\ p + j - 1 = x - 1
      BY <1>1, <1>2, <1>3
    <3> HIDE DEF j
    <3>2. SubSeq(w, 0 + 1, j) = SubSeq(s, p + 0, p + j - 1)
      BY <1>1, <3>1, PieceOfPiece
    <3> HIDE DEF w
    <3> QED
      BY <3>1, <3>2 DEF Upto, j
  <2>3. After(w, i) = SubSeq(s, x + 1, e - 1)
    <3> DEFINE j == Len(w)
    <3>1. i \in 0 .. (e - 1) - p + 1 /\ j \in i .. (e - 1) - p + 1 /\ p + i = x + 1 /\ p + j - 1 = e - 1
      BY <1>1, <1>2, <1>3
    <3> HIDE DEF j
    <3>2. SubSeq(w, i + 1, j) = SubSeq(s, p + i, p + j - 1)
      BY <1>1, <3>1, PieceOfPiece
    <3> HIDE DEF w
    <3> QED
      BY <3>1, <3>2 DEF After, j
  <2> QED
    BY <2>1, <2>2, <2>3
<1>4. IsTypeAndValue(w) <=> \E i \in 1 .. Len(w) : w[i] = EQUALS /\ Typed(Upto(w, i - 1), After(w, i))
  BY DEF IsTypeAndValue
<1> HIDE DEF w, Typed
<1>5. ASSUME IsTypeAndValue(w)
      PROVE  \E x \in p .. (e - 1) : s[x] = EQUALS /\ Typed(SubSeq(s, p, x - 1), SubSeq(s, x + 1, e - 1))
  <2>1. PICK i \in 1 .. Len(w) : w[i] = EQUALS /\ Typed(Upto(w, i - 1), After(w, i))
    BY <1>4, <1>5
  <2> DEFINE x == p + i - 1
  <2>2. x \in p .. (e - 1) /\ x = p + i - 1
    BY <1>1, <1>2
  <2> HIDE DEF x
  <2> QED
    BY <1>3, <2>1, <2>2
<1>6. ASSUME NEW x \in p .. (e - 1), s[x] = EQUALS, Typed(SubSeq(s, p, x - 1), SubSeq(s, x + 1, e - 1))
      PROVE  IsTypeAndValue(w)
  <2> DEFINE i == x - p + 1
  <2>2. i \in 1 .. Len(w) /\ x = p + i - 1
    BY <1>1, <1>2
  <2> HIDE DEF i
  <2> QED
    BY <1>3, <1>4, <1>6, <2>2
<1>7. IsTypeAndValue(w) <=>
         \E x \in p .. (e - 1) : s[x] = EQUALS /\ Typed(SubSeq(s, p, x - 1), SubSeq(s, x + 1, e - 1))
  BY <1>5, <1>6
<1> QED
  BY <1>7 DEF w, Typed

\* The zero is behind every piece of the word.
LEMMA PaddedPiece ==
    ASSUME NEW s \in Signs, NEW p \in 1 .. Len(s) + 1, NEW q \in (p - 1) .. Len(s)
    PROVE  SubSeq(Append(s, 0), p, q) = SubSeq(s, p, q)
<1> DEFINE t == Append(s, 0)
<1>1. /\ t \in Signs /\ Len(t) = Len(s) + 1 /\ Len(s) \in Nat
      /\ \A i \in 1 .. Len(s) : t[i] = s[i]
  BY PaddedIs
<1> HIDE DEF t
<1>2. p \in 1 .. Len(t) + 1 /\ q \in (p - 1) .. Len(t)
  BY <1>1
<1> DEFINE u == SubSeq(t, p, q)
           v == SubSeq(s, p, q)
<1>3. u \in Signs /\ Len(u) = q - p + 1 /\ \A i \in 1 .. q - p + 1 : u[i] = t[p + i - 1]
  BY <1>1, <1>2, PieceIs
<1>4. v \in Signs /\ Len(v) = q - p + 1 /\ \A i \in 1 .. q - p + 1 : v[i] = s[p + i - 1]
  BY PieceIs
<1> HIDE DEF u, v
<1>5. \A i \in 1 .. q - p + 1 : u[i] = v[i]
  <2> TAKE i \in 1 .. q - p + 1
  <2>1. p + i - 1 \in 1 .. Len(s)
    BY <1>1
  <2> QED
    BY <1>1, <1>3, <1>4, <2>1
<1>6. u = v
  BY <1>3, <1>4, <1>5 DEF Signs
<1> QED
  BY <1>6 DEF t, u, v

\* A type and its value are checked to be that.
LEMMA PartsAgree ==
    ASSUME NEW s \in Signs, Plain(s),
           NEW p \in 1 .. Len(s) + 1, p > 1 => s[p - 1] \in {COMMA, PLUS},
           NEW e \in p .. Len(s) + 1, Stops(s, e)
    PROVE  IsTypeAndValue(SubSeq(s, p, e - 1)) <=> PartEnd(Append(s, 0), p) = Reached(s, e)
<1> DEFINE t == Append(s, 0)
           there == Reached(s, e)
           Typed(x) == \/ IsKeyString(SubSeq(s, p, x - 1)) /\ IsString(SubSeq(s, x + 1, e - 1))
                       \/ IsNumericOid(SubSeq(s, p, x - 1)) /\ IsHexString(SubSeq(s, x + 1, e - 1))
<1>1. /\ Len(s) \in Nat /\ e \in Nat /\ p \in Nat /\ t \in Signs
      /\ Len(t) = Len(s) + 1 /\ t[Len(s) + 1] = 0
      /\ \A i \in 1 .. Len(s) : t[i] = s[i]
  BY PaddedIs
<1>2. PairsRead(s) /\ HexRead(s) /\ SpacesRead(s) /\ ValuesRead(s) /\ ~WideF4(s)
  BY DEF Plain
<1>3. p \in 1 .. Len(t) /\ there >= e /\ there \in Nat /\ there # 0
  BY <1>1 DEF Reached
<1>4. IsTypeAndValue(SubSeq(s, p, e - 1)) <=> \E x \in p .. (e - 1) : s[x] = EQUALS /\ Typed(x)
  BY TypeAndValueAtPlaces, Zenon
<1>5. \A i \in p .. Len(t) : i \in Equals(t, p) <=> i <= Len(s) /\ s[i] = EQUALS
  <2>1. \A i \in p .. Len(t) : i = Len(s) + 1 \/ i \in 1 .. Len(s)
    BY <1>1
  <2>2. EQUALS # 0
    BY DEF EQUALS
  <2> QED
    BY <1>1, <2>1, <2>2 DEF Equals
<1>6. \A x \in p .. (e - 1) : x \in p .. Len(t) /\ x \in 1 .. Len(s)
  BY <1>1
<1> HIDE DEF there, Typed
<1>7. CASE Equals(t, p) = {}
  <2>1. PartEnd(t, p) = 0
    BY <1>7 DEF PartEnd, HasType
  <2>2. \A x \in p .. (e - 1) : s[x] # EQUALS
    BY <1>5, <1>6, <1>7
  <2> QED
    BY <1>3, <1>4, <2>1, <2>2 DEF there
<1>8. CASE Equals(t, p) # {}
  <2> DEFINE x == Separator(t, p)
             k == SubSeq(s, p, x - 1)
  <2>1. x \in p .. Len(t) /\ t[x] = EQUALS /\ \A i \in p .. (x - 1) : t[i] # EQUALS
    BY <1>1, <1>3, <1>8, SeparatorIs
  <2> HIDE DEF x
  <2>2. x \in p .. Len(s) /\ s[x] = EQUALS
    <3>1. x \in Equals(t, p)
      BY <2>1 DEF Equals
    <3> QED
      BY <1>1, <1>5, <2>1, <3>1
  <2>3. \A i \in p .. (x - 1) : s[i] # EQUALS
    <3>1. \A i \in p .. (x - 1) : i \in 1 .. Len(s)
      BY <1>1, <2>2
    <3> QED
      BY <1>1, <2>1, <3>1
  <2>4. ASSUME NEW y \in p .. (e - 1), s[y] = EQUALS, Typed(y)
        PROVE  y = x
    <3> DEFINE type == SubSeq(s, p, y - 1)
    <3>1. y - 1 \in (p - 1) .. Len(s) /\ (y - 1) - p + 1 = y - p
      BY <1>1, <1>6
    <3>2. type \in Signs /\ Len(type) = y - p /\ \A i \in 1 .. y - p : type[i] = s[p + i - 1]
      BY <3>1, PieceIs
    <3>3. \A i \in 1 .. Len(type) : type[i] # EQUALS
      <4>1. IsKeyString(type) \/ IsNumericOid(type)
        BY <2>4 DEF Typed
      <4> HIDE DEF type
      <4> QED
        BY <3>2, <4>1, TypesAreWithoutEquals
    <3> HIDE DEF type
    <3>4. ~(x < y)
      <4>1. SUFFICES ASSUME x < y PROVE FALSE
        OBVIOUS
      <4>2. x - p + 1 \in 1 .. y - p /\ p + (x - p + 1) - 1 = x
        BY <1>1, <2>2, <4>1
      <4>3. type[x - p + 1] = s[x]
        BY <3>2, <4>2
      <4> QED
        BY <2>2, <3>2, <3>3, <4>2, <4>3
    <3>5. ~(y < x)
      <4>1. y < x => y \in p .. (x - 1)
        BY <1>1, <2>2
      <4> QED
        BY <2>3, <2>4, <4>1
    <3> QED
      BY <1>1, <2>2, <3>4, <3>5
  <2>5. IsTypeAndValue(SubSeq(s, p, e - 1)) <=> x < e /\ Typed(x)
    <3>1. x < e <=> x \in p .. (e - 1)
      BY <1>1, <2>2
    <3> QED
      BY <1>4, <2>2, <2>4, <3>1
  <2>6. CASE ~(x < e)
    <3>1. PartEnd(t, p) = 0 \/ (x < PartEnd(t, p) /\ PartEnd(t, p) \in Nat)
      <4>1. \/ PartEnd(t, p) = 0
            \/ /\ PartEnd(t, p) \in (p + 1) .. Len(t) + 1
               /\ Separator(t, p) < PartEnd(t, p)
        BY <1>1, <1>3, PartEndsAtStop
      <4> QED
        BY <1>1, <4>1 DEF x
    <3>2. there = e
      BY <1>1, <2>2, <2>6 DEF there, Reached
    <3>3. PartEnd(t, p) # there
      BY <1>1, <1>3, <2>2, <2>6, <3>1, <3>2
    <3> QED
      BY <2>5, <2>6, <3>3 DEF there
  <2>7. CASE x < e
    <3>1. e \in (x + 1) .. Len(s) + 1 /\ x \in 1 .. Len(s) /\ p \in 1 .. x
      BY <1>1, <2>2, <2>7
    <3>2. p \in 1 .. Len(s) /\ t[p] = s[p]
      BY <1>1, <2>2
    <3>3. k \in Signs /\ Len(k) = x - p /\ (1 \in 1 .. Len(k) => k[1] = s[p])
          /\ SubSeq(t, p, x - 1) = k
      <4>1. x - 1 \in (p - 1) .. Len(s) /\ (x - 1) - p + 1 = x - p
        BY <1>1, <2>2
      <4>2. k \in Signs /\ Len(k) = x - p /\ \A i \in 1 .. x - p : k[i] = s[p + i - 1]
        BY <4>1, PieceIs
      <4>3. SubSeq(t, p, x - 1) = k
        BY <4>1, PaddedPiece
      <4>4. p + 1 - 1 = p
        BY <1>1
      <4> QED
        BY <4>2, <4>3, <4>4
    <3> HIDE DEF k
    <3>4. PartEnd(t, p) =
             IF TypeFits(t, p) /\ Begins(t, x + 1, t[p] \in DIGIT)
             THEN IF t[p] \in DIGIT THEN HexEnd(t, x + 2) ELSE StringEnd(t, x + 1)
             ELSE 0
      BY <1>8 DEF PartEnd, HasType, x
    <3>5. TypeFits(t, p) <=> IF s[p] \in DIGIT THEN NumericOid(k) ELSE KeyString(k)
      BY <3>2, <3>3 DEF TypeFits, x
    <3>6. Typed(x) <=> \/ IsKeyString(k) /\ IsString(SubSeq(s, x + 1, e - 1))
                       \/ IsNumericOid(k) /\ IsHexString(SubSeq(s, x + 1, e - 1))
      BY DEF Typed, k
    <3>7. CASE s[p] \in DIGIT
      <4>1. s[p] \notin ALPHA /\ s[p] # EQUALS
        <5>1. \A c \in DIGIT : c \notin ALPHA /\ c # EQUALS
          BY DEF DIGIT, ALPHA, EQUALS
        <5> QED
          BY <3>7, <5>1
      <4>2. k # <<>>
        <5>1. x # p
          BY <2>2, <4>1
        <5>2. Len(k) # 0
          BY <1>1, <2>2, <3>3, <5>1
        <5> QED
          BY <5>2
      <4>3. ~IsKeyString(k)
        BY <3>3, <4>1, TypesAreWithoutEquals
      <4>4. NumericOid(k) <=> IsNumericOid(k)
        BY <3>3, <4>2, NumericOidsAgree
      <4>5. CASE ~IsNumericOid(k)
        <5>1. PartEnd(t, p) = 0
          BY <3>4, <3>5, <3>7, <4>4, <4>5
        <5> QED
          BY <1>3, <2>5, <3>6, <4>3, <4>5, <5>1 DEF there
      <4>6. CASE IsNumericOid(k)
        <5>1. IsHexString(SubSeq(s, x + 1, e - 1)) <=>
                 Begins(t, x + 1, TRUE) /\ HexEnd(t, x + 2) = there
          BY <1>2, <2>2, <3>1, <4>6, HexStringsAgree DEF k, there
        <5>2. Begins(t, x + 1, t[p] \in DIGIT) <=> Begins(t, x + 1, TRUE)
          BY <3>2, <3>7 DEF Begins
        <5>3. PartEnd(t, p) = IF Begins(t, x + 1, TRUE) THEN HexEnd(t, x + 2) ELSE 0
          BY <3>2, <3>4, <3>5, <3>7, <4>4, <4>6, <5>2
        <5> HIDE DEF t
        <5>4. PartEnd(t, p) = there <=> Begins(t, x + 1, TRUE) /\ HexEnd(t, x + 2) = there
          BY <1>3, <5>3
        <5>5. IsTypeAndValue(SubSeq(s, p, e - 1)) <=> IsHexString(SubSeq(s, x + 1, e - 1))
          BY <2>5, <2>7, <3>6, <4>3, <4>6
        <5> QED
          BY <5>1, <5>4, <5>5 DEF t, there
      <4> QED
        BY <4>5, <4>6
    <3>8. CASE s[p] \notin DIGIT
      <4>1. ~IsNumericOid(k)
        BY <3>3, <3>8, TypesAreWithoutEquals
      <4>2. KeyString(k) <=> IsKeyString(k)
        BY <3>3, KeyStringsAgree
      <4>3. IsString(SubSeq(s, x + 1, e - 1)) <=>
               Begins(t, x + 1, FALSE) /\ StringEnd(t, x + 1) = there
        BY <1>2, <2>2, <3>1, StringsAgree DEF there
      <4>4. Begins(t, x + 1, t[p] \in DIGIT) <=> Begins(t, x + 1, FALSE)
        BY <3>2, <3>8 DEF Begins
      <4>5. PartEnd(t, p) = IF IsKeyString(k) /\ Begins(t, x + 1, FALSE) THEN StringEnd(t, x + 1) ELSE 0
        BY <3>2, <3>4, <3>5, <3>8, <4>2, <4>4
      <4> HIDE DEF t
      <4>6. PartEnd(t, p) = there <=>
               IsKeyString(k) /\ Begins(t, x + 1, FALSE) /\ StringEnd(t, x + 1) = there
        BY <1>3, <4>5
      <4>7. IsTypeAndValue(SubSeq(s, p, e - 1)) <=>
               IsKeyString(k) /\ IsString(SubSeq(s, x + 1, e - 1))
        BY <2>5, <2>7, <3>6, <4>1
      <4> QED
        BY <4>3, <4>6, <4>7 DEF t, there
    <3> QED
      BY <3>7, <3>8
  <2> QED
    BY <2>6, <2>7
<1> QED
  BY <1>7, <1>8

\* Where values and plus signs of a piece are read from on, by places of the
\* whole.
LEMMA RdnsAtPlaces ==
    ASSUME NEW s \in Signs, NEW p \in 1 .. Len(s) + 1, NEW e \in p .. Len(s) + 1
    PROVE  \E f : /\ IsRdn(SubSeq(s, p, e - 1)) <=> f[p]
                  /\ \A q \in p .. e : f[q] <=>
                        \/ IsTypeAndValue(SubSeq(s, q, e - 1))
                        \/ \E r \in q .. (e - 1) :
                              s[r] = PLUS /\ IsTypeAndValue(SubSeq(s, q, r - 1)) /\ f[r + 1]
<1> DEFINE w == SubSeq(s, p, e - 1)
<1>1. Len(s) \in Nat /\ e - 1 \in (p - 1) .. Len(s) /\ (e - 1) - p + 1 = e - p
  BY DEF Signs
<1>2. w \in Signs /\ Len(w) = e - p /\ \A i \in 1 .. e - p : w[i] = s[p + i - 1]
  BY <1>1, PieceIs
<1>3. \A i \in 0 .. e - p : \A j \in i .. e - p :
          SubSeq(w, i + 1, j) = SubSeq(s, p + i, p + j - 1)
  BY <1>1, PieceOfPiece
<1>4. PICK g : RdnsFrom(w, g)
  BY <1>2, RdnsRead
<1> HIDE DEF w
<1> DEFINE f == [q \in p .. e |-> g[q - p]]
<1>5. \A q \in p .. e : f[q] = g[q - p]
  OBVIOUS
<1> HIDE DEF f
<1>6. IsRdn(w) <=> f[p]
  <2>1. p \in p .. e /\ p - p = 0
    BY <1>1
  <2>2. f[p] = g[0]
    BY <1>5, <2>1
  <2> QED
    BY <1>4, <2>2 DEF RdnsFrom
<1>7. ASSUME NEW q \in p .. e
      PROVE  f[q] <=> \/ IsTypeAndValue(SubSeq(s, q, e - 1))
                      \/ \E r \in q .. (e - 1) :
                            s[r] = PLUS /\ IsTypeAndValue(SubSeq(s, q, r - 1)) /\ f[r + 1]
  <2> DEFINE i == q - p
  <2>1. i \in 0 .. Len(w) /\ p + i = q /\ q \in Nat
    BY <1>1, <1>2
  <2>2. f[q] <=> \/ IsTypeAndValue(After(w, i))
                 \/ \E j \in (i + 1) .. Len(w) :
                       w[j] = PLUS /\ IsTypeAndValue(SubSeq(w, i + 1, j - 1)) /\ g[j]
    <3>1. f[q] = g[i]
      BY <1>5
    <3> HIDE DEF i
    <3> QED
      BY <1>4, <2>1, <3>1 DEF RdnsFrom
  <2> HIDE DEF i
  <2>3. After(w, i) = SubSeq(s, q, e - 1)
    <3> DEFINE j == Len(w)
    <3>1. i \in 0 .. e - p /\ j \in i .. e - p /\ p + j - 1 = e - 1
      BY <1>1, <1>2, <2>1
    <3> HIDE DEF j
    <3>2. SubSeq(w, i + 1, j) = SubSeq(s, p + i, p + j - 1)
      BY <1>3, <3>1
    <3> QED
      BY <2>1, <3>1, <3>2 DEF After, j
  <2>4. ASSUME NEW j \in (i + 1) .. Len(w), NEW r \in q .. (e - 1), r = p + j - 1
        PROVE  w[j] = s[r] /\ g[j] = f[r + 1] /\ SubSeq(w, i + 1, j - 1) = SubSeq(s, q, r - 1)
    <3>1. j \in 1 .. e - p /\ j - 1 \in i .. e - p /\ i \in 0 .. e - p
      BY <1>1, <1>2, <2>1
    <3>2. w[j] = s[r]
      BY <1>2, <2>4, <3>1
    <3>3. r + 1 \in p .. e /\ r + 1 - p = j
      BY <1>1, <2>1, <2>4, <3>1
    <3>4. g[j] = f[r + 1]
      <4>1. f[r + 1] = g[r + 1 - p]
        BY <1>5, <3>3
      <4> QED
        BY <3>3, <4>1
    <3>5. SubSeq(w, i + 1, j - 1) = SubSeq(s, q, r - 1)
      <4> DEFINE m == j - 1
      <4>1. m \in i .. e - p /\ p + m - 1 = r - 1
        BY <1>1, <2>1, <2>4, <3>1
      <4> HIDE DEF m
      <4>2. SubSeq(w, i + 1, m) = SubSeq(s, p + i, p + m - 1)
        BY <1>3, <3>1, <4>1
      <4> QED
        BY <2>1, <4>1, <4>2 DEF m
    <3> QED
      BY <3>2, <3>4, <3>5
  <2>5. ASSUME NEW j \in (i + 1) .. Len(w), w[j] = PLUS, IsTypeAndValue(SubSeq(w, i + 1, j - 1)), g[j]
        PROVE  \E r \in q .. (e - 1) : s[r] = PLUS /\ IsTypeAndValue(SubSeq(s, q, r - 1)) /\ f[r + 1]
    <3> DEFINE r == p + j - 1
    <3>1. r \in q .. (e - 1) /\ r = p + j - 1
      BY <1>1, <1>2, <2>1
    <3> HIDE DEF r
    <3> QED
      BY <2>4, <2>5, <3>1
  <2>6. ASSUME NEW r \in q .. (e - 1), s[r] = PLUS, IsTypeAndValue(SubSeq(s, q, r - 1)), f[r + 1]
        PROVE  \E j \in (i + 1) .. Len(w) :
                  w[j] = PLUS /\ IsTypeAndValue(SubSeq(w, i + 1, j - 1)) /\ g[j]
    <3> DEFINE j == r - p + 1
    <3>1. j \in (i + 1) .. Len(w) /\ r = p + j - 1
      BY <1>1, <1>2, <2>1
    <3> HIDE DEF j
    <3> QED
      BY <2>4, <2>6, <3>1
  <2> QED
    BY <2>2, <2>3, <2>5, <2>6
<1> QED
  BY <1>6, <1>7 DEF w

\* The values of a part and the plus signs between them are checked to be that.
LEMMA RdnsAgree ==
    ASSUME NEW s \in Signs, Plain(s),
           NEW p \in 1 .. Len(s) + 1, p > 1 => s[p - 1] = COMMA,
           NEW e \in p .. Len(s) + 1, e = Len(s) + 1 \/ s[e] = COMMA
    PROVE  IsRdn(SubSeq(s, p, e - 1)) <=> RdnEnd(Append(s, 0), p) = Reached(s, e)
<1> DEFINE t == Append(s, 0)
           there == Reached(s, e)
           AfterStop(q) == q > 1 => s[q - 1] \in {COMMA, PLUS}
<1>1. /\ Len(s) \in Nat /\ e \in Nat /\ p \in Nat /\ t \in Signs
      /\ Len(t) = Len(s) + 1 /\ t[Len(s) + 1] = 0
      /\ \A i \in 1 .. Len(s) : t[i] = s[i]
  BY PaddedIs
<1>2. PICK f : /\ IsRdn(SubSeq(s, p, e - 1)) <=> f[p]
               /\ \A q \in p .. e : f[q] <=>
                     \/ IsTypeAndValue(SubSeq(s, q, e - 1))
                     \/ \E r \in q .. (e - 1) :
                           s[r] = PLUS /\ IsTypeAndValue(SubSeq(s, q, r - 1)) /\ f[r + 1]
  BY RdnsAtPlaces
<1>3. there \in Nat /\ there >= e /\ (there # e => e = Len(s) + 1 /\ there = e + 1)
  BY <1>1 DEF Reached
<1>4. ASSUME NEW q \in p .. e, AfterStop(q)
      PROVE  /\ \A r \in q .. Len(s) + 1 : Stops(s, r) =>
                    (IsTypeAndValue(SubSeq(s, q, r - 1)) <=> PartEnd(t, q) = Reached(s, r))
             /\ q \in 1 .. Len(t)
  <2>1. q \in 1 .. Len(s) + 1
    BY <1>1
  <2> QED
    BY <1>1, <1>4, <2>1, PartsAgree
<1>5. COMMA # PLUS /\ COMMA # 0 /\ PLUS # 0
  BY DEF COMMA, PLUS
<1>6. Stops(s, e)
  BY DEF Stops
<1>7. \A q \in 1 .. Len(t) : GoesOn(t, PartEnd(t, q), PLUS) <=>
          PartEnd(t, q) \in 1 .. Len(s) /\ s[PartEnd(t, q)] = PLUS
  <2>1. Len(t) - 1 = Len(s)
    BY <1>1
  <2> QED
    BY <1>1, <2>1 DEF GoesOn
<1>8. /\ \A q \in 1 .. Len(t) : RdnEnd(t, q) \in Nat
      /\ \A q \in 1 .. Len(t) : GoesOn(t, PartEnd(t, q), PLUS) => RdnEnd(t, q) = RdnEnd(t, PartEnd(t, q) + 1)
      /\ \A q \in 1 .. Len(t) : ~GoesOn(t, PartEnd(t, q), PLUS) => RdnEnd(t, q) = PartEnd(t, q)
      /\ \A q \in 1 .. Len(t) : RdnEnd(t, q) = 0 \/ RdnEnd(t, q) > q
  <2>1. t[Len(t)] # PLUS
    BY <1>1, <1>5
  <2>2. \A q \in 1 .. Len(t) : RdnEnd(t, q) \in Nat /\ RdnEnd(t, q) =
                    IF GoesOn(t, PartEnd(t, q), PLUS) THEN RdnEnd(t, PartEnd(t, q) + 1)
                    ELSE IF PartEnd(t, q) = Len(t) /\ t[Len(t)] = PLUS THEN 0 ELSE PartEnd(t, q)
    BY <1>1, RdnEndPass
  <2>3. \A q \in 1 .. Len(t) : RdnEnd(t, q) = 0 \/ RdnEnd(t, q) > q
    BY <1>1, RdnEndsLater
  <2> HIDE DEF t
  <2> QED
    BY <2>1, <2>2, <2>3
<1>9. \A q \in 1 .. Len(t) : PartEnd(t, q) = 0 \/ PartEnd(t, q) \in (q + 1) .. Len(t) + 1
  BY <1>1, PartEndsAtStop
<1> HIDE DEF t
<1> DEFINE Good == {q \in p .. e : AfterStop(q) => (f[q] <=> RdnEnd(t, q) = there)}
<1>10. ASSUME NEW q \in p .. e, \A j \in (q + 1) .. e : j \in Good
       PROVE  q \in Good
  <2> SUFFICES ASSUME AfterStop(q) PROVE f[q] <=> RdnEnd(t, q) = there
    OBVIOUS
  <2> DEFINE m == PartEnd(t, q)
  <2>1. q \in 1 .. Len(t) /\ q \in Nat
    BY <1>1, <1>4
  <2>2. IsTypeAndValue(SubSeq(s, q, e - 1)) <=> m = there
    BY <1>1, <1>4, <1>6
  <2>3. \A r \in q .. (e - 1) : s[r] = PLUS =>
           r \in 1 .. Len(s) /\ (IsTypeAndValue(SubSeq(s, q, r - 1)) <=> m = r)
    <3> SUFFICES ASSUME NEW r \in q .. (e - 1), s[r] = PLUS
                 PROVE  r \in 1 .. Len(s) /\ (IsTypeAndValue(SubSeq(s, q, r - 1)) <=> m = r)
      OBVIOUS
    <3>1. r \in 1 .. Len(s) /\ r \in q .. Len(s) + 1 /\ r # Len(s) + 1
      BY <1>1, <2>1
    <3>2. Stops(s, r) /\ Reached(s, r) = r
      BY <3>1 DEF Stops, Reached
    <3> QED
      BY <1>4, <3>1, <3>2
  <2>4. f[q] <=> m = there \/ (m \in q .. (e - 1) /\ s[m] = PLUS /\ f[m + 1])
    <3> HIDE DEF m
    <3>1. f[q] <=> \/ m = there
                   \/ \E r \in q .. (e - 1) : s[r] = PLUS /\ m = r /\ f[r + 1]
      BY <1>2, <2>2, <2>3
    <3> QED
      BY <3>1
  <2>5. CASE GoesOn(t, m, PLUS)
    <3>1. m \in 1 .. Len(s) /\ s[m] = PLUS /\ m > q /\ RdnEnd(t, q) = RdnEnd(t, m + 1)
      <4>1. m \in 1 .. Len(s) /\ s[m] = PLUS
        BY <1>7, <2>1, <2>5
      <4>2. RdnEnd(t, q) = RdnEnd(t, m + 1)
        BY <1>8, <2>1, <2>5
      <4>3. m = 0 \/ m \in (q + 1) .. Len(t) + 1
        BY <1>9, <2>1
      <4> HIDE DEF m
      <4> QED
        BY <2>1, <4>1, <4>2, <4>3
    <3>2. m + 1 \in 1 .. Len(t)
      BY <1>1, <3>1
    <3>3. RdnEnd(t, m + 1) \in Nat /\ (RdnEnd(t, m + 1) = 0 \/ RdnEnd(t, m + 1) > m + 1)
      BY <1>8, <3>2
    <3> HIDE DEF m, there
    <3>4. m # there
      <4>1. m # e
        BY <1>1, <1>5, <3>1
      <4> QED
        BY <1>1, <1>3, <3>1, <4>1
    <3>5. CASE m < e
      <4>1. m + 1 \in (q + 1) .. e /\ m \in q .. (e - 1) /\ m + 1 - 1 = m
        BY <1>1, <2>1, <3>1, <3>5
      <4>2. f[m + 1] <=> RdnEnd(t, m + 1) = there
        <5>1. m + 1 \in Good
          BY <1>10, <4>1
        <5> QED
          BY <3>1, <4>1, <5>1
      <4> QED
        BY <2>4, <3>1, <3>4, <4>1, <4>2
    <3>6. CASE ~(m < e)
      <4>1. m > e /\ e # Len(s) + 1 /\ m \notin q .. (e - 1)
        BY <1>1, <1>5, <2>1, <3>1, <3>6
      <4>2. there = e
        BY <1>3, <4>1
      <4>3. RdnEnd(t, m + 1) # there
        BY <1>1, <2>1, <3>1, <3>3, <4>1, <4>2
      <4> QED
        BY <2>4, <3>1, <3>4, <4>1, <4>3
    <3> QED
      BY <3>5, <3>6
  <2>6. CASE ~GoesOn(t, m, PLUS)
    <3>1. RdnEnd(t, q) = m
      BY <1>8, <2>1, <2>6
    <3>2. ~(m \in q .. (e - 1) /\ s[m] = PLUS)
      <4>1. m \in q .. (e - 1) => m \in 1 .. Len(s)
        BY <1>1, <2>1
      <4> QED
        BY <1>7, <2>1, <2>6, <4>1
    <3> QED
      BY <2>4, <3>1, <3>2
  <2> QED
    BY <2>5, <2>6
<1>11. Good \in SUBSET (p .. e)
  OBVIOUS
<1>12. Good = p .. e
  <2> HIDE DEF Good
  <2> QED
    BY <1>1, <1>10, <1>11, FromTheEnd
<1>13. p \in Good
  BY <1>1, <1>12
<1> QED
  BY <1>2, <1>13 DEF t

\* A walk over a part stays within the text.
LEMMA RdnEndsWithin ==
    ASSUME NEW t \in Signs
    PROVE  \A p \in 1 .. Len(t) : RdnEnd(t, p) \in 0 .. Len(t) + 1
<1> DEFINE Good == {p \in 1 .. Len(t) : RdnEnd(t, p) \in 0 .. Len(t) + 1}
<1>1. Len(t) \in Nat /\ 1 \in Nat /\ Good \in SUBSET (1 .. Len(t))
  BY DEF Signs
<1>2. ASSUME NEW p \in 1 .. Len(t), \A j \in (p + 1) .. Len(t) : j \in Good
      PROVE  p \in Good
  <2>1. PartEnd(t, p) = 0 \/ PartEnd(t, p) \in (p + 1) .. Len(t) + 1
    BY <1>1, PartEndsAtStop
  <2>2. CASE GoesOn(t, PartEnd(t, p), PLUS)
    <3>1. RdnEnd(t, p) = RdnEnd(t, PartEnd(t, p) + 1)
      BY <2>2, RdnEndPass
    <3>2. PartEnd(t, p) + 1 \in (p + 1) .. Len(t)
      BY <1>1, <2>1, <2>2 DEF GoesOn
    <3>3. PartEnd(t, p) + 1 \in Good
      BY <1>2, <3>2
    <3> QED
      BY <3>1, <3>3
  <2>3. CASE ~GoesOn(t, PartEnd(t, p), PLUS)
    <3>1. RdnEnd(t, p) \in {0, PartEnd(t, p)}
      BY <2>3, RdnEndPass
    <3> QED
      BY <1>1, <2>1, <3>1
  <2> QED
    BY <2>2, <2>3
<1> HIDE DEF Good
<1>3. Good = 1 .. Len(t)
  BY <1>1, <1>2, FromTheEnd
<1> QED
  BY <1>3 DEF Good

\* A name is checked to be one, where the code and the RFC agree.
LEMMA PlainNamesAgree ==
    ASSUME NEW s \in Signs, Plain(s)
    PROVE  CheckDnString(s) <=> IsDn(s)
<1> DEFINE t == Append(s, 0)
           StartsPart(i) == i > 0 => s[i] = COMMA
<1>1. /\ Len(s) \in Nat /\ t \in Signs
      /\ Len(t) = Len(s) + 1 /\ t[Len(s) + 1] = 0
      /\ \A i \in 1 .. Len(s) : t[i] = s[i]
  BY PaddedIs
<1>2. PICK f : DnsFrom(s, f)
  BY DnsRead
<1>3. \A i \in 0 .. Len(s) :
          f[i] <=> \/ IsRdn(After(s, i))
                   \/ \E j \in (i + 1) .. Len(s) :
                         s[j] = COMMA /\ IsRdn(SubSeq(s, i + 1, j - 1)) /\ f[j]
  BY <1>2 DEF DnsFrom
<1>4. ASSUME NEW i \in 0 .. Len(s), StartsPart(i)
      PROVE  /\ IsRdn(After(s, i)) <=> RdnEnd(t, i + 1) = Len(s) + 2
             /\ \A j \in (i + 1) .. Len(s) : s[j] = COMMA =>
                   (IsRdn(SubSeq(s, i + 1, j - 1)) <=> RdnEnd(t, i + 1) = j)
  <2> DEFINE p == i + 1
  <2>1. p \in 1 .. Len(s) + 1 /\ p - 1 = i /\ i + 1 = p
    BY <1>1
  <2>2. p > 1 => s[p - 1] = COMMA
    BY <1>1, <1>4, <2>1
  <2> HIDE DEF p
  <2>3. \A e \in p .. Len(s) + 1 : e = Len(s) + 1 \/ s[e] = COMMA =>
           (IsRdn(SubSeq(s, p, e - 1)) <=> RdnEnd(t, p) = Reached(s, e))
    BY <2>1, <2>2, RdnsAgree
  <2>4. IsRdn(After(s, i)) <=> RdnEnd(t, p) = Len(s) + 2
    <3> DEFINE e == Len(s) + 1
    <3>1. e \in p .. Len(s) + 1 /\ e = Len(s) + 1 /\ e - 1 = Len(s) /\ Reached(s, e) = Len(s) + 2
      BY <1>1, <2>1 DEF Reached
    <3> HIDE DEF e
    <3>2. IsRdn(SubSeq(s, p, e - 1)) <=> RdnEnd(t, p) = Reached(s, e)
      BY <2>3, <3>1
    <3> QED
      BY <2>1, <3>1, <3>2 DEF After
  <2>5. ASSUME NEW j \in (i + 1) .. Len(s), s[j] = COMMA
        PROVE  IsRdn(SubSeq(s, i + 1, j - 1)) <=> RdnEnd(t, i + 1) = j
    <3>1. j \in p .. Len(s) + 1 /\ Reached(s, j) = j
      BY <1>1, <2>1 DEF Reached
    <3> QED
      BY <2>1, <2>3, <2>5, <3>1
  <2> QED
    BY <2>1, <2>4, <2>5
<1>5. \A q \in 1 .. Len(t) : DnFrom(t, q) <=>
                 \/ RdnEnd(t, q) > Len(t)
                 \/ GoesOn(t, RdnEnd(t, q), COMMA) /\ DnFrom(t, RdnEnd(t, q) + 1)
  BY <1>1, DnFromPass
<1>6. \A q \in 1 .. Len(t) : RdnEnd(t, q) \in 0 .. Len(s) + 2 /\ (RdnEnd(t, q) = 0 \/ RdnEnd(t, q) > q)
  <2>1. /\ \A q \in 1 .. Len(t) : RdnEnd(t, q) \in 0 .. Len(t) + 1
        /\ \A q \in 1 .. Len(t) : RdnEnd(t, q) = 0 \/ RdnEnd(t, q) > q
    BY <1>1, RdnEndsLater, RdnEndsWithin
  <2>2. Len(t) + 1 = Len(s) + 2
    BY <1>1
  <2> HIDE DEF t
  <2> QED
    BY <2>1, <2>2
<1>7. \A m : GoesOn(t, m, COMMA) <=> m \in 1 .. Len(s) /\ s[m] = COMMA
  <2>1. Len(t) - 1 = Len(s)
    BY <1>1
  <2> QED
    BY <1>1, <2>1 DEF GoesOn
<1> HIDE DEF t
<1> DEFINE Good == {i \in 0 .. Len(s) : StartsPart(i) => (f[i] <=> DnFrom(t, i + 1))}
<1>8. ASSUME NEW i \in 0 .. Len(s), \A j \in (i + 1) .. Len(s) : j \in Good
      PROVE  i \in Good
  <2> SUFFICES ASSUME StartsPart(i) PROVE f[i] <=> DnFrom(t, i + 1)
    OBVIOUS
  <2> DEFINE m == RdnEnd(t, i + 1)
  <2>1. i + 1 \in 1 .. Len(t) /\ i \in Nat
    BY <1>1
  <2>2. m \in 0 .. Len(s) + 2 /\ (m = 0 \/ m > i + 1)
    BY <1>6, <2>1
  <2>3. DnFrom(t, i + 1) <=> m > Len(t) \/ (GoesOn(t, m, COMMA) /\ DnFrom(t, m + 1))
    BY <1>5, <2>1
  <2>4. /\ IsRdn(After(s, i)) <=> m = Len(s) + 2
        /\ \A j \in (i + 1) .. Len(s) : s[j] = COMMA => (IsRdn(SubSeq(s, i + 1, j - 1)) <=> m = j)
    BY <1>4
  <2> HIDE DEF m
  <2>5. m > Len(t) <=> m = Len(s) + 2
    BY <1>1, <2>2
  <2>6. f[i] <=> m = Len(s) + 2 \/ (m \in (i + 1) .. Len(s) /\ s[m] = COMMA /\ f[m])
    <3>1. f[i] <=> \/ m = Len(s) + 2
                   \/ \E j \in (i + 1) .. Len(s) : s[j] = COMMA /\ m = j /\ f[j]
      BY <1>3, <2>4
    <3> QED
      BY <3>1
  <2>7. m \in 1 .. Len(s) <=> m \in (i + 1) .. Len(s)
    BY <1>1, <2>1, <2>2
  <2>8. m \in (i + 1) .. Len(s) /\ s[m] = COMMA => (f[m] <=> DnFrom(t, m + 1))
    BY <1>8
  <2>9. GoesOn(t, m, COMMA) <=> m \in (i + 1) .. Len(s) /\ s[m] = COMMA
    BY <1>7, <2>7
  <2> QED
    BY <2>3, <2>5, <2>6, <2>8, <2>9, Zenon
<1>9. Good \in SUBSET (0 .. Len(s))
  OBVIOUS
<1>10. Good = 0 .. Len(s)
  <2> DEFINE lo == 0
  <2>1. lo \in Nat
    OBVIOUS
  <2> HIDE DEF Good
  <2> QED
    BY <1>1, <1>8, <1>9, <2>1, FromTheEnd
<1>11. f[0] <=> DnFrom(t, 1)
  <2>1. 0 \in Good
    BY <1>1, <1>10
  <2>2. 0 + 1 = 1 /\ ~(0 > 0)
    OBVIOUS
  <2> QED
    BY <2>1, <2>2
<1>12. IsDn(s) <=> f[0]
  BY <1>2 DEF DnsFrom
<1>13. s = <<>> => ~IsDn(s)
  <2> SUFFICES ASSUME s = <<>>, f[0] PROVE FALSE
    BY <1>12
  <2>1. Len(s) = 0
    OBVIOUS
  <2>2. IsRdn(After(s, 0))
    BY <1>3, <2>1
  <2>3. RdnEnd(t, 1) = 2
    <3>1. 0 \in 0 .. Len(s) /\ StartsPart(0) /\ 0 + 1 = 1 /\ Len(s) + 2 = 2
      BY <2>1
    <3> QED
      BY <1>4, <2>2, <3>1 DEF t
  <2>4. PartEnd(t, 1) = 0
    <3>1. Equals(t, 1) = {}
      BY <1>1, <2>1 DEF Equals, EQUALS
    <3> QED
      BY <3>1 DEF PartEnd, HasType
  <2>5. RdnEnd(t, 1) = 0
    <3>1. 1 \in 1 .. Len(t) /\ ~GoesOn(t, 0, PLUS) /\ 0 # Len(t)
      BY <1>1, <2>1 DEF GoesOn
    <3>2. RdnEnd(t, 1) =
             IF GoesOn(t, PartEnd(t, 1), PLUS) THEN RdnEnd(t, PartEnd(t, 1) + 1)
             ELSE IF PartEnd(t, 1) = Len(t) /\ t[Len(t)] = PLUS THEN 0 ELSE PartEnd(t, 1)
      BY <1>1, <3>1, RdnEndPass
    <3> QED
      BY <2>4, <3>1, <3>2
  <2> QED
    BY <2>3, <2>5
<1> QED
  BY <1>11, <1>12, <1>13 DEF CheckDnString, t

\* Types are checked alone: between the last separator and the '='.
TypesAgree(w) ==
    /\ KeyString(w) <=> IsKeyString(w)
    /\ w # <<>> => (NumericOid(w) <=> IsNumericOid(w))

(***************************************************************************)
(* Of every text, keystring_validate takes it for a name of a type when RFC *)
(* 4512 does, and numericoid_validate for a dotted number, whatever the     *)
(* dots, zeros and dashes, without any exception.  A dotted number is only  *)
(* looked for where there is a digit, so never in an empty text.            *)
(***************************************************************************)
THEOREM TypesAreChecked == \A w \in Seq(Nat) : TypesAgree(w)
  BY KeyStringsAgree, NumericOidsAgree DEF TypesAgree, Signs

(***************************************************************************)
(* Of every text that is none of the exceptions of Plain, CheckDnString     *)
(* accepts it when it is a name of RFC 4514, at every length and with every *)
(* number of parts, values, escapes and characters of several bytes.        *)
(***************************************************************************)
THEOREM PlainNamesAreChecked ==
    \A w \in Seq(Nat) : Plain(w) => (CheckDnString(w) <=> IsDn(w))
  BY PlainNamesAgree DEF Signs

(***************************************************************************)
(* NamesAgree, for every text of every form: while a name is typed, the     *)
(* editor of a cell takes it when it is one, and not before                 *)
(* (distinguishedname_validate and the routines under it).                  *)
(***************************************************************************)
THEOREM EveryNameAgrees == TypingSpec => []NamesAgree
<1>1. word \in Seq(Nat) => NamesAgree
  BY PlainNamesAreChecked DEF NamesAgree
<1> QED
  BY <1>1, TypingKeepsSigns, PTL
===============================================================================
