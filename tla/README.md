# A TLA+ development of QLdapEditor

QLdapEditor is a Qt desktop program that browses and edits an LDAP directory
(Samba AD or OpenLDAP). This directory holds TLA+ models of its logic, TLC
configurations that check them on small instances, and TLAPS proofs for every
value of the constants. Paths below are relative to `src/`.

1. [The system](#1-the-system): components, interactions, what is hard
2. [The models](#2-the-models): module by module, with bounds and fairness
3. [The runs](#3-the-runs) and what they show
4. [Disagreements](#4-where-code-and-documentation-disagree) between code and documentation
5. [The proofs](#5-the-proofs)
6. [What is left out](#6-what-is-left-out), and the [plan](#7-plan)

## 1. The system

### Components

| component | state it keeps | operations |
|---|---|---|
| **Connection** `corelib/CLdapData.cpp` | the LDAP connection, bind credentials, schema, top-level entries | `connect` (on a worker thread), `rebuild`, `reconnect`, `hardReconnect`, `resetConnection`, `search`, `changeUserPassword` |
| **Connection dialog** `editor/connectiondialog.cpp`, `editor/ldapsettings.cpp` | stored connections, the list of them, the form, seconds left to wait, whether the form is enabled | `onConnectionChanged`, `onConnectClicked`, `saveSettings`, `onTimer`, `onConnectionCompleted` |
| **LDAP session** `LDAPAsynConnection.cpp`, `LDAPConnection.cpp` of the wrapper `3rd_party/openldap/contrib/ldapcpp/src` (vendored, modified) | session handle, bound or not | `modify_s` (with one retry), `hardReset`, `search`, `add`, `del` |
| **Directory entry** `corelib/CLdapEntry.cpp`, `corelib/CLdapAttribute.cpp` | cached `LDAPEntry`, attribute rows, classes, `m_isNew`, `m_isEdit`, children | `construct`, `loadAttributes`, `flushAttributesCache`, `setClasses`, `addAttributes`, `addChild`, `removeChild` |
| **Server requests** `corelib/cldapserver.cpp` | none | `add`, `update`, `del`, `addAttribute`, `updateAttributes`, `delAttribute`, `enableUser`, `disableUser` |
| **Attribute table** `editor/ldapattributesmodel.cpp`, `editor/attributemodelhelper.cpp`, `editor/ldapdataeditdelegate.cpp` | the entry shown and its rows | `setLdapEntry`, `setData`, `addAttribute`, `removeRows`, `changedRows`, `Save` and its three variants |
| **Tree** `editor/ldaptreemodel.cpp`, `editor/ldaptreeview.cpp` | current item, rows of loaded nodes | select, new, edit, delete, enable/disable, change password |
| **Main window** `editor/mainwindow.cpp`, `editor/ldaptableview.cpp` | Save and Revert enabled or not | `onTreeItemChanged`, `onSaveData`, `onRevertChanges`, `onReload`, `onReconnect`, `onQuit`, group membership |
| **Schema** `corelib/CLdapSchema.cpp` | object classes and attribute types | attributes of classes, consistent classes, structural class |
| **Validators** `corelib/CLdapSchemaValidator.cpp` | none | one predicate per LDAP syntax |
| **Dialogs** new entry, new attribute, search, add user to group, change password | form contents | filling and reading the form |
| **Settings cipher** `editor/simplecrypt.cpp`, `editor/ldapsettings.cpp` | one file per connection | store and read a connection, its two secrets encrypted |
| **Message queue** `LDAPMessageQueue.cpp`, `LDAPRequest.cpp`, `LDAP*Request.cpp`, `LDAPSearchResults.cpp` of the wrapper | the stack of requests of one call, the entries and references collected | `getNext`, `chaseReferral`, `isCycle`, `readMessageQueue` |
| **Wrapper entry** `LDAPEntry.cpp`, `LDAPAttributeList.cpp`, `LDAPAttribute.cpp`, `LDAPModification.cpp` of the wrapper | a list of attributes, each with text values or binary ones | read from a message, add, replace, delete, modifications |
| **LDAP URLs** `LDAPUrl.cpp` of the wrapper | the parts of one URL | parse, set a part, spell anew |

### How they interact

* Everything but `CLdapData::connect` runs on the GUI thread. Every server
  request is a blocking call there, so the user cannot act during one; other
  LDAP clients can, between any two.
* `connect` starts a task on the global thread pool. It shares
  `CLdapData::m_Connection`, the tree's entries and, by reference, the dialog's
  settings object with the GUI thread, without a lock. Its only message back is
  the queued signal `onConnectionCompleted`.
* The tree view, the attribute model and the main window talk through Qt's
  direct signals: `treeItemChanged` (leave one entry, ask, save, enter the
  next), `dataChanged` and `entityClassesChanged` (enable Save and Revert),
  `removeEntity` (unlink an entry), `onAddAttribute`/`onRemoveAttribute` (rows
  that come and go with an entry's classes).
* An entry keeps a copy of what it last read (`m_pEntry`) beside the editable
  rows (`m_attributes`); saving compares the two. Nothing locks the server's
  copy in between.
* Below all of this the modified wrapper reconnects and retries on
  `LDAP_SERVER_DOWN`, by a callback into `CLdapData::hardReconnect`. Each call
  of the wrapper keeps a message queue of its own, and gives back wrapper
  entries, of which an entry's rows are made.

### What is hard

* the cached entry is stale whenever another client writes, and one save of
  rows is several requests (*stale state, interleaving, partial failure*);
* tree and table each hold a current entry, and questions, refused saves and
  nested moves come between them (*protocol sequences*);
* a worker answers after its time-out, beside a second worker (*timeouts*);
* a request is sent again after a lost answer, over a session that may have
  come back incomplete (*retries, unreliable delivery*);
* a search's messages come in any order and from several servers, which may
  refer to each other in circles (*ordering, liveness*);
* several components hold raw pointers to entries that others unlink, free or
  reload, while a search that failed halfway leaves a node loaded (*stale
  state, partial failure*);
* a class, an account flag, a list of members is shown from a copy and changed
  on the server in two or more requests (*partial failure, interleaving*);
* names are compared with and without regard to case, values are text until one
  byte says otherwise, and each syntax has its own reading, checking, storing
  and showing (*numeric edges, long sequences of legal calls*).

The repository has no tests. `PROJECT.json` lists each hazard at its line with
the properties that would catch it going wrong.

### What makes each component correct

| component | correctness |
|---|---|
| attribute table | a save writes what the table shows and touches nothing the user left alone; no changes found means nothing to lose |
| editing an entry | a save never goes over another client's writes; it adds and deletes exactly what was shown |
| main window and tree | tree and table are on the same entry; unsaved work is nowhere else and can be saved or given up; the tree shows what the server holds |
| connection dialog | the form is never stuck; the window opens only on a live connection that belongs to the settings shown; what is stored, listed, shown and connected with agrees |
| session | success means executed; only modifications may be executed twice; requests go out bound and protected as configured; every call returns |
| message queue | a search that succeeds has lost nothing; every call returns; the configuration the editor uses never crashes |
| wrapper entry | the list of attributes behaves as a map, whatever the spelling and the order of calls |
| schema and class dialogs | an entry keeps its structural class; the form of a new entry has what its classes require |
| tree and its entries | the view was told of exactly the rows there are; nothing that was freed is followed |
| accounts and groups | a toggle does what the menu said and nothing else; members end as chosen; the tree tells the truth |
| validators, URLs, cipher, cells | a predicate is its grammar; what was read can be spelled, stored, shown and edited without being changed |

## 2. The models

Mutated definitions (named `...Forgotten`, `...Keeping`, `...Only` and so on,
or commented as mistaken) stand before the definition they change. They are not
part of any next-state relation: each shows which mistake a property catches.

### AttributeRows, AttributeEditing

*The attribute table of one existing entry and its request-by-request save.*

`dir` is what the server holds, `cache` is `m_pEntry`, `rows` is
`m_attributes`. `AttributeRows` has `changedRows` as three operators
(`NewRows`, `DeleteRows`, `UpdateNames`); its rows keep an identity (the value
they were loaded with, or a slot for an added row) so that an edited row is not
a new one. `AttributeEditing` has one action per edit and one per server
request of `SaveAttributes`: `SendAdd` (`addAttribute`), `SendDelete`
(`delAttribute`), `SearchForUpdate` and `SendReplace` (the search and the
modification of `updateAttributes`), `EndSave` (flush and refill). Each may be
refused. `OtherClient` writes between any two of them.

Bounds: two attributes, one of them read-only and required, two values, one
added row. Two values give single- and multi-valued attributes, changed,
emptied, deleted and repeated rows; a second attribute is what "untouched"
needs. Fairness: `WF(SaveStep)`, as a save is a loop on the GUI thread whose
requests are each answered by the server or by an error (`LdapSession` shows
that calls return). None on the user or the other client.

### EntryUpdate

*Editing the classes of an entry ("Edit entry") and saving it with the single
modification of `CLdapServer::update`.*

`EditEntry` is `CLdapTreeView::onEditEntry` with the rows it removes and adds,
`SetValue`, `AddAttribute`, `DeleteAttribute` are the table's edits, `GiveUp`
is Revert, or leaving with the answer No. A save is `BeginSave` (the search for the system
attributes inside `update`) and then `Accepted` or `Refused`; reading is `Read`
and `ReadStamp`, the two searches of `flushAttributesCache`. `Adds` and
`Deletes` are the modification list of `update`: a row without an equal in the
cached entry is added, an attribute without any row is deleted value by value.

The table also shows the server's operational attributes, and `update` compares
those with freshly read ones as well: an outdated modification time is sent
back as a value to add, which a server refuses. `stamp` stands for these rows.
This is why an editor without any locking never overwrites (`SavesWhatWasSeen`),
a fact nothing in the code mentions. It relies on a server that
gives every write a new value of some operational attribute (OpenLDAP's
`entryCSN` does; a time of one-second resolution alone would not within that
second). `paired` and `raced` say in which two windows the protection fails:
between the two searches of a read, and between the two requests of a save.

Bounds: an attribute every entry has (two values) and one that an auxiliary
class adds (one value), one auxiliary class. Attributes a class *requires* are
not edited: the row `onEditEntry` adds for one is read-only and stays empty, so that
the save is refused, which `Refused` includes.

### EntrySelection

*The main window: which entry the tree is on, which one the table shows, and
what becomes of unsaved work when they move.*

One action per command, with the user's answer (`yes`) and the save's outcome
(`ok`) as parameters, since questions are modal: `Select`
(`onTreeItemChanged`), `NewEntry`, `EditEntry`, `EditRows`, `EnableUser`,
`DeleteEntry` followed by `GoToParent`, `SaveData`, `Revert`, `Reload`, `Quit`.
`Moves` is `onTreeItemChanged` in full and is part of every command that moves
the tree. An entry's content is reduced to `dirty` (`changedRows` finds
something; `AttributeEditing` gives that its meaning). `crashed` marks commands
that use a null entry. `detached` remembers that the table was left on another
entry than the tree, which happens after a refused or reverted new entry.

Bounds: two existing entries, two new ones, created below existing entries
(which bounds the depth), so that a refused new entry can be joined by a second
one and neighbours exist on both sides. Deadlock is not checked: the program
ends on Quit and on a crash. Left out: a new entry given up for an item that
hangs from it (`SelectGivenUp` of `DirectoryTree` has it).

### ConnectionDialog

*The connection dialog and the workers it starts.*

`Connect` is `onConnectClicked` with `CLdapData::connect`; `Tick` is `onTimer`;
`OnConnectionCompleted` handles the oldest queued answer; workers go from
`connecting` to `building` (they replace `m_Connection`) to `done`, or fail. A
box runs its own event loop, so ticks and answers are handled while it is open.
Settings and connections are reduced to the attempt they belong to.

Bounds: three clicks (an overtaken attempt, its successor and one more), two
seconds. Fairness: `WF(Tick)` and `WF(OnConnectionCompleted)`, both delivered
by the event loop; nothing is assumed of a worker, as a server may never
answer. Deadlock is not checked: the dialog ends by being closed.

### StoredConnections, SettingsCipher

*The connections that are kept in files, the dialog's list of them and its form.*

`files` are the `.ini` files with their values, `items` and `current` the combo
box, `form` the controls, `recorded` the connection used last. `Start` is the
constructor (`Listed`, `LastItem`, `FirstForm`), after the program has ended in
any state; `ChooseConnection`, `EnterName`, `Type` are the user;
`OnConnectClicked` is the click with the whole of `saveSettings`: writing the
file (`Written`), adding the item, the change of the current item that loads the
form anew in its middle (`ListFile`), and the options read back from the file
(`ConnectionOptions`). `saved` and `touched` are history: the form when the file was
last written, and whether anything was typed since it was loaded or saved. When
a click can be made and answered is `ConnectionDialog`'s part and reduced to
`stage` here.

`SettingsCipher` is `SimpleCrypt` with each of its modes. A byte is a set of
bits, as exclusive-or is all the cipher does with one. What the Qt library
compresses, sums up and hashes is constant: `LibraryAssumption` says that
decompression undoes compression and how long check values are.

Bounds (`MCConnectionDialog`): one bit per byte; three texts (empty, short, and one
that gets shorter when it is compressed and is longer than the key), each random
byte; two connections of one name with different secrets, and one whose name is
the name of the first one's file, so that every branch of `ListFile` is taken. One behaviour of the instance is of this
module or of `ConnectionDialog`; each looks at nothing of the other but, through
`stage`, at whether a click is being answered. Left out: names that are no file names, and other programs
that write the files.

### LdapSession, RequestContract

*The session behind every request: retries, `hardReset`, reconnection.*

A call is `Begin`, `Send`, `Return`; what goes wrong is `SendFails`,
`AnswerLost`; `Retry` is `hardReset` with the `init` of `hardReconnect`,
`StartTls`, `Bind` and `ReconnectFails` the rest of it. `Reconnect` is the menu
command. The code decides by kind: a modification is sent and answered in one
library call, so it is retried when its *answer* is lost; a search and a
deletion are retried only when they could not be sent; an addition never.
libldap, the network and the server are external, modelled from how the
code uses them: a fresh handle connects on first use; a broken one reports
`LDAP_SERVER_DOWN` until it is replaced; the server deals with a copy it
received at any later time, or never.

`RequestContract` is the abstract specification: at most two copies of a
request are executed, each is answered once, success only after an execution.
Variables have the same names, so that the refinement is the implicit
substitution. It deliberately promises nothing about a request reported as
failed. `AttributeEditing` and `EntryUpdate` assume more than the contract, namely that a
refused request was not executed: after a lost answer that is false, and their
`Reselect`/`Read` with another client's write covers what the editor then sees.

Bounds: two requests, each of any of four kinds: one can be pending at the
server while the other is under way. Fairness: `WF(Client)`, as a call is
straight-line code; `WF(LinkBreaks \/ Deal)`: while a copy is with the server,
either it is dealt with or the connection is found broken
(`configureTimeouts` sets TCP keepalive, and there is no other time limit).

### MessageQueue, SearchPromise

*One call of the wrapper, from the request it sends to the answer its caller
reads.*

`stack` is `m_activeReq`; `entries` and `refs` are the lists of
`LDAPSearchResults`. One action per kind of message: `EntryArrives`,
`ReferenceArrives`, `ReferralArrives`, `ReferralDone` (the end of a request that
was sent after a referral) and `ResultArrives`; `NoAnswer` is a failed
`ldap_result`; `Read` is the caller's `getNext`. `Chases` and `Refuses` are
`chaseReferral` with the hop limit and `isCycle`. Four request classes never set
`m_requestType`, so for them `IsCycle` may come out either way.
`SearchPromise` is the abstract specification: a search asks places, collects,
and may only succeed when every entry of every asked place is in the list and
every reference was followed or is reported. Chasing is off in the editor, but
it is one constraint away; both settings are modelled.

Bounds: four servers: one holds an entry, refers to a second *or* a third, and
to itself; the second refers back; the third and the fourth do not hold the
name and refer to each other. So there are circles of references, of referrals
and of both, an alternative host, a request that replaces the one below it, and
(with a hop limit of 3) both ways for a chain to end. Scopes `one` and `sub`, of
which references make `base`. Fairness: `WF(Next)`: a call is straight-line
code, and each message it waits for comes or is given up; the wrapper has no
time limit of its own. Deadlock is not checked: a call ends.

### EntryContents, EntryPromise

*An entry in the wrapper: reading it from a message, changing it, and the
modifications made of it.*

`attrs` is the list of `LDAPEntry`; each attribute has `values` and `hexData`.
Reading is value by value (`NextAttribute`, `NextValue`, `EndAttribute`), as
the first binary value moves all others over. `EntryPromise` is the map from
names to values that the callers take the list for; `lost` are the names whose
values were given up for a binary one, of which the map shows none.

Bounds: two attributes, one of them in two spellings, one text and one binary
value, up to two values in an attribute the calls add to.

### SchemaClasses

*The object classes of an entry, with both dialogs that choose them.*

`schema` is `LDAPSchema::object_classes`, and it is a variable: a look-up of an
unknown name inserts a class without names whose kind is whatever the memory
held (`LooksUp`). `ChooseStructural`, `AddClasses`, `RemoveClasses`, `OkNew` are
the dialog for a new entry with the form it makes (`AttributeByClasses`),
`OpenEdit` and `OkEdit` the one for an existing entry (`DeductStructuralClass`,
`auxiliaryClasses`).

`Chain` (a class and its superiors) and `Only` of `Lists` (a loop that keeps some
elements) are recursive functions; `SchemasAssumption` and `FoundAssumption` say which
schemas and entries a server has.

Bounds (`MCSchemaClasses`): a small tree of structural classes, auxiliary ones
below two of its heights, one class in two spellings, one that no schema has;
schemas with and without the top class; entries whose classes come in several
orders.

### DirectoryTree

*The objects behind the tree, and the view that shows them.*

`node` is the heap of `CLdapEntry` objects, `live` those not deleted, `view`
the rows that were announced to Qt's proxy and view. `Subtree` is
what hangs from an object: the least set with it that is closed under children.
`Expand` is the loading of children, of which a failed search may return any part; `NewEntry`,
`DeleteEntry`, `RevertNew`, `SelectSaved`, `SelectRefused`, `SelectGivenUp` and
`Reload` move objects, the selection and the table's pointer. `ServerAdds` and
`ServerRemoves` are other clients. Objects removed from the tree are unlinked
but not freed, a leak the source notes ("Known issue: delete child"). It is
what keeps the pointers of the table valid: the mutant that frees them breaks
`UsesAreLive`.

The user is asked about a new entry only when the tree comes from an item. Given
up with the tree on the root, nothing is removed; when the item chosen hangs
from the one removed, the table gets its entry and the tree is left on none
(`current` is `None`): Qt moves the current item away from a removed row, but
drops one below it. `RevertOnRoot` asks a null parent and ends the program,
after which only other clients go on (`running`).

Bounds: a base, two entries below it and one below the first of these; five
objects, so that there are partial searches, rows before and after a removed
one, an entry read and one newly made side by side, new entries below new ones
that were refused, and a tree made once more in part by a reload.

### Accounts

*Users and groups: adding a user, the account flag, the password, the members.*

`stored` is the entry on the server, `seen` the cached copy, which decides menu,
icon and the number written back; `userAccountControl` is the set of its bits.
`CLdapServer::add` is four steps (`Add`, `ReadAdded`, `NameAccount`, `Read`),
`EnableUser` the toggle, `ChangePassword` the password dialog, and `OpenDialog`,
`MoveItems`, `AcceptMembers`, `CancelMembers` the group dialog over the table's
rows. Each request may fail; `OtherWrites` comes between any two.

Bounds: two users, one bit beside the flag, five lists of classes (each order
of `user`, another spelling, a container that is also a user, a group), up to
two names stored and two rows typed over or added. There are finitely many users
(`UsersAssumption`): the dialog lists them.

### Typing, Numerals, DnGrammar, DnValidator, LdapUrl, AttributeCells

*The texts that the program takes apart and puts together.* `MCTexts` composes
them; every word is typed and erased sign by sign by `Typing`, one form of text
per component and shape, and each property says what must hold of the word so far.

* `DnValidator` is `CheckDnString` and the five routines under it, each a walk
  over the bytes: `CheckDnString` hands on the terminating zero as the last
  character and `HexPair` tests one digit twice, as the code does.
  `DnGrammar` is the grammar of RFC 4512 and RFC 4514 that the comments quote,
  as predicates on words by decomposition, without any walk. The two share only
  the character classes. `Plain` names where they differ, clause by clause (§4).
  Both are recursive functions over places, so that a proof can follow a walk
  and a decomposition side by side (§5).
* `LdapUrl` is `parseURL` with its helpers, the setters and `components2Url`.
  A URL that was read keeps its text, and after any one setter what is spelled
  reads back with the same parts; `Spellable` lists what a URL of this form
  cannot carry. The walks over a text, `Decode` and `Split`, are passes of
  `Loop` (of `Lists`), which a proof can follow byte by byte.
* `AttributeCells` is one cell of the table by its kind: what it shows, what
  its editor is given and gives back, the check, what is stored. `IntMax` and
  `LongMax` stand for the limits of `int` and `long` and differ, so
  that a number the check takes and the editor cannot hold is among the words.
  `Numerals` has the numbers in texts, which `LdapUrl` reads its ports with.
  Their loops are functions (`Digits`, `Decimals`, `Spaced`, `Packed`), so that
  what is kept is proved for every text (§5).

Bounds (`MCTexts`): names of up to eight bytes (six typed after `a=`, enough for
two parts with an escape, a space or a sharp in one; five where an escape may
begin two digits, the first of them `f` too), dotted numbers of up to six before
`=` and values of up to five signs after `9.9=#`, one character of four bytes, byte ranges by their ends; URLs of
six signs from the scheme, five from the host, six from the first `/`, five of a
scheme without a port of its own; `IntMax` is 999, so that both default ports
are numbers and a port of four digits is none; cells of up to five characters, times of four parts.
Longer words repeat the walks' single step.

## 3. The runs

| run (distinct states) | shows |
|---|---|
| `attribute_editing` (389 916) | `UndisturbedSaveIsExact`: a save leaves every attribute that was fresh in the cache, is not repeated and met neither another client nor a refusal as shown, on server, in cache and in table, for every mixture of edits and whatever became of the other attributes: a refused request stops no other, and one that is sent is not dropped. `SaveWritesOnlyTouched`: whatever others do between its requests, a save writes no attribute the user left alone. `NoChangesMeansNothingToLose`: the test the prompts rely on. `TableTracksCache`: the bookkeeping that makes them true. `SaveReturns` |
| `entry_update` (188 455) | `SavesWhatWasSeen`, `DeletesOnlyWhatWasRead` (even when overtaken, only values once read are deleted), `OnlyReplacedValuesStay` (an undisturbed save gives the chosen classes and every value of the table, and beside them exactly the old values of those changed in place or deleted beside others) |
| `entry_selection` (50 117) | `AgreeUntilDetached`: tree and table on one entry and no work elsewhere; `TreeIsKnown`: no ghost in the tree; `EditsCanBeSaved`: Save and Revert are enabled although they are switched by signals |
| `directory_tree` (214 853) | `RowsAreAnnounced`: view and model agree on every row, after every failed read and refused save; `UsesAreLive`: no command follows a pointer to a freed entry, also after a reload, and when the item chosen goes with the one removed |
| `connection_dialog` (85 868, of which 8 360 are of `ConnectionDialog`) | `FormWaitsForTimer`: exactly one timer while the form is disabled; `PromptAnswersAgree`: as long as no answer is overtaken, connection, settings and last connection are of one successful attempt; `FormComesBack`. `StoredAsSaved`: what is read from a file, decrypted, is the form that was saved there; `ShownIsStored`: an untouched form shows what is stored of the current connection; `StoredIsListed`: a stored connection can be chosen again; `ConnectsAsShown`: a click connects with what was shown |
| `ldap_session` (45 216) | `KeepsContract` (refinement), `TwiceOnlyModify`, `ProperUnlessReconnectFailed`, `CallReturns`. Three requests (483 647 states up to symmetry) pass as well |
| `search_queue` (3 542) | `SearchIsComplete` (refinement of `SearchPromise`), `EntriesBeforeReferences`: who swallows the exception for a reference has every entry; `UnchasedIsSafe`: the crash in §4 needs referral chasing; `CallReturns`, with servers that refer in circles |
| `entry_contents` (51 839) | `OneOfEachName`, `IsMap` (refinement of `EntryPromise`) |
| `schema_classes` (2 843) | `StructuralClassKept`: however often an entry's classes are edited; `ListsFit`: no class is offered twice or kept from another choice; `FormIsSufficient`: the form of a new entry |
| `accounts` (106 679) | `ToggleIsExact`: a toggle does what the menu said, and the other bits end as the editor read them, so that what another client wrote to them since is lost (and nothing is lost else); `TreeTellsTheTruth`: icon and account name, and that a user whose second request was refused keeps the name the server chose; `MembersAsChosen`: the members are those chosen, and of the rows with a name given up the first ones go, whatever their attribute |
| `texts` (819 790) | `NamesAgree`: the walks accept exactly the grammar, in types, values of several bytes and whole names, but for the exceptions of `Plain`: escaped pairs of digits that the test of the first one refuses or that are none (`PairsRead`), such pairs and missing ones behind `=#` (`HexRead`), a value ending in a bare space (`SpacesRead`), an empty value before another part (`ValuesRead`), F4 90-BF (`WideF4`). `UrlsSurvive`: a URL that was read can be spelled anew. `CellsUntouched`: opening an editor and leaving it keeps the value; `CellsTyped`: what is typed is refused, or stored, valid and shown |
| `late_answer` | ends in a violation: §4 |

Every property has a mutant in `PROJECT.json`, a plausible mistake in the code
it is about that makes TLC find it violated.

## 4. Where code and documentation disagree

`late_answer` ends in a violation; TLC's trace is the scenario: a late success
is accepted after a second click has reset the connection, while `CLdapData.h:132`
says "boolean argument is connection successful".

The models show more of the kind, which their properties describe or step around
by a named condition:

* giving up a new entry after a refused save removes another entry from the tree
  (`mainwindow.cpp:274`; `mainwindow.h:68` "Will be sent when need to delete
  entity from tree model"): `Moves`, `detached`;
* Save, or Reload, after a reverted new entry reads a null entry
  (`ldaptableview.cpp:172`): `crashed`;
* `update` never replaces: a changed value is added to the old one, and one
  deleted of several stays (`cldapserver.cpp:142`; `cldapserver.h:35` "To update
  entry with filled attributes on ldap server"): `Adds`, `Deletes`, and
  `OnlyReplacedValuesStay` says which values those are;
* after a failed `hardReconnect` the next request goes out unbound and
  unprotected (`CLdapData.cpp:188`; `CLdapData.h:150` "Using to reconnect to
  server, when before has broken TCP connection"): `ReconnectFails`;
* the walk over a name takes the terminating zero for its last character, so a
  name ending in a bare space is accepted (`CLdapSchemaValidator.cpp:814`); `\a`
  at the end is accepted, `\9f` refused and `\az` accepted (`isxdigit(*p + 1)`),
  and a numeric type with a hexadecimal value is refused at the end of a name
  though not before a comma, where `9.9=#,a=` is accepted without any digit, and
  the second digit of a pair may be anything, the comma too: `CheckDnString`,
  `HexPair`, `HexEnd`; an empty value is accepted at the end of a name alone:
  `Begins`;
* with chasing on, a referral that is followed and then answered empties the
  stack, and `LDAPSearchResults.cpp:28` dereferences the missing message; an
  error of one followed request ends the whole search;
* `isCharBinary` is given a signed char (`LDAPAttribute.cpp:98`): a value with a
  byte from 0x80 on makes its attribute binary, and none of its values is shown;
* the group dialog removes the first row whose value is the member's name, of
  whichever attribute (`ldaptableview.cpp:225`): `MembersAsChosen` says which
  rows go;
* a toggle writes the bits that were read, over those of other clients
  (`cldapserver.cpp:344`): `ToggleIsExact`;
* an added user whose name could not be set keeps another one, and nobody is
  told (`cldapserver.cpp:60`): `TreeTellsTheTruth`;
* a look-up of an unknown class inserts one whose kind is uninitialised; an
  attribute that an earlier class allows and a later one requires is missing
  from the form of a new entry; a class in another spelling is not taken for
  auxiliary;
* opening and leaving the editor of a time rewrites it: an offset is dropped,
  a value without fraction becomes 2000-01-01, and one of unknown form becomes
  empty; an integer beyond `int` is shown as 0, but kept unless edited;
  lower-case hexadecimals cannot be committed, spaced ones are refused; every
  bit string is refused; the checks of times accept any text;
* a second `setURLString` appends to the parts of the first, any colon after the
  host is taken for the port's, even one of the name (`ldapi://h/a:b` is read
  with the host `h/a` and the name `a:b`, which `Spellable` excludes), a `%` without two digits swallows what follows
  or throws; none of the editor's own URLs has these.

Settled by reading alone: `SaveAttributes` returns true after a refused request
(`ldapattributesmodel.h:203` says false); classes are loaded once, so that
reading an entry again keeps the old ones; `onQuit` closes the window without
saving (`mainwindow.h` says it saves); a connection is stored before it
succeeded (the feature list says "previous successful connections"), overwrites
one of the same name, and adds a second item to the list, since
`findText` looks for the file's name (`StoredIsListed` names when it adds none);
toggling a user reads the entry anew under
the table, so that unsaved edits are lost without a question; a circle of
superiors in a schema would never end.

## 5. The proofs

The `...Proofs` modules extend the model they are about; nothing is assumed but
the named assumptions on the constants.

| module | theorem | says | rests on |
|---|---|---|---|
| `TableAndTextProofs` | `TypeCorrect`, `TableAlwaysTracksCache` | the table is well formed and tracks the cache | `TableInv`, inductive |
| | `SaveNeverWritesOthersAttributes` | the action property `SaveWritesOnlyTouched` | the same: every outstanding request is in `touched` |
| | `NothingToSendNothingToLose` | an empty `changedRows` means the table shows the cache | unmodified rows are cached rows |
| | `UndisturbedSavesAreExact` | `UndisturbedSaveIsExact`, for any mixture of edits, any order of the requests and any refusals | `SaveInv`: between two requests of a save the server holds `Progress(n)` of each undisturbed attribute, which depends only on the cache, the table and what is still to be sent |
| | `EveryCellUntouched`, `EveryCellTyped` | `CellsUntouched`, `CellsTyped`, for every text, old value and type of cell | `TypedInv` (what is typed are signs); `DigitsRead`: a number is what its digits amount to; `PackedOfSpaced`: the blanks between pairs are all that is added and dropped; `MadeIsRead`: the text an editor of times gives is shown as the same moment |
| | `SpelledIsRead`, `EveryUrlSurvives` | `UrlsSurvive`, for every word of bytes; and every URL object that `Spellable` admits, however it came about, is read from its spelling | `EncodeReads`: decoding, as a loop of passes, undoes encoding byte by byte; a list is split at the commas that joined it, and the parts at their question marks, as encoding leaves none of its own; the colon, the bracket and the slash that end host and port are the first of their kind; what `Parse` returns is typed |
| | `EveryNameAgrees`, `PlainNamesAreChecked` | `NamesAgree`, for names of every length, with any number of parts, values and escapes | each walk is what its passes say (`StringEndPass`, `RdnEndPass`, `DnFromPass`); an item is never covered by an escape, so that one pass takes one item (`PassTakesItem`); from the end of the text to its front, the walk over a value, a part, a name ends at a stop exactly when what lies before the stop is one (`StringEndReadsItems`, `PartsAgree`, `RdnsAgree`) |
| | `TypesAreChecked` | attribute types, of any text and with no exception | `KeyStringsAgree`, `NumericOidsAgree` |
| `EntryEditProofs` | `TypeCorrect`, `SavedAsSeen` | an accepted save was made on the very entry the user saw | `StampWasRead`, `StampTells`, `SaveTells`: rows with the current time show the current entry |
| | `NothingUnreadIsDeleted` | `DeletesOnlyWhatWasRead`, raced or not | `Deletes(n)` is part of the cached values |
| | `OnlyReplacedValuesEverStay` | `OnlyReplacedValuesStay`, for any edits | the invariant of `SavedAsSeen`, and what `update` makes of one attribute (`UpdatedAsShown`) |
| | `StructuralClassAlwaysKept`, `ListsAlwaysFit`, `FormAlwaysSufficient` | the invariants of `schema_classes`, for every schema and every entry the rules for classes allow | `ClassesInv`: the schema is one that was published plus nameless classes, the entry has its structural class with all superiors and no other class that stands as high and may be structural, the lists hold auxiliary classes of the right chain |
| `EntrySelectionProofs` | `TypeCorrect`, `TreeAndTableAgree`, `NoGhostInTree`, `SaveNeverOutOfReach` | the safety properties of the run | their conjunction with `Anatomy` (how new, edited and displayed entries relate) is inductive; one lemma per command on top of `MoveKeeps` |
| `ConnectionProofs` | `DialogTypeCorrect`, `FormNeverStuck`, `PromptIsConsistent` | the first two properties of `connection_dialog`, for any timeout | `Timing` (timers, seconds and the form) and `Prompt` (at most one worker or answer until one is overtaken) |
| | `SessionTypeCorrect`, `OnlyModificationsRepeat`, `IdentityKept` | the invariants of `ldap_session` | `NotBegun`, `CurrentCopies`, `SentOnce`, `AnswerIsTrue`, `Identity`: what copies exist of past, present and future requests |
| | `ContractKept` | `Spec => Contract!Spec` | the same; each step is `Execute`, `Reply` or a stutter |
| | `StoredStaysAsSaved`, `FormStaysAsStored`, `StoredStaysListed`, `EveryClickConnectsAsShown` | those of the run's properties that are about settings, for any texts, key, random bytes, modes and library | `DecryptUndoesEncrypt`: the chain of bytes is undone byte by byte, the header is as long as its flags say; `StoredInvariant`: every file holds what was saved, every item's file is there and its text is a name or the file, the form is one that may be saved or that of no connection |
| `EntryContentsProofs` | `TypeCorrect`, `NamesAreUnique` | `OneOfEachName` | lemmas on what `AddAttribute`, `DelAttribute`, `ReplaceAttribute` do to a list with one of each name |
| | `ContentsAreMap` | `Spec => Promise!Spec` | the same and what an attribute under way has read so far: every value once, all in one of its two places |
| `MessageQueueProofs` | `TypeCorrect`, `EntriesComeFirst`, `UnchasedNeverCrashes` | the safety properties of the run | `StackOK`: the request at depth *i* was referred at least *i* - 1 times, and what is left to it is of its place |
| | `SearchesAreComplete` | `Spec => Promise!Spec`, for any servers that refer to each other in any way | `NothingLost`: every entry or reference of an asked place has arrived, was followed, or is left to a request of the stack. A request that was not referred succeeds only at the bottom, so nothing is left then |
| `TreeViewProofs` | `RowsAlwaysAnnounced`, `UsesAlwaysLive` | the invariants of `directory_tree`, for every tree of names | `TreeInv`: the heap is a forest whose objects come after their parents, each in one row of its parent or unlinked (`HeapOK`); the view was told of the children of all that is shown; what can be reached from the top, and what the table points to, was not deleted; the tree is on one of the shown or on none |
| | `ToggleDoesAsTold`, `TreeIsTruthful` | `ToggleIsExact`, `TreeTellsTheTruth` of `accounts` | `AccountsInv`: the copies are typed, the open menu is of the copy the toggle will use (`MenuIsFresh`), in calm that copy is the entry unless a read is due (`SeenIsStored`), a user added here is named (`AddedIsNamed`) or, once refused, keeps the server's name (`RefusedIsUnnamed`), the rows are rows |
| | `MembersAlwaysAsChosen` | the action property `MembersAsChosen`, for any table and any choice | `Fine`, the invariant of the loop that removes members (`RemovedRows`): after *n* of them each name given up has lost as many of its rows as it is among these, the first ones, and rows with other names are as they were |
| `ListLemmas` | lemmas alone | what `Only`, appending loops and lists made of sets hold | inductions stated as sets of numbers or of lists |

Three arguments show why an inductive invariant is needed. That a search which
succeeds has everything says nothing of a stack in the middle of a call:
`NothingLost` does, and it needs `StackOK`, without which a result could be that
of a request in the middle of the stack. That a save ends exactly says nothing
of its middle: `Progress` does, and only because replacements are sent after
every addition and deletion (`SaveBegan`). And that no command follows a freed
pointer is not preserved on its own: a deletion frees or unlinks an object with
all that hangs from it, so that `TreeInv` must say that nothing else is reached
through it, which is that the heap is a forest.

The chain of a class's superiors is a recursive function, and no induction over
it is at hand: `ByTheSuperior` is the induction that the assumption on schemas
gives (a set of names with whatever name has its superior in it is all of them),
and what a chain holds is derived from it. Lists are treated in the same way by
`ListLemmas`: a set of lists with the empty one and, with a list, every list one
longer is all of them (`ByAppending`), a set of numbers likewise (`OneByOne`),
and a recursive function is shown to be one the rules define (`LoopRuns`). The
removal of members rests on both. Its loop looks for a name among all rows, and
may hit a row of another attribute; that each pass takes the first row of its
name and no other is `WithoutFirstOf`, and that this adds up to the first *k* of
a name that is *k* times a member is `AfterOneMore`.

A function that looks ahead, as the walks over a name do, is made from the end
of the text: `FromTheEnd` is the induction, `RunsFromTheEnd` shows that there is
such a function, `WalksEnd` and `SearchesEnd` that it is the one a definition
chooses. Code and grammar cut a name at different places: the code at the first
comma or plus sign it walks into, the grammar at any that leaves two pieces of
the right kind. They meet because a piece that is an item holds no bare
separator and ends where no escape is left open (`ItemLeavesUncovered`).

Assumptions, each evaluated by TLC in a run: `ValuesAssumption`,
`NamesAssumption` (an empty or missing value is not a value; required attributes
are read-only when loaded, as `loadAttributes` makes them; there are finitely
many class names), `SchemaAssumption`, `EntriesAssumption`, `BoundsAssumption`
(any number of clicks, a positive timeout), `RequestsAssumption`,
`ClassesAssumption`, `UsersAssumption`, `BitsAssumption`, `WorldAssumption` (a
server that holds a name does not refer elsewhere for it), `TreeAssumption`
(finitely many names, each but the base with one above), `KeyAssumption`,
`ModesAssumption`, `LibraryAssumption`, `RandomsAssumption` (eight bytes of key, the
modes there are, what the Qt library undoes), `FilesAssumption` (the name of a
file is not that of the empty item), `DraftsAssumption` (what the hidden controls
hold cannot be changed). `SchemasAssumption` and `FoundAssumption` are
the rules of RFC 4512 for classes: a class is published under all its names,
superiors form no circle, those of a structural class are not auxiliary, and an
entry has one structural class with all its superiors. They are the server's
part: the code checks none of them, and without them the three theorems are
false. `WidthsAssumption` says that the limits are numbers, `FormsAssumption` that
texts consist of numbers, `UrlsAssumption` that those of URLs consist of bytes,
`IntAssumption` and `PortsAssumption` that the default ports can be read.

Only model-checked: the liveness properties (`SaveReturns`, `FormComesBack`,
`CallReturns` of both modules), which depend on fairness.

## 6. What is left out

* wording, layout, icons but those of accounts, column widths, logging;
* the schema's text parser and the table from syntaxes to kinds of cells: their
  result is a constant of the models;
* the dialogs for a new attribute and for searching, which only collect a form.
  The search dialog starts `CLdapData::search`, which gives back what it found
  until an error came and does not say that there was one;
* the checks of UTF-8 texts and of search guides;
* controls, extended results, SASL, LDIF and TLS options of the wrapper, which
  the editor never uses or hands through; `m_requestType` apart, uninitialised data
  that the library leaves to its caller (`LDAPRequest::getNextMessage` tests
  `msg` after a failed `ldap_result`);
* OpenLDAP's C library, the network and the servers: external, as they are used.

## 7. Plan

Each module has its instance, its mutants and, where it pays, proofs.

1. done: `AttributeRows`, `AttributeEditing`, `EntrySelection`,
   `ConnectionDialog`, `LdapSession` over `RequestContract`, `EntryUpdate`,
   `DnValidator` over `DnGrammar`;
2. done: `Accounts`, with the groups' members;
3. done: `MessageQueue` over `SearchPromise`, `EntryContents` over
   `EntryPromise`;
4. done: `DirectoryTree`;
5. done: `SchemaClasses`;
6. done: `LdapUrl`, `SettingsCipher`, `AttributeCells`;
7. done: proofs of `Accounts`, `MessageQueue` and `EntryContents`;
8. done: proofs of `DirectoryTree` and `SchemaClasses`, of the undisturbed save
   and of what `update` adds and deletes;
9. done: proofs of `MembersAsChosen`; `StoredConnections`, with its proofs;
10. done: proofs of what `AttributeCells` keeps;
11. done: `LdapUrl` without recursive operators, with its proofs;
12. done: the same for `DnValidator`;
13. left: an abstract specification of an editor session (what is saved,
   what is lost) that `AttributeEditing` and `EntryUpdate` both implement.
