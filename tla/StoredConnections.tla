-------------------------- MODULE StoredConnections --------------------------
(***************************************************************************)
(* The connections that the connection dialog keeps in files, its list of  *)
(* them and its form (CConnectionDialog over CLdapSettings).               *)
(*                                                                         *)
(* A file has a value for each key; those of the user name and of the      *)
(* password are encrypted.  A click on Connect stores the form and         *)
(* connects with what it reads back.  Saving a connection that is not in   *)
(* the list adds an item and makes it the current one, and a change of the *)
(* current item loads the form from its file, in the middle of the save.   *)
(* Who answers a click and when is in ConnectionDialog.  The files are     *)
(* written at once: QSettings replaces a file by a whole one.              *)
(***************************************************************************)
EXTENDS SettingsCipher

CONSTANTS
    Files,    \* names of files in the directory of the settings
    Names,    \* names that may be given to a connection
    FileOf,   \* FileOf[n]: the name of a connection with ".ini" after it
    Drafts,   \* forms as the user may leave them when he has typed
    Randoms   \* bound: what qrand gives for the secrets of one form

New == ""     \* data of an item without a file
NewItem == [text |-> "--New Connection--", file |-> New]

Secrets == {"username", "password"}
Flags == {"simpleAuth", "useSSL", "useTLS", "useSASL", "useAnonymous"}
Keys == {"name", "host", "port", "version", "baseDN"} \union Flags \union Secrets

\* Controls that the dialog's constructor hides.
Hidden == {"version", "simpleAuth", "useSSL", "useSASL"}

\* What a key without a value is read as.
Default(key) ==
    CASE key = "host" -> "localhost"
      [] key = "port" -> 389
      [] key = "version" -> 3
      [] key \in Flags -> key = "simpleAuth"
      [] key \in Secrets -> NoCypher
      [] key \in {"name", "baseDN"} -> ""

ASSUME FilesAssumption ==
    /\ New \notin Files /\ NewItem.text \notin Files
    /\ FileOf \in [Names -> Files]

ASSUME DraftsAssumption ==
    \A d \in Drafts :
        /\ d = [key \in Keys |-> d[key]]
        /\ d["name"] \in Names
        /\ \A key \in Secrets : d[key] \in Texts
        /\ \A key \in Hidden : d[key] = Default(key)

ASSUME RandomsAssumption == \A r \in Randoms : \A key \in Secrets : r[key] \in Byte

VARIABLES
    files,     \* the files there are, with their values
    items,     \* the combo box: [text, file], the file being the item's data
    current,   \* its current item
    form,      \* what the form shows; the text of the combo box is the name
    stage,     \* "form", "connecting" (the form is disabled) or "connected"
    lastFile,  \* m_lastConnectionFile
    recorded,  \* last_connection of the session file
    asked,     \* what CLdapData::connect was called with, Nothing before
    saved,     \* history: the form when the file was last written
    touched    \* history: typed in since the form was loaded or saved

storedVars == <<files, items, current, form, stage, lastFile, recorded, asked, saved, touched>>

Nothing == [key \in {} |-> 0]

------------------------------------------------------------------------------
(* CLdapSettings. *)

\* readString, readInt, readBool; username and password.
ReadKey(file, key) ==
    LET value == IF key \in DOMAIN file THEN file[key] ELSE Default(key)
    IN  IF key \in Secrets THEN Decrypt(value) ELSE value

\* What the form is loaded from, and what connectionOptions gives.
Shown(file) == [key \in Keys |-> ReadKey(file, key)]

\* QSettings of a file that is not there has no values.
Contents(fs, f) == IF f \in DOMAIN fs THEN fs[f] ELSE Nothing

\* Mutant: the settings that the dialog had before the save.
OptionsBefore(fs, f) == Shown(Contents(files, current.file))

ConnectionOptions(fs, f) == Shown(fs[f])

\* setName .. setUseAnonymous, each secret with a random byte of its own.
Written(d, random) ==
    [key \in Keys |-> IF key \in Secrets THEN Encrypt(d[key], random[key]) ELSE d[key]]

------------------------------------------------------------------------------
(* The constructor: the list, the connection used last, and its form.       *)

Listed(fs) ==
    {NewItem} \union {[text |-> ReadKey(fs[f], "name"), file |-> f] : f \in DOMAIN fs}

\* The item of the last connection, if there is one.
LastItem(fs, last) ==
    IF last \in DOMAIN fs
    THEN [text |-> ReadKey(fs[last], "name"), file |-> last] ELSE NewItem

FirstForm(fs, last) ==
    [Shown(Contents(fs, LastItem(fs, last).file)) EXCEPT !["simpleAuth"] = TRUE]

StoredInit ==
    /\ files = Nothing /\ saved = Nothing /\ recorded = New
    /\ items = Listed(files) /\ current = LastItem(files, recorded)
    /\ form = FirstForm(files, recorded)
    /\ stage = "form" /\ lastFile = recorded
    /\ asked = Nothing /\ touched = FALSE

\* The program has ended, by itself or not, and is started again.
Start ==
    /\ items' = Listed(files) /\ current' = LastItem(files, recorded)
    /\ form' = FirstForm(files, recorded)
    /\ stage' = "form" /\ lastFile' = recorded
    /\ asked' = Nothing /\ touched' = FALSE
    /\ UNCHANGED <<files, saved, recorded>>

------------------------------------------------------------------------------
(* The form. *)

\* Mutant: the form stays as it is.
ItemOnly(it) == current' = it /\ touched' = FALSE /\ form' = form

\* setCurrentIndex, and onConnectionChanged for the index that has changed.
MakeCurrent(it) ==
    /\ current' = it
    /\ form' = Shown(Contents(files, it.file))
    /\ touched' = FALSE

ChooseConnection(it) ==
    /\ stage = "form" /\ it \in items \ {current}
    /\ MakeCurrent(it)
    /\ UNCHANGED <<files, items, stage, lastFile, recorded, asked, saved>>

\* The combo box inserts a text on Return if no item has it: an item without
\* data, which is a new connection.
EnterName ==
    LET item == [text |-> form["name"], file |-> New]
    IN  /\ stage = "form" /\ form["name"] # ""
        /\ \A it \in items : it.text # item.text
        /\ items' = items \union {item}
        /\ MakeCurrent(item)
        /\ UNCHANGED <<files, stage, lastFile, recorded, asked, saved>>

Type(d) ==
    /\ stage = "form" /\ d # form
    /\ form' = d /\ touched' = TRUE
    /\ UNCHANGED <<files, items, current, stage, lastFile, recorded, asked, saved>>

------------------------------------------------------------------------------
(* Connecting. *)

\* enableConnection.
Ready(d) == d["name"] # "" /\ d["host"] # "" /\ d["baseDN"] # ""

FileName == IF current.file = New THEN FileOf[form["name"]] ELSE current.file

\* Mutant: the item is added without its data.
TextOnly(f) == [text |-> f, file |-> New]

AddedItem(f) == [text |-> f, file |-> f]

\* The end of saveSettings.  findText looks for an item whose text is the
\* name of the file: items read from the directory show their names instead.
ListFile(f) ==
    IF \E it \in items : it.text = f
    THEN UNCHANGED <<items, current, form>>
    ELSE /\ items' = items \union {AddedItem(f)}
         /\ current' = AddedItem(f)
         /\ form' = Shown(Contents(files', current'.file))

OnConnectClicked(random) ==
    LET f == FileName
        fs == [g \in DOMAIN files \union {f} |->
                  IF g = f THEN Written(form, random) ELSE files[g]]
    IN  /\ stage = "form" /\ Ready(form)
        /\ files' = fs
        /\ saved' = [g \in DOMAIN files \union {f} |-> IF g = f THEN form ELSE saved[g]]
        /\ ListFile(f)
        /\ lastFile' = f
        /\ asked' = ConnectionOptions(fs, f)
        /\ stage' = "connecting" /\ touched' = FALSE
        /\ UNCHANGED recorded

\* The time is up, or an attempt has failed.
GiveUp ==
    /\ stage = "connecting" /\ stage' = "form"
    /\ UNCHANGED <<files, items, current, form, lastFile, recorded, asked, saved, touched>>

\* An attempt has succeeded, perhaps after its time was up.
Succeed ==
    /\ asked # Nothing /\ stage # "connected" /\ stage' = "connected"
    /\ recorded' = lastFile
    /\ UNCHANGED <<files, items, current, form, lastFile, asked, saved, touched>>

StoredNext ==
    \/ \E it \in items : ChooseConnection(it)
    \/ \E d \in Drafts : Type(d)
    \/ \E random \in Randoms : OnConnectClicked(random)
    \/ EnterName \/ GiveUp \/ Succeed \/ Start

StoredSpec == StoredInit /\ [][StoredNext]_storedVars

------------------------------------------------------------------------------
(* Properties. *)

(***************************************************************************)
(* What is read from a file, its secrets included, is what the form showed *)
(* when the file was last written: whatever the random bytes were, whatever*)
(* was written before or elsewhere and however often the program was       *)
(* started since (CLdapSettings, SimpleCrypt).                             *)
(***************************************************************************)
StoredAsSaved == \A f \in DOMAIN files : Shown(files[f]) = saved[f]

(***************************************************************************)
(* A form in which nothing was typed shows the connection that is current  *)
(* as it is stored, also after a save that has changed the current item in *)
(* its middle, so that the next click does not give one connection the     *)
(* password of another one (saveSettings, onConnectionChanged).            *)
(***************************************************************************)
ShownIsStored ==
    ~touched /\ current.file # New =>
        current.file \in DOMAIN files /\ form = Shown(files[current.file])

(***************************************************************************)
(* A click connects with what the form showed at the time, though the      *)
(* settings object was replaced and the form loaded anew before the options*)
(* are taken from it (onConnectClicked).                                   *)
(***************************************************************************)
ConnectsAsShown ==
    [][\A random \in Randoms : OnConnectClicked(random) => asked' = form]_storedVars

(***************************************************************************)
(* A stored connection can be chosen again, unless an item shows a name    *)
(* that is the name of its file: saveSettings then takes that item for the *)
(* file's own and adds none.                                               *)
(***************************************************************************)
StoredIsListed ==
    \A f \in DOMAIN files : \E it \in items :
        it.file = f \/ (it.text = f /\ f \in Names)
==============================================================================
