---------------------------- MODULE AttributeCells ----------------------------
(***************************************************************************)
(* One cell of the attribute table: how the value of a row is shown, what  *)
(* its editor makes of it, what may be typed there, and what of that comes *)
(* into the row (CAttributeModelHelper, CLdapAttributesModel::setData,     *)
(* CLdapDataEditDelegate, CLdapAttribute and the Check... functions).      *)
(*                                                                         *)
(* A value is a word of bytes; that of a time is a word of parts: the day  *)
(* and minute, the seconds, a fraction and a zone.                         *)
(***************************************************************************)
EXTENDS Typing, Numerals, Lists, FiniteSets, FiniteSetsExt, SequencesExt

CONSTANTS
    LongMax,    \* stands for 2^63 - 1
    CellTypes   \* the forms that are types of cells

ASSUME WidthsAssumption == LongMax \in Nat /\ IntMax < LongMax

States == {"ReadOnly", "ReadWrite", "ValueReadWrite"}

\* CLdapAttribute::CLdapAttribute: a row added by the user counts as modified.
NewRow(type, value, state, isMust) ==
    [type |-> type, value |-> value, editState |-> state, isMust |-> isMust,
     isIgnore |-> FALSE, modified |-> state = "ReadWrite"]

BLANK == 32
CAPITAL == 65..90
SMALL == 97..122

Trim(w) ==
    LET solid == {i \in DOMAIN w : w[i] # BLANK}
    IN  IF solid = {} THEN <<>> ELSE SubSeq(w, Min(solid), Max(solid))

------------------------------------------------------------------------------
(* What the editors show of numbers and flags.                              *)

ToInt(w) == IF Within(w, IntMax) THEN ValueOf(w) ELSE 0

TRUETEXT == <<84>>
FALSETEXT == <<70>>
Flag(b) == IF b THEN TRUETEXT ELSE FALSETEXT
\* "T", "F", "f" and "0" stand for the texts TRUE, FALSE, false and 0.
IsFlagSet(w) == Trim(w) \notin {<<>>, <<48>>, FALSETEXT, <<102>>}

------------------------------------------------------------------------------
(* Times.  A fraction of n digits of which the first k count, the others     *)
(* being zeros, is the number 200 + 10 * n + k.                              *)

DAY == 101       \* yyyyMMddHHmm of some minute
NODAY == 102     \* twelve digits that are no minute
NOW == 103       \* the minute of the clock
MILLENNIUM == 104  \* 200001010000, what an editor without a time shows
SECONDS == 105
ZEROS == 106     \* the seconds 00
ZULU == 107
WEST == 108      \* +hhmm
EAST == 109      \* -hhmm
OTHERPART == 110

Days == {DAY, NODAY, NOW, MILLENNIUM}
Fraction(n, k) == 200 + 10 * n + k
Length(f) == (f - 200) \div 10
Fractions == {f \in 210..269 : f % 10 <= Length(f)}

\* Mutant: the fraction is not cut to milliseconds.
KeptWhole(f) == f % 10

Kept(f) == IF f % 10 > 3 THEN 3 ELSE f % 10

Wall(day, sec, ms) == [day |-> day, sec |-> sec, ms |-> ms]
NoTime == Wall(MILLENNIUM, ZEROS, 0)

\* The parts of a text, if it has them in this order.
Dated(w) == w # <<>> /\ w[1] \in Days
Timed(w) == Dated(w) /\ Len(w) > 1 /\ w[2] \in {SECONDS, ZEROS}
FractionOf(w) == LET places == {i \in DOMAIN w : w[i] \in Fractions}
                 IN  IF places = {} THEN 0 ELSE w[Min(places)]
SecondsOf(w) == IF Timed(w) THEN w[2] ELSE ZEROS

IsZoned(w, zone, lengths) ==
    Timed(w) /\ Len(w) = 4 /\ w[3] \in Fractions /\ Length(w[3]) \in lengths /\ w[4] = zone
IsUtc(w) == \/ Timed(w) /\ Len(w) = 3 /\ w[3] = ZULU
            \/ IsZoned(w, ZULU, 1..6)
IsLocal(w) ==
    LET rest == SubSeq(w, IF Timed(w) THEN 3 ELSE 2, Len(w))
    IN  Dated(w) /\ (rest = <<>> \/ (Len(rest) = 1 /\ rest[1] \in Fractions))

Format(w) ==
    CASE w = <<>> -> "Utc"
      [] IsZoned(w, WEST, {3, 6}) -> "West"
      [] IsZoned(w, EAST, {3, 6}) -> "East"
      [] IsUtc(w) -> "Utc"
      [] IsLocal(w) -> "Local"
      [] OTHER -> "Unknown"

\* A missing fraction becomes four zeros without a dot, and what is left of
\* the fraction of a local time is not cut to three digits: neither is a time.
Readable(w) ==
    /\ Format(w) # "Unknown"
    /\ w # <<>> =>
         /\ w[1] # NODAY
         /\ FractionOf(w) # 0
         /\ Format(w) = "Local" => Length(FractionOf(w)) <= 3

\* formatDataTimeFromString, and the editor that takes no invalid time.
Parsed(w) ==
    CASE w = <<>> -> [format |-> "Utc", dateTime |-> Wall(NOW, SECONDS, 3)]
      [] Readable(w) /\ w # <<>> ->
            [format |-> Format(w),
             dateTime |-> Wall(w[1], SecondsOf(w), Kept(FractionOf(w)))]
      [] OTHER -> [format |-> Format(w), dateTime |-> NoTime]

\* makeDateTimeValue.  After setTimeSpec the offset is gone.
MakeDateTime(format, t) ==
    LET digits == <<t.day, t.sec, Fraction(3, t.ms)>>
    IN  CASE format = "Utc" -> Append(digits, ZULU)
          [] format \in {"West", "East", "Local"} -> digits
          [] OTHER -> <<>>

------------------------------------------------------------------------------
(* CAttributeModelHelper.                                                    *)

\* Two characters and a blank; the partner of the last of an odd number is 0.
Spaced(w) ==
    LET pairs == (Len(w) + 1) \div 2
        at(i) == 2 * (i \div 3) + (i % 3)
    IN  [i \in 1 .. 3 * pairs - 1 |->
            IF i % 3 = 0 THEN BLANK ELSE IF at(i) <= Len(w) THEN w[at(i)] ELSE 0]

Packed(w) == Only(w, Nat \ {BLANK})

DisplayRole(row) == IF row.type = "Binary" THEN Spaced(row.value) ELSE row.value

EditRole(row) ==
    CASE row.type = "Boolean" -> IsFlagSet(DisplayRole(row))
      [] row.type = "Integer" -> ToInt(Trim(DisplayRole(row)))
      [] OTHER -> Trim(DisplayRole(row))

\* Mutant: the number is stored without its sign.
StoredUnsigned(type, content) ==
    CASE type = "Boolean" -> Flag(content)
      [] type = "Integer" -> Unsigned(Numeral(content))
      [] type = "Binary" -> Packed(content)
      [] OTHER -> content

\* setEditRoleData.
Stored(type, content) ==
    CASE type = "Boolean" -> Flag(content)
      [] type = "Integer" -> Numeral(content)
      [] type = "Binary" -> Packed(content)
      [] OTHER -> content

\* flags: the value may be edited unless the row is read-only, and the check
\* box of a required attribute of a new entry may be set.
IsEditable(row) == row.editState # "ReadOnly"
Checkable(row, isNew) == isNew /\ row.isMust
SetIgnore(row, isNew, on) ==
    IF Checkable(row, isNew) THEN [row EXCEPT !.isIgnore = on] ELSE row

------------------------------------------------------------------------------
(* The checks of CLdapSchemaValidator, by syntax.                            *)

AllIn(w, set) == \A i \in DOMAIN w : w[i] \in set
Letters == CAPITAL \union SMALL
\* ' ( ) + space - . , / : ?
Punctuation == {39, 40, 41, 43, BLANK, 45, 46, 44, 47, 58, 63}
Telephonic == DIGITS \union Punctuation

IsRun(w, i, j) ==
    /\ i <= j /\ \A k \in i..j : w[k] # BLANK
    /\ i = 1 \/ w[i - 1] = BLANK
    /\ j = Len(w) \/ w[j + 1] = BLANK

Check(syntax, w) ==
    CASE syntax \in {"Binary", "OctetString"} ->
            AllIn(w, DIGITS \union 65..70 \union 97..102)
      [] syntax = "Boolean" -> w \in {TRUETEXT, FALSETEXT}
      [] syntax = "Integer" -> Within(w, LongMax)
      [] syntax = "NumericString" ->
            \A i, j \in DOMAIN w : IsRun(w, i, j) => Within(SubSeq(w, i, j), LongMax)
      [] syntax = "CountryString" -> Len(w) = 2 /\ AllIn(w, Letters \union Telephonic)
      [] syntax \in {"TelephoneNumber", "PrintableString"} ->
            AllIn(w, Letters \union Telephonic)
      [] syntax \in {"Fax", "TelexNumber"} -> AllIn(w, Letters \union Telephonic \union {36})
      [] syntax \in {"IA5String", "DirectoryString"} -> AllIn(w, 0..127)
      [] syntax = "BitString" -> FALSE   \* the quote in front is no bit
      [] OTHER -> TRUE                   \* times: any text

------------------------------------------------------------------------------
(* The delegates: the default one for flags, numbers and plain texts.        *)

ReadEditor(row) ==
    IF row.type = "GeneralizedTime"
    THEN MakeDateTime(Parsed(EditRole(row)).format, Parsed(EditRole(row)).dateTime)
    ELSE EditRole(row)

\* The validators of the line editors: pairs of digits with a blank after
\* each or none, and the telephone's characters without letters.
IsPairs(w) ==
    LET whole(i) == Cardinality({j \in 1 .. i : w[j] # BLANK}) % 2 = 0
    IN  /\ w # <<>> /\ w[1] # BLANK /\ whole(Len(w))
        /\ \A i \in DOMAIN w :
              IF w[i] = BLANK THEN w[i - 1] # BLANK /\ whole(i)
                              ELSE w[i] \in DIGITS \union 65..70

Acceptable(type, content) ==
    CASE type = "Binary" -> IsPairs(content)
      [] type = "TelephoneNumber" -> content # <<>> /\ AllIn(content, Telephonic)
      [] OTHER -> TRUE

\* CLdapAttribute::setValue.
WithValue(row, w) ==
    IF row.editState = "ReadOnly" THEN row
    ELSE [row EXCEPT !.value = w, !.modified = TRUE]

\* CLdapAttributesModel::setData: a copy of the row is checked with the
\* content as text, before a binary value loses its blanks.
AsText(type, content) ==
    CASE type = "Boolean" -> Flag(content)
      [] type = "Integer" -> Numeral(content)
      [] OTHER -> content

SetData(row, content) ==
    IF content = EditRole(row) \/ ~Check(row.type, WithValue(row, AsText(row.type, content)).value)
    THEN row
    ELSE WithValue(row, Stored(row.type, content))

Commit(row, content) ==
    IF IsEditable(row) /\ Acceptable(row.type, content)
    THEN SetData(row, content) ELSE row
------------------------------------------------------------------------------
(* What the table promises of a cell. *)

IsTime(type) == type = "GeneralizedTime"

\* An editor that is opened and left again changes nothing; of a time that it
\* can read it keeps the minute, the seconds and the milliseconds, and the
\* zone unless that was an offset.
UntouchedIsKept(type, w) ==
    \A state \in States :
        LET row == NewRow(type, w, state, FALSE)
            left == Commit(row, ReadEditor(row))
            before == Parsed(Trim(w))
            after == Parsed(EditRole(left))
        IN  /\ ~IsTime(type) \/ state = "ReadOnly" => left = row
            /\ IsTime(type) /\ state # "ReadOnly" /\ Readable(Trim(w)) =>
                  /\ after.dateTime = before.dateTime
                  /\ before.format \in {"Utc", "Local"} => after.format = before.format
            /\ IsTime(type) /\ Format(Trim(w)) # "Unknown" =>
                  Commit(left, ReadEditor(left)) = left

\* The texts the editor of a cell with an old value can give, w being typed.
Contents(type, old, w) ==
    CASE type = "Boolean" -> BOOLEAN
      [] type = "Integer" -> {ToInt(w)}
      [] IsTime(type) -> {MakeDateTime(Format(Trim(old)), Wall(DAY, s, ms)) :
                             s \in {SECONDS, ZEROS}, ms \in 0..3}
      [] OTHER -> {Trim(w)}

\* Whatever stood in the cell, what is typed is refused or is what the editor
\* shows the next time, the row counts as modified, and what it then holds
\* passes the check of its syntax.
TypedIsStored(type, w) ==
    \A old \in {<<>>, w, Reverse(w)} : \A content \in Contents(type, old, w) :
        LET row == NewRow(type, old, "ValueReadWrite", TRUE)
            left == Commit(row, content)
        IN  \/ left = row
            \/ /\ left.modified /\ ~row.modified
               /\ Check(type, left.value)
               /\ IF type = "Binary" THEN Packed(EditRole(left)) = content
                                    ELSE EditRole(left) = content
               /\ IsTime(type) /\ content # <<>> => ReadEditor(left) = content
               /\ SetIgnore(left, TRUE, TRUE).value = left.value

(***************************************************************************)
(* Cells: opening an editor and leaving it keeps the value, of a readable   *)
(* time its moment and, but for an offset, its zone (setData and the        *)
(* delegate's conversions).                                                 *)
(***************************************************************************)
CellsUntouched == form \in CellTypes => UntouchedIsKept(form, word)

(***************************************************************************)
(* Cells: what is typed is refused and changes nothing, or it is stored,    *)
(* passes the check of its syntax, and is what the cell shows from then on. *)
(***************************************************************************)
CellsTyped == form \in CellTypes => TypedIsStored(form, word)
==============================================================================
