----------------------------- MODULE DnValidator -----------------------------
(***************************************************************************)
(* The check of a value of the syntax "Distinguished Name" while it is      *)
(* edited in a cell (corelib/CLdapSchemaValidator.cpp): CheckDnString and    *)
(* the routines under it, each a walk over the bytes from a position to the  *)
(* last one.  Positions are 1-based; t is what lies between begin and end    *)
(* inclusive, and 0 is the answer of a walk that stops with an error.        *)
(***************************************************************************)
EXTENDS DnGrammar, Typing, FiniteSetsExt

CONSTANT NameTypes   \* the forms that are names

-----------------------------------------------------------------------------
(* keystring_validate and numericoid_validate. *)

KeyString(k) ==
    /\ k # <<>> /\ k[1] \in ALPHA
    /\ \A i \in 2..Len(k) : k[i] \in ALPHA \union DIGIT \union {DASH}

\* Where the number at p ends.
NumberEnd(o, p) ==
    LET others == {i \in p..Len(o) : o[i] \notin DIGIT}
    IN  CASE o[p] = 48 -> p + 1
          [] o[p] # 48 /\ others # {} -> Min(others)
          [] OTHER -> Len(o) + 1

\* One pass of the loop reads one number and the dot that ends it.  Whether a
\* dot was found is told by the place, unless it is not asked for.
OidFrom(o, foundSeparator) ==
    LET from[p \in 1 .. Len(o) + 1] ==
            \/ p > Len(o)
            \/ o[p] \in DIGIT /\ NumberEnd(o, p) > Len(o) /\ (foundSeparator \/ p > 1)
            \/ /\ o[p] \in DIGIT /\ NumberEnd(o, p) < Len(o)
               /\ o[NumberEnd(o, p)] = DOT /\ from[NumberEnd(o, p) + 1]
    IN  from[1]

\* Mutant: one number is enough.
OneNumberIsEnough(o) == OidFrom(o, TRUE)

NumericOid(o) == OidFrom(o, FALSE)

-----------------------------------------------------------------------------
(* utf8char_validate. *)

IsByte0(t, p) == p <= Len(t) /\ t[p] \in UTF0

\* Mutant: any continuation byte follows any first byte.
AnyNextByte(b) == UTF0

\* What the code lets follow a first byte: after F4 it takes 80 to BF.
NextByte(b) ==
    CASE b = 224 -> 160..191
      [] b = 237 -> 128..159
      [] b = 240 -> 144..191
      [] OTHER   -> UTF0

\* The n bytes at p are one character of several bytes.
MultiByte(t, p, n) ==
    /\ \/ n = 2 /\ t[p] \in 194..223
       \/ n = 3 /\ t[p] \in 224..239
       \/ n = 4 /\ t[p] \in 240..244
    /\ p + n - 1 <= Len(t)
    /\ t[p + 1] \in NextByte(t[p])
    /\ \A i \in 2..(n - 1) : IsByte0(t, p + i)

-----------------------------------------------------------------------------
(* rdn_validate: the value, then the next part after a '+'. *)

\* Mutant: a value may begin with a sharp.
SharpMayLead == UTF1 \ (Escaped \union {SPACE, ESC})

LUTF1 == UTF1 \ (Escaped \union {SPACE, SHARP, ESC})
TUTF1 == UTF1 \ (Escaped \union {SPACE, ESC})
SUTF1 == UTF1 \ (Escaped \union {ESC})

\* isxdigit(*p) and isxdigit(*p + 1): the digit after *p's own, not the next.
HexPair(c) == c \in HEX /\ c + 1 \in HEX

\* One pass of the loop over a string takes n bytes at p.
Takes(t, p, n) ==
    \/ n = 1 /\ t[p] \in SUTF1 /\ (p = Len(t) => t[p] \in TUTF1)
    \/ n = 2 /\ t[p] = ESC /\ p < Len(t) /\ t[p + 1] \in Special \union {ESC}
    \/ /\ n = 3 /\ t[p] = ESC /\ p + 1 < Len(t)
       /\ t[p + 1] \notin Special \union {ESC} /\ HexPair(t[p + 1])
    \/ t[p] \notin UTF1 /\ MultiByte(t, p, n)

AtStop(t, p) == p > Len(t) \/ t[p] \in {COMMA, PLUS}

Taken(t, p) == {n \in 1..4 : Takes(t, p, n)}

StringEnd(t, v) ==
    LET end[p \in 1 .. Len(t) + 1] ==
            IF AtStop(t, p) THEN p
            ELSE IF Taken(t, p) # {} THEN end[p + Min(Taken(t, p))] ELSE 0
    IN  end[v]

HexEnd(t, v) ==
    LET end[p \in 1 .. Len(t) + 1] ==
            IF AtStop(t, p) THEN p
            ELSE IF p < Len(t) /\ HexPair(t[p]) THEN end[p + 2] ELSE 0
    IN  end[v]

\* What may begin a value, by the kind of its type.
Begins(t, v, numericform) ==
    /\ v <= Len(t)
    /\ IF numericform THEN v < Len(t) /\ t[v] = SHARP
                      ELSE t[v] \in UTF1 => t[v] \in LUTF1 \union {ESC}

\* A type and its value: the first '=' ends the type.
Equals(t, p) == {i \in p..Len(t) : t[i] = EQUALS}
Separator(t, p) == Min(Equals(t, p))

TypeFits(t, p) ==
    LET type == SubSeq(t, p, Separator(t, p) - 1)
    IN  IF t[p] \in DIGIT THEN NumericOid(type) ELSE KeyString(type)

HasType(t, p) ==
    /\ Equals(t, p) # {}
    /\ TypeFits(t, p)
    /\ Begins(t, Separator(t, p) + 1, t[p] \in DIGIT)

PartEnd(t, p) ==
    IF ~HasType(t, p) THEN 0
    ELSE IF t[p] \in DIGIT THEN HexEnd(t, Separator(t, p) + 2)
                           ELSE StringEnd(t, Separator(t, p) + 1)

GoesOn(t, p, separator) == p \in 1 .. (Len(t) - 1) /\ t[p] = separator

RdnEnd(t, v) ==
    LET end[p \in 1 .. Len(t)] ==
            IF GoesOn(t, PartEnd(t, p), PLUS) THEN end[PartEnd(t, p) + 1]
            ELSE IF PartEnd(t, p) = Len(t) /\ t[Len(t)] = PLUS THEN 0 ELSE PartEnd(t, p)
    IN  end[v]

(* distinguishedname_validate: parts and the commas between them. *)
DnFrom(t, v) ==
    LET from[p \in 1 .. Len(t) + 1] ==
            \/ p > Len(t) \/ RdnEnd(t, p) > Len(t)
            \/ GoesOn(t, RdnEnd(t, p), COMMA) /\ from[RdnEnd(t, p) + 1]
    IN  from[v]

\* The end handed on is one past the last byte: the terminating zero is read.
CheckDnString(s) == s # <<>> /\ DnFrom(Append(s, 0), 1)

-----------------------------------------------------------------------------
(* Properties. *)

\* A first byte F4 with a second one the RFC does not allow.
WideF4(w) == \E i \in 1..(Len(w) - 1) : w[i] = 244 /\ w[i + 1] \in 144..191

\* The byte at i is escaped: an odd number of escapes stands right before it.
Covered(w, i) ==
    \E n \in 1..(i - 1) :
       /\ n % 2 = 1
       /\ \A j \in (i - n)..(i - 1) : w[j] = ESC
       /\ i - n > 1 => w[i - n - 1] # ESC

\* An escaped pair that is taken for one of digits is one, and none of those
\* that the test of its first digit refuses.
PairsRead(w) ==
    \A i \in 2..Len(w) : Covered(w, i) /\ w[i] \in HEX =>
        HexPair(w[i]) /\ i < Len(w) /\ w[i + 1] \in HEX

\* So are the pairs behind a dotted number and "=#", of which there is one, and
\* the name goes on after them.
HexRead(w) ==
    \A i \in 1..(Len(w) - 1) : w[i] = EQUALS /\ w[i + 1] = SHARP =>
       \A b \in 1..i : (b > 1 => w[b - 1] \in {COMMA, PLUS})
                       /\ IsNumericOid(SubSeq(w, b, i - 1)) =>
          \A p \in (i + 2)..(Len(w) + 1) :
             (p - i) % 2 = 0 /\ (\A j \in (i + 2)..(p - 1) : w[j] \in HEX) =>
                /\ p <= Len(w)
                /\ w[p] \in {COMMA, PLUS} => p > i + 2
                /\ w[p] \in HEX => HexPair(w[p]) /\ p < Len(w) /\ w[p + 1] \in HEX

\* No value ends in a bare space.
SpacesRead(w) ==
    \A i \in 1..Len(w) : w[i] = SPACE /\ ~Covered(w, i) =>
        i < Len(w) /\ w[i + 1] \notin {COMMA, PLUS}

\* No value before another one is empty.
ValuesRead(w) ==
    \A i \in 2..Len(w) : w[i - 1] = EQUALS => w[i] \notin {COMMA, PLUS}

\* Where the code and the RFC agree.
Plain(w) == PairsRead(w) /\ HexRead(w) /\ SpacesRead(w) /\ ValuesRead(w) /\ ~WideF4(w)

(***************************************************************************)
(* The validator accepts exactly the names of RFC 4514:                      *)
(* - of attribute types all names and dotted numbers of RFC 4512, whatever   *)
(*   the dots, zeros and dashes, at every length, when the name goes on      *)
(*   after the value (keystring_validate, numericoid_validate and the choice *)
(*   between them);                                                          *)
(* - of values of several bytes none that is overlong, a surrogate, cut off  *)
(*   or stray, apart from a first byte F4, whose second byte the code takes  *)
(*   up to BF (utf8char_validate);                                           *)
(* - of several parts, and parts of several values, with the exceptions of   *)
(*   Plain, every mixture of commas, plus signs, escapes, sharps and spaces  *)
(*   (distinguishedname_validate and rdn_validate).                          *)
(***************************************************************************)
NamesAgree == form \in NameTypes /\ Plain(word) => (CheckDnString(word) <=> IsDn(word))
==============================================================================
