------------------------------ MODULE DnGrammar ------------------------------
(***************************************************************************)
(* The distinguished names of RFC 4514 and the identifiers and characters   *)
(* of RFC 4512 they are made of, as sets of words over bytes: the grammar    *)
(* the comments of corelib/CLdapSchemaValidator.cpp quote above each loop.   *)
(* A word is a sequence of bytes.  Nothing here translates the loops: it is  *)
(* what DnValidator is compared with.                                        *)
(***************************************************************************)
EXTENDS Integers, Sequences

SPACE == 32
SHARP == 35
PLUS  == 43
COMMA == 44
DASH  == 45
DOT   == 46
EQUALS == 61
ESC   == 92

DIGIT == 48..57
ALPHA == (65..90) \union (97..122)
HEX   == DIGIT \union (65..70) \union (97..102)

\* DQUOTE, PLUS, COMMA, SEMI, LANGLE, RANGLE
Escaped == {34, 43, 44, 59, 60, 62}
Special == Escaped \union {SPACE, SHARP, EQUALS}

UTF0 == 128..191
UTF1 == 0..127

Upto(w, i) == SubSeq(w, 1, i)
After(w, i) == SubSeq(w, i + 1, Len(w))

-----------------------------------------------------------------------------
(* RFC 4512: keystring, numericoid and UTFMB. *)

IsKeyString(w) ==
    /\ w # <<>>
    /\ w[1] \in ALPHA
    /\ \A i \in 1..Len(w) : w[i] \in ALPHA \union DIGIT \union {DASH}

IsNumber(w) ==
    /\ w # <<>>
    /\ \A i \in 1..Len(w) : w[i] \in DIGIT
    /\ Len(w) > 1 => w[1] # 48

\* number 1*( DOT number )
IsNumericOid(w) ==
    LET dots == {i \in 1..Len(w) : w[i] = DOT}
    IN  /\ dots # {}
        /\ \A i \in dots \union {0} :
              \E j \in dots \union {Len(w) + 1} :
                 i < j /\ IsNumber(SubSeq(w, i + 1, j - 1))

\* The second byte a first byte allows.
SecondOf(b) ==
    CASE b = 224 -> 160..191
      [] b = 237 -> 128..159
      [] b = 240 -> 144..191
      [] b = 244 -> 128..143
      [] OTHER   -> UTF0

IsMultiByte(w) ==
    /\ \/ Len(w) = 2 /\ w[1] \in 194..223
       \/ Len(w) = 3 /\ w[1] \in 224..239
       \/ Len(w) = 4 /\ w[1] \in 240..244
    /\ w[2] \in SecondOf(w[1])
    /\ \A i \in 3..Len(w) : w[i] \in UTF0

-----------------------------------------------------------------------------
(* RFC 4514: values, relative names and names. *)

IsPair(w) ==
    /\ Len(w) \in {2, 3}
    /\ w[1] = ESC
    /\ IF Len(w) = 2 THEN w[2] \in Special \union {ESC}
                     ELSE w[2] \in HEX /\ w[3] \in HEX

IsItem(w) ==
    \/ Len(w) = 1 /\ w[1] \in UTF1 \ (Escaped \union {ESC})
    \/ IsPair(w)
    \/ IsMultiByte(w)

IsItems(w) ==
    LET items[i \in 0 .. Len(w)] ==
            i = Len(w) \/ \E n \in (i + 1)..Len(w) : IsItem(SubSeq(w, i + 1, n)) /\ items[n]
    IN  items[0]

\* A value neither begins with a bare SPACE or SHARP nor ends with a bare SPACE.
IsString(w) ==
    w = <<>> \/ /\ IsItems(w)
                /\ w[1] \notin {SPACE, SHARP}
                /\ ~(w[Len(w)] = SPACE /\ IsItems(Upto(w, Len(w) - 1)))

\* SHARP 1*hexpair
IsHexString(w) ==
    /\ Len(w) > 1 /\ Len(w) % 2 = 1
    /\ w[1] = SHARP
    /\ \A i \in 2..Len(w) : w[i] \in HEX

IsTypeAndValue(w) ==
    \E i \in 1..Len(w) :
       /\ w[i] = EQUALS
       /\ LET type == Upto(w, i - 1)
              value == After(w, i)
          IN  \/ IsKeyString(type) /\ IsString(value)
              \/ IsNumericOid(type) /\ IsHexString(value)

IsRdn(w) ==
    LET rdn[i \in 0 .. Len(w)] ==
            \/ IsTypeAndValue(After(w, i))
            \/ \E j \in (i + 1)..Len(w) :
                  w[j] = PLUS /\ IsTypeAndValue(SubSeq(w, i + 1, j - 1)) /\ rdn[j]
    IN  rdn[0]

\* A name of at least one part: CheckDnString refuses the empty one on purpose.
IsDn(w) ==
    LET dn[i \in 0 .. Len(w)] ==
            \/ IsRdn(After(w, i))
            \/ \E j \in (i + 1)..Len(w) :
                  w[j] = COMMA /\ IsRdn(SubSeq(w, i + 1, j - 1)) /\ dn[j]
    IN  dn[0]
==============================================================================
