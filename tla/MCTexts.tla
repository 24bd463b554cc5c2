---- MODULE MCTexts ----
(* The texts the program takes apart, all typed in the one way of Typing:    *)
(* names, URLs and the values of cells.  The letters                         *)
(* are those the code tells apart, "a" and "9" the letter and the digit, and *)
(* the two sides of every range of bytes.                                    *)
EXTENDS DnValidator, LdapUrl, AttributeCells, TLC

a == 97
\* "=#00,a=": a value for a numeric type, which is only taken before a comma
HexTail == <<61, 35, 48, 48, 44, 97, 61>>

Free(letters, max) == [head |-> <<>>, tail |-> <<>>, letters |-> letters, max |-> max]
Following(head, letters, max) == [Free(letters, max) EXCEPT !.head = head]

NameForms ==
    "keys"  :> [head |-> <<>>, tail |-> <<61, a>>,
                letters |-> {a, 57, DASH, SPACE}, max |-> 5] @@
    "oids"  :> [head |-> <<>>, tail |-> HexTail,
                letters |-> {48, 57, DOT, a}, max |-> 6] @@
    "bytes" :> Following(<<a, EQUALS>>,
                 {a, 127, 128, 143, 144, 159, 160, 191, 193, 194, 223, 224, 225, 237,
                  239, 240, 241, 244, 245}, 4) @@
    "names" :> Following(<<a, EQUALS>>,
                 {a, 57, EQUALS, COMMA, PLUS, ESC, SHARP, SPACE}, 6) @@
    "pairs" :> Following(<<a, EQUALS>>, {a, 57, 102, ESC, COMMA, SPACE, EQUALS}, 5) @@
    "values" :> [head |-> <<57, DOT, 57, EQUALS, SHARP>>, tail |-> <<COMMA, a, EQUALS>>,
                 letters |-> {48, 57, 71, 102, COMMA, PLUS, EQUALS}, max |-> 5]

MCNameTypes == DOMAIN NameForms

\* "l://", and with a host and a slash.
UrlForms ==
    "schemes" :> Free({108, 105, COLON, SLASH, a, 51}, 6) @@
    "hosts" :> Following(<<108, COLON, SLASH, SLASH>>,
                 {PERCENT, SLASH, COLON, QUESTION, COMMA, 51, a, OPEN, CLOSE}, 5) @@
    "parts" :> Following(<<108, COLON, SLASH, SLASH, a, SLASH>>,
                 {QUESTION, COMMA, 111, 115, PERCENT, 50, 53}, 6) @@
    "sockets" :> Following(<<105, COLON, SLASH, SLASH, a, SLASH>>,
                 {PERCENT, 51, a, COLON, QUESTION, 45, BLANK}, 5)

MCUrlTypes == DOMAIN UrlForms

MCCellForms ==
    "Binary" :> Free({48, 70, a, 71, BLANK}, 5) @@
    "Integer" :> Free({45, 48, 50, 57, BLANK}, 5) @@
    "NumericString" :> Free({45, 48, 50, 57, BLANK}, 5) @@
    "Boolean" :> Free({48, 70, 84, BLANK, 102}, 3) @@
    "TelephoneNumber" :> Free({48, 70, 43, BLANK, 36}, 5) @@
    "CountryString" :> Free({70, 36, 200}, 3) @@
    "BitString" :> Free({39, 48, 66}, 4) @@
    "GeneralizedTime" :>
        Free({DAY, NODAY, SECONDS, 211, 220, 231, 233, 243, 266, ZULU, WEST, EAST,
              OTHERPART, BLANK}, 4)

MCCellTypes == DOMAIN MCCellForms

MCForms == NameForms @@ UrlForms @@ MCCellForms
==============================
