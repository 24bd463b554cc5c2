------------------------------- MODULE LdapUrl -------------------------------
(***************************************************************************)
(* The LDAP URLs in which a server refers to another one, read and written *)
(* by LDAPUrl.  A URL is a word of bytes.  The object keeps its parts and  *)
(* the last spelling; after a part was set the spelling is made anew when  *)
(* it is asked for.  Positions are 1-based; what is not found, npos, is    *)
(* one past the end.  A scheme is one byte here, and every exception       *)
(* (LDAPUrlException, std::out_of_range) is a result of its own.           *)
(***************************************************************************)
EXTENDS Typing, Numerals, Lists, FiniteSetsExt, SequencesExt

CONSTANT UrlTypes   \* the forms that are URLs

Byte == 0..255

ASSUME UrlsAssumption ==
    \A f \in UrlTypes \intersect DOMAIN Forms :
        /\ Forms[f].head \in Seq(Byte) /\ Forms[f].tail \in Seq(Byte)
        /\ Forms[f].letters \subseteq Byte

\* LDAP_DEFAULT_PORT and LDAPS_DEFAULT_PORT are numbers that can be read.
LDAPPORT == 389
LDAPSPORT == 636
ASSUME PortsAssumption == LDAPPORT <= IntMax /\ LDAPSPORT <= IntMax

PERCENT == 37
COMMAS == 44
MINUS == 45
SLASH == 47
COLON == 58
QUESTION == 63
OPEN == 91
CLOSE == 93
SPACES == (9..13) \union {32}
CAPITALS == 65..90
LETTERS == 97..122
\* # [ ] @ ! $ & ' ( ) * + ; = and - . _ ~
MARKS == {35, OPEN, CLOSE, 64, 33, 36, 38, 39, 40, 41, 42, 43, 59, 61, MINUS, 46, 95, 126}
PLAIN == DIGITS \union CAPITALS \union LETTERS \union MARKS \union {COMMAS, COLON, SLASH}

\* "l", "c": ldap and cldap, "s": ldaps, "i": ldapi
Schemes == {108, 99, 115, 105}
ScopeNames == [base |-> <<98>>, one |-> <<111>>, sub |-> <<115>>]
ScopeCodes == [base |-> 0, one |-> 1, sub |-> 2]

\* The result of a text that cannot be decoded, and of a list with such a text.
BadText == <<-1>>
BadList == <<BadText>>

\* LDAPUrl::LDAPUrl without a text.
NewUrl == [scheme |-> 108, host |-> <<>>, port |-> 0, dn |-> <<>>, attrs |-> <<>>,
           scope |-> 0, filter |-> <<>>, extensions |-> <<>>,
           text |-> <<>>, regenerate |-> FALSE]

Fails == [NewUrl EXCEPT !.scheme = 0]

------------------------------------------------------------------------------
(* std::string. *)

Find(w, c, from) ==
    LET found == {i \in DOMAIN w : i >= from /\ w[i] = c}
    IN  IF found = {} THEN Len(w) + 1 ELSE Min(found)

\* The bytes from one position to before another.
Part(w, from, to) == SubSeq(w, from, to - 1)

Starts(w, c) == w # <<>> /\ w[1] = c

\* The pieces between the marks.
Split(w, mark) ==
    Loop(w, << <<>> >>,
         [pieces \in Seq(Seq(Byte)) \ {<<>>} |-> [c \in Byte |->
             IF c = mark THEN Append(pieces, <<>>)
             ELSE [pieces EXCEPT ![Len(pieces)] = Append(@, c)]]])

------------------------------------------------------------------------------
(* percentDecode and percentEncode. *)

HexValue(c) == CASE c \in DIGITS -> c - 48 [] c \in CAPITALS -> c - 55 [] OTHER -> c - 87
IsHex(c) == c \in DIGITS \union 65..70 \union 97..102

\* The two bytes after a percent sign are read as a number to the base of 16:
\* after a space or a sign only one digit is left, and reading stops at what
\* is no digit, but "0x" has still to be followed by one.
IsEscape(a, b) ==
    \/ IsHex(a) /\ ~(a = 48 /\ b \in {88, 120})
    \/ a \in SPACES \union SIGNS /\ IsHex(b)

Escape(a, b) ==
    CASE IsHex(a) /\ IsHex(b) -> 16 * HexValue(a) + HexValue(b)
      [] IsHex(a) /\ ~IsHex(b) -> HexValue(a)
      [] a = MINUS -> (256 - HexValue(b)) % 256
      [] OTHER -> HexValue(b)

\* What is decoded, and the bytes of an escape that is open.  One that is none
\* stays so, as one at the end does.
Decoding ==
    [s \in [text : Seq(Byte), open : Seq(Byte)] |-> [c \in Byte |->
        CASE s.open = <<>> /\ c # PERCENT -> [s EXCEPT !.text = Append(@, c)]
          [] Len(s.open) = 2 /\ IsEscape(s.open[2], c) ->
                [text |-> Append(s.text, Escape(s.open[2], c)), open |-> <<>>]
          [] OTHER -> [s EXCEPT !.open = Append(@, c)]]]

Decode(w) ==
    LET end == Loop(w, [text |-> <<>>, open |-> <<>>], Decoding)
    IN  IF end.open = <<>> THEN end.text ELSE BadText

Digit(n) == IF n < 10 THEN n + 48 ELSE n + 55
Encoded(c) == <<PERCENT, Digit(c \div 16), Digit(c % 16)>>

\* Mutant: the sign itself is not escaped.
PercentIsPlain(c, flags) ==
    \/ c \notin PLAIN \union {PERCENT}
    \/ c = COMMAS /\ "comma" \in flags
    \/ c \in {COLON, SLASH} /\ "slash" \in flags

Escapes(c, flags) ==
    \/ c \notin PLAIN
    \/ c = COMMAS /\ "comma" \in flags
    \/ c \in {COLON, SLASH} /\ "slash" \in flags

Encode(w, flags) ==
    FlattenSeq([i \in DOMAIN w |-> IF Escapes(w[i], flags) THEN Encoded(w[i]) ELSE <<w[i]>>])

\* string2list: an empty text is a list of one empty item.
ListOf(w) ==
    LET pieces == Split(w, COMMAS)
        items == [i \in DOMAIN pieces |-> Decode(pieces[i])]
    IN  IF BadText \in Range(items) THEN BadList ELSE items

------------------------------------------------------------------------------
(* parseUrl.  The object's strings and lists are added to, not replaced.    *)

DefaultPort(u) == CASE u.scheme \in {108, 99} -> LDAPPORT
                    [] u.scheme = 115 -> LDAPSPORT
                    [] OTHER -> u.port

\* operator>>: the longest number at the beginning, after spaces.
NumberText(w) ==
    LET solid == {i \in DOMAIN w : w[i] \notin SPACES}
        text == IF solid = {} THEN <<>> ELSE SubSeq(w, Min(solid), Len(w))
        ends == {n \in DOMAIN text : IsNumeral(SubSeq(text, 1, n))}
    IN  IF ends = {} THEN <<>> ELSE SubSeq(text, 1, Max(ends))

IsPort(w) == w = <<>> \/ Within(NumberText(w), IntMax)
PortOf(u, w) == IF w = <<>> THEN u.port ELSE ValueOf(NumberText(w))

\* The host and the port, w being all that follows the two slashes.  The colon
\* is looked for beyond the slash as well, and for a host in brackets the byte
\* after the bracket is taken for it.
HostAndPort(u, w, slash) ==
    LET brackets == Starts(w, OPEN)
        start == IF brackets THEN 2 ELSE 1
        colon == Find(w, COLON, 1)
        end == CASE brackets -> Find(w, CLOSE, 2)
                 [] ~brackets /\ colon <= Len(w) -> colon
                 [] ~brackets /\ colon > Len(w) -> slash
        portstart == IF brackets THEN end + 1 ELSE end
        host == Decode(Part(w, start, end))
        port == Part(w, portstart + 1, slash)
    IN  IF \/ brackets /\ end > Len(w)
           \/ host = BadText
           \/ portstart < slash /\ ~IsPort(port)
        THEN Fails
        ELSE [u EXCEPT !.host = @ \o host,
                       !.port = IF portstart < slash THEN PortOf(u, port) ELSE DefaultPort(u)]

IsScope(w) == w \in {<<>>, ScopeNames.base, ScopeNames.one, ScopeNames.sub}
ScopeOf(w) == CASE w = ScopeNames.one -> 1 [] w = ScopeNames.sub -> 2 [] OTHER -> 0

\* The parts between the question marks, each by its place; what follows the
\* fifth is passed over.
WithParts(u, pieces) ==
    LET given(i) == i \in DOMAIN pieces
        plain(i) == IF given(i) THEN Decode(pieces[i]) ELSE <<>>
        attrs == IF given(2) /\ pieces[2] # <<>> THEN ListOf(pieces[2]) ELSE <<>>
        extensions == IF given(5) THEN ListOf(pieces[5]) ELSE <<>>
    IN  IF \/ BadText \in {plain(1), plain(3), plain(4)}
           \/ BadList \in {attrs, extensions}
           \/ ~IsScope(plain(3))
        THEN Fails
        ELSE [u EXCEPT !.dn = @ \o plain(1), !.attrs = @ \o attrs,
                       !.scope = IF given(3) THEN ScopeOf(plain(3)) ELSE @,
                       !.filter = @ \o plain(4), !.extensions = @ \o extensions]

Parse(u, w) ==
    LET rest == SubSeq(w, 5, Len(w))
        slash == Find(rest, SLASH, 1)
        named == [u EXCEPT !.scheme = w[1], !.text = w, !.regenerate = FALSE]
        hosted == IF Starts(rest, SLASH) THEN named ELSE HostAndPort(named, rest, slash)
    IN  IF \/ Len(w) < 4 \/ w[1] \notin Schemes
           \/ w[2] # COLON \/ w[3] # SLASH \/ w[4] # SLASH
           \/ hosted = Fails
        THEN Fails
        ELSE IF slash > Len(rest) THEN hosted
        ELSE WithParts(hosted, Split(Part(rest, slash + 1, Len(rest) + 1), QUESTION))

------------------------------------------------------------------------------
(* The set... methods and components2Url. *)

SetPort(u, n) == [u EXCEPT !.port = n, !.regenerate = TRUE]
SetHost(u, h) == [u EXCEPT !.host = h, !.regenerate = TRUE]
SetDN(u, dn) == [u EXCEPT !.dn = dn, !.regenerate = TRUE]
SetFilter(u, f) == [u EXCEPT !.filter = f, !.regenerate = TRUE]
SetScope(u, name) == [u EXCEPT !.scope = ScopeCodes[name], !.regenerate = TRUE]
SetAttrs(u, as) == [u EXCEPT !.attrs = as, !.regenerate = TRUE]
SetExtensions(u, es) == [u EXCEPT !.extensions = es, !.regenerate = TRUE]
SetScheme(u, s) == [u EXCEPT !.scheme = s, !.regenerate = TRUE]

Joined(items, flags) ==
    FlattenSeq([i \in DOMAIN items |->
                   (IF i = 1 THEN <<>> ELSE <<COMMAS>>) \o Encode(items[i], flags)])

HostText(u) == IF Contains(u.host, COLON)
               THEN <<OPEN>> \o Encode(u.host, {}) \o <<CLOSE>>
               ELSE Encode(u.host, {"slash"})

PortText(u) == IF u.port = 0 THEN <<>> ELSE <<COLON>> \o Numeral(u.port)

\* The parts behind the name, in their order, and the last that is there.
PartTexts(u) ==
    <<Joined(u.attrs, {}),
      CASE u.scope = 1 -> ScopeNames.one
        [] u.scope = 2 -> ScopeNames.sub
        [] OTHER -> <<>>,
      Encode(u.filter, {}),
      Joined(u.extensions, {"comma"})>>

LastPart(u) ==
    LET there == <<u.attrs # <<>>, u.scope \in {1, 2}, u.filter # <<>>, u.extensions # <<>>>>
    IN  Max({0} \union {i \in 1..4 : there[i]})

\* The name and the parts, with the marks of the empty ones before the last.
RestText(u) ==
    Encode(u.dn, {}) \o FlattenSeq([i \in 1..LastPart(u) |-> <<QUESTION>> \o PartTexts(u)[i]])

Spelled(u) == <<u.scheme, COLON, SLASH, SLASH>> \o HostText(u) \o PortText(u)
              \o <<SLASH>> \o RestText(u)

\* getURLString.
Text(u) == IF u.regenerate THEN Spelled(u) ELSE u.text

------------------------------------------------------------------------------
Parts(u) == <<u.scheme, u.host, u.port, u.dn, u.attrs, u.scope, u.filter, u.extensions>>

\* What a spelling cannot carry: a comma in an attribute's name, an empty
\* port in front of which the default would be read or behind which another
\* colon be taken for the port's, an address in brackets with a bracket or a
\* slash of its own.
Spellable(u) ==
    /\ u.attrs # << <<>> >>
    /\ \A i \in DOMAIN u.attrs : ~Contains(u.attrs[i], COMMAS)
    /\ u.port = 0 /\ u.host # <<>> =>
          /\ DefaultPort(u) = 0
          /\ Contains(u.host, COLON) \/ ~Contains(RestText(u), COLON)
    /\ Starts(u.host, OPEN) => Contains(u.host, COLON)
    /\ Contains(u.host, COLON) => ~Contains(u.host, SLASH) /\ ~Contains(u.host, CLOSE)

\* The same object with parts of its own set to what was read of another.
Changes(u) ==
    {SetPort(u, u.port), SetDN(u, u.filter), SetFilter(u, u.dn), SetScope(u, "sub"),
     SetAttrs(u, u.extensions), SetExtensions(u, u.attrs), SetHost(u, u.dn),
     SetScheme(u, 115)}

SurvivesSpelling(w) ==
    LET u == Parse(NewUrl, w)
    IN  u # Fails =>
          /\ Text(u) = w
          /\ \A changed \in Changes(u) : Spellable(changed) =>
                LET again == Parse(NewUrl, Text(changed))
                IN  again # Fails /\ Parts(again) = Parts(changed)

(***************************************************************************)
(* URLs: one that was read says the same when it is spelled anew with any   *)
(* of its parts changed, through every percent sign, bracket, colon and     *)
(* mark (LDAPUrl::parseURL and components2Url), what cannot be spelled      *)
(* being named by Spellable.                                                *)
(***************************************************************************)
UrlsSurvive == form \in UrlTypes => SurvivesSpelling(word)
==============================================================================
