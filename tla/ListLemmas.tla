------------------------------- MODULE ListLemmas -------------------------------
(***************************************************************************)
(* Facts about numbers, lists and what loops over them make, which the     *)
(* proofs about the components share.  An induction is a set that contains *)
(* the first element and, with an element, the next one.                   *)
(***************************************************************************)
EXTENDS Lists, Integers, FiniteSets, Functions, SequencesExt, FiniteSetTheorems,
        SequenceTheorems, NaturalsInduction, WellFoundedInduction, TLAPS

(***************************************************************************)
(* Inductions.                                                             *)
(***************************************************************************)

\* Of numbers there is a least one.
LEMMA LeastOf ==
    ASSUME NEW T \in SUBSET Nat, T # {}
    PROVE  \E x \in T : \A y \in T : x <= y
<1>1. \E x \in T : \A y \in T : ~(<<y, x>> \in OpToRel(<, Nat))
  <2>1. IsWellFoundedOn(OpToRel(<, Nat), Nat)
    BY NatLessThanWellFounded
  <2> HIDE DEF OpToRel
  <2> QED
    BY <2>1, WFMin
<1>2. PICK x \in T : \A y \in T : ~(<<y, x>> \in OpToRel(<, Nat))
  BY <1>1
<1>3. ASSUME NEW y \in T PROVE x <= y
  <2>1. x \in Nat /\ y \in Nat
    OBVIOUS
  <2>2. y < x => <<y, x>> \in OpToRel(<, Nat)
    BY <2>1 DEF OpToRel
  <2>3. ~(y < x)
    BY <1>2, <2>2
  <2> QED
    BY <2>1, <2>3
<1> QED
  BY <1>3

\* What is true at 0 and one further wherever it is true is true to the end.
LEMMA OneByOne ==
    ASSUME NEW n \in Nat, NEW Good \in SUBSET (0 .. n), 0 \in Good,
           \A i \in 1 .. n : i - 1 \in Good => i \in Good
    PROVE  Good = 0 .. n
<1>1. CASE (0 .. n) \ Good = {}
  BY <1>1
<1>2. CASE (0 .. n) \ Good # {}
  <2> DEFINE bad == (0 .. n) \ Good
  <2>1. \E i \in bad : \A j \in bad : i <= j
    <3>1. bad \in SUBSET Nat /\ bad # {}
      BY <1>2
    <3> HIDE DEF bad
    <3> QED
      BY <3>1, LeastOf
  <2>2. PICK i \in (0 .. n) \ Good : \A j \in (0 .. n) \ Good : i <= j
    BY <2>1
  <2>3. i \in 1 .. n
    OBVIOUS
  <2>4. i - 1 \in 0 .. n /\ ~(i <= i - 1)
    BY <2>3
  <2> QED
    BY <2>2, <2>3, <2>4
<1> QED
  BY <1>1, <1>2

\* What is true of the empty list and of a list with one more element, where
\* it is true of the list, is true of all.
LEMMA ByAppending ==
    ASSUME NEW S, NEW Good \in SUBSET Seq(S), <<>> \in Good,
           \A p \in Good, x \in S : Append(p, x) \in Good
    PROVE  Good = Seq(S)
<1> SUFFICES ASSUME NEW p \in Seq(S)
             PROVE  p \in Good
  OBVIOUS
<1> DEFINE Lengths == {i \in 0 .. Len(p) : \A q \in Seq(S) : Len(q) = i => q \in Good}
<1>1. Len(p) \in Nat
  OBVIOUS
<1>2. Lengths = 0 .. Len(p)
  <2>1. 0 \in Lengths
    <3>1. \A q \in Seq(S) : Len(q) = 0 => q = <<>>
      BY EmptySeq
    <3> QED
      BY <1>1, <3>1
  <2>2. ASSUME NEW i \in 1 .. Len(p), i - 1 \in Lengths
        PROVE  i \in Lengths
    <3>1. ASSUME NEW q \in Seq(S), Len(q) = i
          PROVE  q \in Good
      <4>1. q # <<>>
        BY <3>1
      <4>2. PICK r \in Seq(S), x \in S : q = Append(r, x)
        BY <4>1, SequenceEmptyOrAppend
      <4>3. Len(r) = i - 1
        BY <3>1, <4>2, AppendProperties
      <4> QED
        BY <2>2, <4>2, <4>3
    <3>2. i \in 0 .. Len(p)
      BY <1>1
    <3> QED
      BY <3>1, <3>2
  <2>3. Lengths \in SUBSET (0 .. Len(p))
    OBVIOUS
  <2> HIDE DEF Lengths
  <2> QED
    BY <1>1, <2>1, <2>2, <2>3, OneByOne
<1>3. Len(p) \in Lengths
  <2>1. Len(p) \in 0 .. Len(p)
    BY <1>1
  <2> QED
    BY <1>2, <2>1, Zenon
<1> QED
  BY <1>3

\* A function on the first numbers is a list.
LEMMA FunctionIsList ==
    ASSUME NEW S, NEW n \in Nat, NEW f \in [1 .. n -> S]
    PROVE  f \in Seq(S)
<1>1. Seq(S) = UNION {[1 .. m -> S] : m \in Nat}
  BY SeqDef
<1> QED
  BY <1>1

\* A list of nothing.
LEMMA NothingInRange ==
    ASSUME NEW S, NEW p \in Seq(S), Range(p) = {}
    PROVE  p = <<>>
<1>1. Len(p) \in Nat /\ DOMAIN p = 1 .. Len(p)
  OBVIOUS
<1>2. CASE Len(p) = 0
  BY <1>2
<1>3. CASE Len(p) # 0
  <2>1. 1 \in DOMAIN p
    BY <1>1, <1>3
  <2> QED
    BY <2>1 DEF Range
<1> QED
  BY <1>2, <1>3

\* A list is what comes before an element, the element, and the rest.
LEMMA AroundAnElement ==
    ASSUME NEW S, NEW p \in Seq(S), NEW k \in 1 .. Len(p)
    PROVE  LET a == SubSeq(p, 1, k - 1)
               b == SubSeq(p, k + 1, Len(p))
           IN  /\ a \in Seq(S) /\ b \in Seq(S)
               /\ p = (a \o <<p[k]>>) \o b
               /\ Range(a) = {p[j] : j \in 1 .. k - 1}
<1> DEFINE a == SubSeq(p, 1, k - 1)
           b == SubSeq(p, k + 1, Len(p))
<1>1. Len(p) \in Nat /\ k \in Nat /\ p[k] \in S
  OBVIOUS
<1>2. a \in Seq(S) /\ Len(a) = k - 1 /\ \A j \in 1 .. k - 1 : a[j] = p[j]
  BY <1>1
<1>3. b \in Seq(S) /\ Len(b) = Len(p) - k /\ \A j \in 1 .. Len(p) - k : b[j] = p[k + j]
  BY <1>1
<1> HIDE DEF a, b
<1>4. p = (a \o <<p[k]>>) \o b
  <2> DEFINE c == a \o <<p[k]>>
             q == c \o b
  <2>1. /\ c \in Seq(S) /\ Len(c) = k /\ c[k] = p[k]
        /\ \A j \in 1 .. k - 1 : c[j] = a[j]
    BY <1>1, <1>2
  <2> HIDE DEF c
  <2>2. q \in Seq(S) /\ Len(q) = Len(p)
    <3>1. q \in Seq(S) /\ Len(q) = Len(c) + Len(b)
      <4>1. c \in Seq(S) /\ b \in Seq(S)
        BY <1>3, <2>1
      <4> QED
        BY <4>1, ConcatProperties
    <3>2. k + (Len(p) - k) = Len(p)
      BY <1>1
    <3> QED
      BY <1>3, <2>1, <3>1, <3>2
  <2>3. \A j \in 1 .. k : q[j] = c[j]
    BY <1>1, <1>3, <2>1
  <2>4. \A j \in 1 .. k : c[j] = p[j]
    BY <1>1, <1>2, <2>1
  <2>5. \A j \in k + 1 .. Len(p) : q[j] = p[j]
    <3> SUFFICES ASSUME NEW j \in k + 1 .. Len(p)
                 PROVE  q[j] = p[j]
      OBVIOUS
    <3>1. j - k \in 1 .. Len(p) - k /\ j = k + (j - k)
      BY <1>1
    <3>2. q[j] = b[j - k]
      BY <1>1, <1>3, <2>1, <3>1
    <3> QED
      BY <1>3, <3>1, <3>2
  <2> HIDE DEF q
  <2>6. \A j \in 1 .. Len(p) : q[j] = p[j]
    <3>1. \A j \in 1 .. Len(p) : j \in 1 .. k \/ j \in k + 1 .. Len(p)
      BY <1>1
    <3> QED
      BY <2>3, <2>4, <2>5, <3>1
  <2>7. p = q
    BY <2>2, <2>6, SeqEqual
  <2> QED
    BY <2>7 DEF q, c
<1>5. Range(a) = {p[j] : j \in 1 .. k - 1}
  BY <1>1, <1>2 DEF Range
<1> QED
  BY <1>2, <1>3, <1>4, <1>5 DEF a, b

(***************************************************************************)
(* Loops.                                                                  *)
(***************************************************************************)

\* The values of a loop of n passes that starts with z: pass i makes F[i][v]
\* of v.
Runs(g, n, z, F) ==
    /\ g = [i \in 0 .. n |-> g[i]] /\ g[0] = z
    /\ \A i \in 1 .. n : g[i] = F[i][g[i - 1]]

\* They exist, and are of the type that every pass keeps.
LEMMA LoopRuns ==
    ASSUME NEW n \in Nat, NEW S, NEW z \in S, NEW F \in [1 .. n -> [S -> S]]
    PROVE  \E g \in [0 .. n -> S] : Runs(g, n, z, F)
<1> DEFINE Good == {m \in 0 .. n : \E g \in [0 .. m -> S] : Runs(g, m, z, F)}
<1>1. 0 \in Good
  <2> DEFINE g == [i \in 0 .. 0 |-> z]
  <2>1. g \in [0 .. 0 -> S] /\ g = [i \in 0 .. 0 |-> g[i]] /\ g[0] = z /\ 1 .. 0 = {}
    OBVIOUS
  <2> HIDE DEF g
  <2>2. Runs(g, 0, z, F)
    BY <2>1 DEF Runs
  <2> QED
    BY <2>1, <2>2
<1>2. ASSUME NEW m \in 1 .. n, m - 1 \in Good
      PROVE  m \in Good
  <2>1. PICK g \in [0 .. m - 1 -> S] : Runs(g, m - 1, z, F)
    BY <1>2
  <2> DEFINE h == [i \in 0 .. m |-> IF i = m THEN F[m][g[m - 1]] ELSE g[i]]
  <2>2. m - 1 \in 0 .. m - 1 /\ g[m - 1] \in S /\ F[m] \in [S -> S]
    OBVIOUS
  <2>3. F[m][g[m - 1]] \in S
    BY <2>2
  <2>4. h \in [0 .. m -> S]
    <3>1. \A i \in 0 .. m : i # m => i \in 0 .. m - 1
      OBVIOUS
    <3> QED
      BY <2>3, <3>1
  <2>5. h[0] = z
    BY <2>1 DEF Runs
  <2>6. ASSUME NEW i \in 1 .. m
        PROVE  h[i] = F[i][h[i - 1]]
    <3>1. i - 1 \in 0 .. m /\ i - 1 # m /\ i \in 0 .. m
      OBVIOUS
    <3>2. h[i - 1] = g[i - 1]
      BY <3>1
    <3>3. CASE i = m
      BY <3>1, <3>2, <3>3
    <3>4. CASE i # m
      <4>1. i \in 1 .. m - 1
        BY <3>4
      <4>2. g[i] = F[i][g[i - 1]]
        BY <2>1, <4>1 DEF Runs
      <4>3. h[i] = g[i]
        BY <3>1, <3>4
      <4> QED
        BY <3>2, <4>2, <4>3
    <3> QED
      BY <3>3, <3>4
  <2>7. h = [i \in 0 .. m |-> h[i]]
    OBVIOUS
  <2> HIDE DEF h
  <2>8. Runs(h, m, z, F)
    BY <2>5, <2>6, <2>7 DEF Runs
  <2>9. m \in 0 .. n
    OBVIOUS
  <2> QED
    BY <2>4, <2>8, <2>9
<1>3. Good \in SUBSET (0 .. n)
  OBVIOUS
<1> HIDE DEF Good
<1>4. Good = 0 .. n
  BY <1>1, <1>2, <1>3, OneByOne
<1>5. n \in Good
  BY <1>4
<1> QED
  BY <1>5 DEF Good

(***************************************************************************)
(* Only.                                                                   *)
(***************************************************************************)

\* What Only has kept of the first i elements.
Keeping(g, list, kept) ==
    /\ g[0] = <<>>
    /\ \A i \in 1 .. Len(list) :
           g[i] = IF list[i] \in kept THEN Append(g[i - 1], list[i]) ELSE g[i - 1]

LEMMA KeepingExists ==
    ASSUME NEW S, NEW list \in Seq(S), NEW kept
    PROVE  \E g \in [0 .. Len(list) -> Seq(S)] : Keeping(g, list, kept)
<1> DEFINE n == Len(list)
           F == [i \in 1 .. n |-> [p \in Seq(S) |->
                    IF list[i] \in kept THEN Append(p, list[i]) ELSE p]]
<1>1. n \in Nat /\ \A i \in 1 .. n : list[i] \in S
  OBVIOUS
<1>2. F \in [1 .. n -> [Seq(S) -> Seq(S)]]
  <2>1. \A p \in Seq(S), x \in S : Append(p, x) \in Seq(S)
    OBVIOUS
  <2> QED
    BY <1>1, <2>1
<1>3. <<>> \in Seq(S)
  BY EmptySeq
<1>4. PICK g \in [0 .. n -> Seq(S)] : Runs(g, n, <<>>, F)
  <2> HIDE DEF F, n
  <2> QED
    BY <1>1, <1>2, <1>3, LoopRuns
<1>5. ASSUME NEW i \in 1 .. n
      PROVE  g[i] = IF list[i] \in kept THEN Append(g[i - 1], list[i]) ELSE g[i - 1]
  <2>1. i - 1 \in 0 .. n
    BY <1>1
  <2>2. g[i - 1] \in Seq(S) /\ g[i] = F[i][g[i - 1]]
    BY <1>4, <2>1 DEF Runs
  <2> QED
    BY <2>2
<1> QED
  BY <1>4, <1>5 DEF Keeping, Runs

LEMMA KeepingIsUnique ==
    ASSUME NEW S, NEW list \in Seq(S), NEW kept, NEW g, NEW h,
           Keeping(g, list, kept), Keeping(h, list, kept)
    PROVE  \A i \in 0 .. Len(list) : g[i] = h[i]
<1> DEFINE n == Len(list)
           Same == {i \in 0 .. n : g[i] = h[i]}
<1>1. n \in Nat
  OBVIOUS
<1>2. 0 \in Same
  BY <1>1 DEF Keeping
<1>3. ASSUME NEW i \in 1 .. n, i - 1 \in Same
      PROVE  i \in Same
  BY <1>1, <1>3 DEF Keeping
<1>4. Same \in SUBSET (0 .. n)
  OBVIOUS
<1> HIDE DEF Same, n
<1>5. Same = 0 .. n
  BY <1>1, <1>2, <1>3, <1>4, OneByOne
<1> QED
  BY <1>5 DEF Same, n

LEMMA OnlyIsKept ==
    ASSUME NEW S, NEW list \in Seq(S), NEW kept
    PROVE  \E g \in [0 .. Len(list) -> Seq(S)] :
               Keeping(g, list, kept) /\ Only(list, kept) = g[Len(list)]
<1> DEFINE n == Len(list)
           Unfolds(g) == g = [i \in 0 .. Len(list) |->
               IF i = 0 THEN <<>>
               ELSE IF list[i] \in kept THEN Append(g[i - 1], list[i]) ELSE g[i - 1]]
           only[i \in 0 .. Len(list)] ==
               IF i = 0 THEN <<>>
               ELSE IF list[i] \in kept THEN Append(only[i - 1], list[i]) ELSE only[i - 1]
<1>1. n \in Nat
  OBVIOUS
<1>2. PICK g \in [0 .. n -> Seq(S)] : Keeping(g, list, kept)
  BY KeepingExists
<1>3. Unfolds(g)
  <2>1. \A i \in 0 .. n : g[i] = IF i = 0 THEN <<>>
               ELSE IF list[i] \in kept THEN Append(g[i - 1], list[i]) ELSE g[i - 1]
    <3> TAKE i \in 0 .. n
    <3>1. CASE i = 0
      BY <1>2, <3>1 DEF Keeping
    <3>2. CASE i # 0
      <4>1. i \in 1 .. n
        BY <1>1, <3>2
      <4> QED
        BY <1>2, <3>2, <4>1 DEF Keeping
    <3> QED
      BY <3>1, <3>2
  <2>2. [i \in 0 .. n |-> g[i]] = [i \in 0 .. n |-> IF i = 0 THEN <<>>
               ELSE IF list[i] \in kept THEN Append(g[i - 1], list[i]) ELSE g[i - 1]]
    BY <2>1
  <2>3. g = [i \in 0 .. n |-> g[i]]
    OBVIOUS
  <2> QED
    BY <2>2, <2>3
<1>4. only = CHOOSE f : Unfolds(f)
  BY DEF only
<1>5. Unfolds(only)
  <2> HIDE DEF Unfolds, only
  <2> QED
    BY <1>3, <1>4
<1>6. Only(list, kept) = only[n]
  BY DEF Only
<1> HIDE DEF only
<1>7. Keeping(only, list, kept)
  <2>1. 0 \in 0 .. n /\ \A i \in 1 .. n : i \in 0 .. n /\ i # 0
    BY <1>1
  <2> QED
    BY <1>5, <2>1 DEF Keeping
<1>8. only[n] = g[n]
  <2>1. n \in 0 .. n
    BY <1>1
  <2> HIDE DEF Unfolds
  <2> QED
    BY <1>2, <1>7, <2>1, KeepingIsUnique
<1> QED
  BY <1>2, <1>6, <1>8

\* Only, element by element.
LEMMA OnlyOfNone ==
    ASSUME NEW kept
    PROVE  Only(<<>>, kept) = <<>>
<1>1. PICK g \in [0 .. Len(<<>>) -> Seq({})] :
          Keeping(g, <<>>, kept) /\ Only(<<>>, kept) = g[Len(<<>>)]
  <2>1. <<>> \in Seq({})
    BY EmptySeq
  <2> QED
    BY <2>1, OnlyIsKept
<1> QED
  BY <1>1 DEF Keeping

LEMMA OnlyOfAppend ==
    ASSUME NEW S, NEW list \in Seq(S), NEW x \in S, NEW kept
    PROVE  Only(Append(list, x), kept) =
               IF x \in kept THEN Append(Only(list, kept), x) ELSE Only(list, kept)
<1> DEFINE longer == Append(list, x)
           n == Len(list)
<1>1. /\ longer \in Seq(S) /\ Len(longer) = n + 1 /\ n \in Nat
      /\ \A i \in 1 .. n : longer[i] = list[i]
      /\ longer[n + 1] = x
  BY AppendProperties
<1> HIDE DEF longer
<1>2. PICK g \in [0 .. Len(longer) -> Seq(S)] :
          Keeping(g, longer, kept) /\ Only(longer, kept) = g[Len(longer)]
  BY <1>1, OnlyIsKept
<1>3. PICK h \in [0 .. Len(list) -> Seq(S)] :
          Keeping(h, list, kept) /\ Only(list, kept) = h[Len(list)]
  BY OnlyIsKept
<1>4. Keeping(g, list, kept)
  <2>1. \A i \in 1 .. n : i \in 1 .. Len(longer)
    BY <1>1
  <2> QED
    BY <1>1, <1>2, <2>1 DEF Keeping
<1>5. g[n] = h[n]
  <2>1. n \in 0 .. Len(list)
    BY <1>1
  <2> QED
    BY <1>3, <1>4, <2>1, KeepingIsUnique
<1>6. g[n + 1] = IF longer[n + 1] \in kept THEN Append(g[n], longer[n + 1]) ELSE g[n]
  <2>1. n + 1 \in 1 .. Len(longer) /\ n + 1 - 1 = n
    BY <1>1
  <2> QED
    BY <1>2, <2>1 DEF Keeping
<1> QED
  BY <1>1, <1>2, <1>3, <1>5, <1>6 DEF longer

\* The elements of a list with one more.
LEMMA RangeOfAppend ==
    ASSUME NEW S, NEW list \in Seq(S), NEW x \in S
    PROVE  Range(Append(list, x)) = Range(list) \union {x}
<1>1. /\ Append(list, x) = list \o <<x>> /\ <<x>> \in Seq(S) /\ Range(<<x>>) = {x}
  BY DEF Range
<1>2. \A p, q \in Seq(S) : Range(p \o q) = Range(p) \union Range(q)
  BY RangeConcatenation
<1> QED
  BY <1>1, <1>2, Zenon

\* Only leaves out the elements that are not in the set.
LEMMA OnlyKeeps ==
    ASSUME NEW S, NEW list \in Seq(S), NEW kept
    PROVE  Only(list, kept) \in Seq(S) /\ Range(Only(list, kept)) = Range(list) \intersect kept
<1> DEFINE Good == {p \in Seq(S) : /\ Only(p, kept) \in Seq(S)
                                  /\ Range(Only(p, kept)) = Range(p) \intersect kept}
<1>1. <<>> \in Good
  <2>1. <<>> \in Seq(S) /\ Range(<<>>) = {}
    BY DEF Range
  <2> QED
    BY <2>1, OnlyOfNone
<1>2. ASSUME NEW p \in Good, NEW x \in S
      PROVE  Append(p, x) \in Good
  <2>1. p \in Seq(S) /\ Only(p, kept) \in Seq(S) /\ Range(Only(p, kept)) = Range(p) \intersect kept
    OBVIOUS
  <2>2. Append(p, x) \in Seq(S) /\ Range(Append(p, x)) = Range(p) \union {x}
    BY <2>1, RangeOfAppend, AppendProperties
  <2>3. CASE x \in kept
    <3>1. Only(Append(p, x), kept) = Append(Only(p, kept), x)
      BY <2>1, <2>3, OnlyOfAppend
    <3>2. Append(Only(p, kept), x) \in Seq(S)
          /\ Range(Append(Only(p, kept), x)) = Range(Only(p, kept)) \union {x}
      BY <2>1, RangeOfAppend, AppendProperties
    <3> QED
      BY <2>1, <2>2, <2>3, <3>1, <3>2
  <2>4. CASE x \notin kept
    <3>1. Only(Append(p, x), kept) = Only(p, kept)
      BY <2>1, <2>4, OnlyOfAppend
    <3> QED
      BY <2>1, <2>2, <2>4, <3>1
  <2> QED
    BY <2>3, <2>4
<1>3. Good \in SUBSET Seq(S)
  OBVIOUS
<1> HIDE DEF Good
<1>4. Good = Seq(S)
  BY <1>1, <1>2, <1>3, ByAppending
<1> QED
  BY <1>4 DEF Good

\* Of two lists, one after the other.
LEMMA OnlyOfConcat ==
    ASSUME NEW S, NEW list \in Seq(S), NEW more \in Seq(S), NEW kept
    PROVE  Only(list \o more, kept) = Only(list, kept) \o Only(more, kept)
<1> DEFINE Good == {p \in Seq(S) : Only(list \o p, kept) = Only(list, kept) \o Only(p, kept)}
<1>1. Only(list, kept) \in Seq(S) /\ \A p \in Seq(S) : Only(p, kept) \in Seq(S)
  BY OnlyKeeps
<1>2. <<>> \in Good
  <2>1. /\ <<>> \in Seq(S) /\ list \o <<>> = list
        /\ Only(list, kept) \o <<>> = Only(list, kept)
    BY <1>1, EmptySeq, ConcatEmptySeq
  <2> QED
    BY <2>1, OnlyOfNone
<1>3. ASSUME NEW p \in Good, NEW x \in S
      PROVE  Append(p, x) \in Good
  <2>0. \A q \in Seq(S) :
            Only(Append(q, x), kept) =
                IF x \in kept THEN Append(Only(q, kept), x) ELSE Only(q, kept)
    BY OnlyOfAppend
  <2>1. p \in Seq(S) /\ Only(list \o p, kept) = Only(list, kept) \o Only(p, kept)
    OBVIOUS
  <2>2. \A q, r \in Seq(S) : q \o r \in Seq(S) /\ q \o Append(r, x) = Append(q \o r, x)
    OBVIOUS
  <2>3. Append(p, x) \in Seq(S)
    BY <2>1
  <2>4. list \o p \in Seq(S) /\ list \o Append(p, x) = Append(list \o p, x)
    BY <2>1, <2>2, Zenon
  <2>5. CASE x \in kept
    <3>1. Only(Append(p, x), kept) = Append(Only(p, kept), x)
      BY <2>1, <2>5, OnlyOfAppend
    <3>2. Only(Append(list \o p, x), kept) = Append(Only(list \o p, kept), x)
      BY <2>0, <2>4, <2>5, Zenon
    <3>3. Only(list, kept) \o Append(Only(p, kept), x) =
              Append(Only(list, kept) \o Only(p, kept), x)
      BY <1>1, <2>1, <2>2, Zenon
    <3> QED
      BY <2>1, <2>3, <2>4, <3>1, <3>2, <3>3
  <2>6. CASE x \notin kept
    <3>1. Only(Append(p, x), kept) = Only(p, kept)
      BY <2>1, <2>6, OnlyOfAppend
    <3>2. Only(Append(list \o p, x), kept) = Only(list \o p, kept)
      BY <2>0, <2>4, <2>6, Zenon
    <3> QED
      BY <2>1, <2>3, <2>4, <3>1, <3>2
  <2> QED
    BY <2>5, <2>6
<1>4. Good \in SUBSET Seq(S)
  OBVIOUS
<1> HIDE DEF Good
<1>5. Good = Seq(S)
  BY <1>2, <1>3, <1>4, ByAppending
<1> QED
  BY <1>5 DEF Good

\* Of one element.
LEMMA OnlyOfOne ==
    ASSUME NEW x, NEW kept
    PROVE  Only(<<x>>, kept) = IF x \in kept THEN <<x>> ELSE <<>>
<1>1. <<>> \in Seq({x}) /\ Append(<<>>, x) = <<x>>
  OBVIOUS
<1>2. \A q \in Seq({x}), y \in {x} :
          Only(Append(q, y), kept) = IF y \in kept THEN Append(Only(q, kept), y) ELSE Only(q, kept)
  BY OnlyOfAppend
<1>3. x \in {x}
  OBVIOUS
<1>4. Only(<<x>>, kept) = IF x \in kept THEN Append(Only(<<>>, kept), x) ELSE Only(<<>>, kept)
  BY <1>1, <1>2, <1>3, Zenon
<1> QED
  BY <1>1, <1>4, OnlyOfNone

\* Of what was kept for a larger set.
LEMMA OnlyOfOnly ==
    ASSUME NEW S, NEW list \in Seq(S), NEW kept, NEW larger, kept \subseteq larger
    PROVE  Only(Only(list, larger), kept) = Only(list, kept)
<1> DEFINE Good == {p \in Seq(S) : Only(Only(p, larger), kept) = Only(p, kept)}
<1>1. \A p \in Seq(S) : Only(p, larger) \in Seq(S)
  BY OnlyKeeps
<1>2. <<>> \in Good
  BY OnlyOfNone, EmptySeq
<1>3. ASSUME NEW p \in Good, NEW x \in S
      PROVE  Append(p, x) \in Good
  <2>1. /\ p \in Seq(S) /\ Only(p, larger) \in Seq(S) /\ Append(p, x) \in Seq(S)
        /\ Only(Only(p, larger), kept) = Only(p, kept)
    BY <1>1
  <2>2. \A q \in Seq(S) :
            /\ Only(Append(q, x), larger) =
                   IF x \in larger THEN Append(Only(q, larger), x) ELSE Only(q, larger)
            /\ Only(Append(q, x), kept) =
                   IF x \in kept THEN Append(Only(q, kept), x) ELSE Only(q, kept)
    BY OnlyOfAppend
  <2> HIDE DEF Good
  <2>3. CASE x \in larger
    <3>1. Only(Append(p, x), larger) = Append(Only(p, larger), x)
      BY <2>1, <2>2, <2>3, Zenon
    <3>2. Only(Append(Only(p, larger), x), kept) = Only(Append(p, x), kept)
      BY <2>1, <2>2, Zenon
    <3> QED
      BY <2>1, <3>1, <3>2, Zenon DEF Good
  <2>4. CASE x \notin larger
    <3>1. Only(Append(p, x), larger) = Only(p, larger) /\ x \notin kept
      BY <2>1, <2>2, <2>4, Zenon
    <3>2. Only(Append(p, x), kept) = Only(p, kept)
      BY <2>1, <2>2, <3>1, Zenon
    <3> QED
      BY <2>1, <3>1, <3>2, Zenon DEF Good
  <2> QED
    BY <2>3, <2>4
<1>4. Good \in SUBSET Seq(S)
  OBVIOUS
<1> HIDE DEF Good
<1>5. Good = Seq(S)
  BY <1>2, <1>3, <1>4, ByAppending
<1> QED
  BY <1>5 DEF Good

\* What is left of a list.
LEMMA OnlyOfRest ==
    ASSUME NEW S, NEW p \in Seq(S), NEW i \in 1 .. Len(p), NEW K
    PROVE  /\ SubSeq(p, i, Len(p)) \in Seq(S)
           /\ SubSeq(p, i + 1, Len(p)) \in Seq(S)
           /\ Only(SubSeq(p, i, Len(p)), K) =
                 IF p[i] \in K THEN <<p[i]>> \o Only(SubSeq(p, i + 1, Len(p)), K)
                 ELSE Only(SubSeq(p, i + 1, Len(p)), K)
<1> DEFINE q == SubSeq(p, i, Len(p))
           r == SubSeq(p, i + 1, Len(p))
<1>1. Len(p) \in Nat /\ i \in Nat /\ p[i] \in S /\ i <= Len(p)
  OBVIOUS
<1>2. /\ q \in Seq(S) /\ Len(q) = Len(p) - i + 1
      /\ \A j \in 1 .. Len(p) - i + 1 : q[j] = p[i + j - 1]
  BY <1>1
<1>3. r \in Seq(S) /\ Len(r) = Len(p) - i /\ \A j \in 1 .. Len(p) - i : r[j] = p[i + j]
  BY <1>1
<1> HIDE DEF q, r
<1>4. q = <<p[i]>> \o r
  <2> DEFINE c == <<p[i]>> \o r
  <2>1. c \in Seq(S) /\ Len(c) = 1 + Len(r) /\ c[1] = p[i]
        /\ \A j \in 1 .. Len(r) : c[1 + j] = r[j]
    <3>1. \A x \in S, u \in Seq(S) :
              /\ <<x>> \o u \in Seq(S) /\ Len(<<x>> \o u) = 1 + Len(u)
              /\ (<<x>> \o u)[1] = x
              /\ \A j \in 1 .. Len(u) : (<<x>> \o u)[1 + j] = u[j]
      OBVIOUS
    <3> QED
      BY <1>1, <1>3, <3>1, Zenon
  <2> HIDE DEF c
  <2>2. Len(q) = Len(c)
    BY <1>1, <1>2, <1>3, <2>1
  <2>3. ASSUME NEW j \in 1 .. Len(q) PROVE q[j] = c[j]
    <3>1. CASE j = 1
      BY <1>1, <1>2, <2>1, <3>1
    <3>2. CASE j # 1
      <4>1. j - 1 \in 1 .. Len(p) - i /\ j = 1 + (j - 1) /\ i + j - 1 = i + (j - 1)
        BY <1>1, <1>2, <3>2
      <4>2. c[j] = r[j - 1]
        BY <1>3, <2>1, <4>1
      <4>3. q[j] = p[i + (j - 1)]
        BY <1>2, <4>1
      <4> QED
        BY <1>3, <4>1, <4>2, <4>3
    <3> QED
      BY <3>1, <3>2
  <2>4. q = c
    BY <1>2, <2>1, <2>2, <2>3, SeqEqual
  <2> QED
    BY <2>4 DEF c
<1>5. \A u, v \in Seq(S) : Only(u \o v, K) = Only(u, K) \o Only(v, K)
  BY OnlyOfConcat
<1>6. <<p[i]>> \in Seq(S)
  BY <1>1
<1>7. Only(q, K) = Only(<<p[i]>>, K) \o Only(r, K)
  BY <1>3, <1>4, <1>5, <1>6, Zenon
<1>8. Only(<<p[i]>>, K) = IF p[i] \in K THEN <<p[i]>> ELSE <<>>
  BY OnlyOfOne
<1>9. Only(r, K) \in Seq(S)
  BY <1>3, OnlyKeeps
<1>10. <<>> \o Only(r, K) = Only(r, K)
  BY <1>9, ConcatEmptySeq
<1> QED
  BY <1>2, <1>3, <1>7, <1>8, <1>10 DEF q, r

(***************************************************************************)
(* Sets as lists.                                                          *)
(***************************************************************************)

\* A finite set, as a list, is the set still.
LEMMA SetAsList ==
    ASSUME NEW S, IsFiniteSet(S)
    PROVE  SetToSeq(S) \in Seq(S) /\ Range(SetToSeq(S)) = S
<1> DEFINE n == Cardinality(S)
           Listed(f) == f \in [1 .. n -> S] /\ IsInjective(f)
<1>1. n \in Nat /\ ExistsBijection(1 .. n, S)
  BY FS_CardinalityType
<1>2. \E f : Listed(f)
  BY <1>1 DEF ExistsBijection, Bijection, Injection
<1>3. SetToSeq(S) = CHOOSE f \in [1 .. n -> S] : IsInjective(f)
  BY DEF SetToSeq
<1> DEFINE list == SetToSeq(S)
<1>4. Listed(list)
  BY <1>2, <1>3
<1> HIDE DEF list
<1>5. list \in Injection(1 .. n, S)
  BY <1>4 DEF Injection
<1>6. Cardinality(1 .. n) = n
  BY <1>1, FS_Interval
<1>7. list \in Surjection(1 .. n, S)
  BY <1>5, <1>6, FS_Injection
<1>8. Range(list) = S
  BY <1>4, <1>7 DEF Surjection, Range
<1>9. list \in Seq(S)
  BY <1>1, <1>4
<1> QED
  BY <1>8, <1>9 DEF list

\* A set in some order.
LEMMA SetInOrder ==
    ASSUME NEW S, IsFiniteSet(S), NEW p \in SetToSeqs(S)
    PROVE  p \in Seq(S) /\ Range(p) = S
<1> DEFINE n == Cardinality(S)
<1>1. n \in Nat
  BY FS_CardinalityType
<1>2. p \in [1 .. n -> S] /\ \A i, j \in 1 .. n : i # j => p[i] # p[j]
  BY DEF SetToSeqs
<1>3. p \in Injection(1 .. n, S)
  BY <1>2 DEF Injection, IsInjective
<1>4. Cardinality(1 .. n) = n
  BY <1>1, FS_Interval
<1>5. p \in Surjection(1 .. n, S)
  BY <1>3, <1>4, FS_Injection
<1> QED
  BY <1>1, <1>2, <1>5 DEF Surjection, Range

(***************************************************************************)
(* Loop.                                                                   *)
(***************************************************************************)

\* What the passes for the first i elements of a list have made.
Passes(g, list, start, pass) ==
    g[0] = start /\ \A i \in 1 .. Len(list) : g[i] = pass[g[i - 1]][list[i]]

LEMMA PassesAreUnique ==
    ASSUME NEW T, NEW list \in Seq(T), NEW start, NEW pass, NEW g, NEW h,
           Passes(g, list, start, pass), Passes(h, list, start, pass)
    PROVE  \A i \in 0 .. Len(list) : g[i] = h[i]
<1> DEFINE n == Len(list)
           Same == {i \in 0 .. n : g[i] = h[i]}
<1>1. n \in Nat
  OBVIOUS
<1>2. 0 \in Same
  BY <1>1 DEF Passes
<1>3. ASSUME NEW i \in 1 .. n, i - 1 \in Same
      PROVE  i \in Same
  BY <1>1, <1>3 DEF Passes
<1>4. Same \in SUBSET (0 .. n)
  OBVIOUS
<1> HIDE DEF Same, n
<1>5. Same = 0 .. n
  BY <1>1, <1>2, <1>3, <1>4, OneByOne
<1> QED
  BY <1>5 DEF Same, n

\* The loop is their last value.
EndsWith(g, list, start, pass) ==
    Passes(g, list, start, pass) /\ Loop(list, start, pass) = g[Len(list)]

LEMMA LoopPasses ==
    ASSUME NEW S, NEW T, NEW list \in Seq(T), NEW start \in S,
           NEW pass \in [S -> [T -> S]]
    PROVE  \E g \in [0 .. Len(list) -> S] : EndsWith(g, list, start, pass)
<1> DEFINE n == Len(list)
           F == [i \in 1 .. n |-> [v \in S |-> pass[v][list[i]]]]
           Unfolds(g) == g = [i \in 0 .. Len(list) |->
               IF i = 0 THEN start ELSE pass[g[i - 1]][list[i]]]
           made[i \in 0 .. Len(list)] ==
               IF i = 0 THEN start ELSE pass[made[i - 1]][list[i]]
<1>1. n \in Nat /\ \A i \in 1 .. n : list[i] \in T
  OBVIOUS
<1>2. F \in [1 .. n -> [S -> S]]
  BY <1>1
<1>3. PICK g \in [0 .. n -> S] : Runs(g, n, start, F)
  <2> HIDE DEF F, n
  <2> QED
    BY <1>1, <1>2, LoopRuns
<1>4. ASSUME NEW i \in 1 .. n
      PROVE  g[i] = pass[g[i - 1]][list[i]]
  <2>1. i - 1 \in 0 .. n
    BY <1>1
  <2>2. g[i - 1] \in S /\ g[i] = F[i][g[i - 1]]
    BY <1>3, <2>1 DEF Runs
  <2> QED
    BY <2>2
<1>5. Unfolds(g)
  <2>1. \A i \in 0 .. n : g[i] = IF i = 0 THEN start ELSE pass[g[i - 1]][list[i]]
    <3> TAKE i \in 0 .. n
    <3>1. CASE i = 0
      BY <1>3, <3>1 DEF Runs
    <3>2. CASE i # 0
      <4>1. i \in 1 .. n
        BY <1>1, <3>2
      <4> QED
        BY <1>4, <3>2, <4>1
    <3> QED
      BY <3>1, <3>2
  <2>2. [i \in 0 .. n |-> g[i]] =
            [i \in 0 .. n |-> IF i = 0 THEN start ELSE pass[g[i - 1]][list[i]]]
    BY <2>1
  <2>3. g = [i \in 0 .. n |-> g[i]]
    OBVIOUS
  <2> QED
    BY <2>2, <2>3
<1>6. Unfolds(made)
  <2>1. made = CHOOSE f : Unfolds(f)
    BY DEF made
  <2> HIDE DEF Unfolds, made
  <2> QED
    BY <1>5, <2>1
<1>7. Passes(g, list, start, pass)
  BY <1>3, <1>4 DEF Passes, Runs
<1>8. Loop(list, start, pass) = made[n]
  BY DEF Loop
<1> HIDE DEF made
<1>9. Passes(made, list, start, pass)
  <2>1. 0 \in 0 .. n /\ \A i \in 1 .. n : i \in 0 .. n /\ i # 0
    BY <1>1
  <2> QED
    BY <1>6, <2>1 DEF Passes
<1>10. made[n] = g[n]
  <2>1. n \in 0 .. n
    BY <1>1
  <2> HIDE DEF Unfolds
  <2> QED
    BY <1>7, <1>9, <2>1, PassesAreUnique
<1> QED
  BY <1>7, <1>8, <1>10 DEF EndsWith

\* A loop over nothing, over one element more, and the type of its result.
LEMMA LoopOfNone ==
    ASSUME NEW start, NEW pass
    PROVE  Loop(<<>>, start, pass) = start
<1> DEFINE Unfolds(g) == g = [i \in 0 .. Len(<<>>) |->
               IF i = 0 THEN start ELSE pass[g[i - 1]][<<>>[i]]]
           made[i \in 0 .. Len(<<>>)] ==
               IF i = 0 THEN start ELSE pass[made[i - 1]][<<>>[i]]
           g == [i \in 0 .. 0 |-> start]
<1>1. Len(<<>>) = 0 /\ \A i \in 0 .. 0 : i = 0
  OBVIOUS
<1>2. Unfolds(g)
  BY <1>1
<1>3. Unfolds(made)
  <2>1. made = CHOOSE f : Unfolds(f)
    BY DEF made
  <2> HIDE DEF Unfolds, made
  <2> QED
    BY <1>2, <2>1
<1>4. Loop(<<>>, start, pass) = made[Len(<<>>)]
  BY DEF Loop
<1> HIDE DEF made
<1> QED
  BY <1>1, <1>3, <1>4

LEMMA LoopOfAppend ==
    ASSUME NEW S, NEW T, NEW list \in Seq(T), NEW x \in T, NEW start \in S,
           NEW pass \in [S -> [T -> S]]
    PROVE  Loop(Append(list, x), start, pass) = pass[Loop(list, start, pass)][x]
<1> DEFINE longer == Append(list, x)
           n == Len(list)
<1>1. /\ longer \in Seq(T) /\ Len(longer) = n + 1 /\ n \in Nat
      /\ \A i \in 1 .. n : longer[i] = list[i]
      /\ longer[n + 1] = x
  BY AppendProperties
<1> HIDE DEF longer
<1>2. PICK g \in [0 .. Len(longer) -> S] : EndsWith(g, longer, start, pass)
  BY <1>1, LoopPasses, Zenon
<1>3. PICK h \in [0 .. Len(list) -> S] : EndsWith(h, list, start, pass)
  BY LoopPasses, Zenon
<1>4. Passes(g, list, start, pass)
  <2>1. \A i \in 1 .. n : i \in 1 .. Len(longer)
    BY <1>1
  <2> QED
    BY <1>1, <1>2, <2>1 DEF Passes, EndsWith
<1>5. g[n] = h[n]
  <2>1. n \in 0 .. Len(list) /\ Passes(h, list, start, pass) /\ list \in Seq(T)
    BY <1>1, <1>3 DEF EndsWith
  <2>2. \A i \in 0 .. Len(list) : g[i] = h[i]
    <3>1. \A k, l : Passes(k, list, start, pass) /\ Passes(l, list, start, pass) =>
                        \A i \in 0 .. Len(list) : k[i] = l[i]
      BY PassesAreUnique
    <3> QED
      BY <1>4, <2>1, <3>1, Zenon
  <2> QED
    BY <2>1, <2>2
<1>6. g[n + 1] = pass[g[n]][x]
  <2>1. n + 1 \in 1 .. Len(longer) /\ (n + 1) - 1 = n
    BY <1>1
  <2> QED
    BY <1>1, <1>2, <2>1 DEF Passes, EndsWith
<1> QED
  BY <1>1, <1>2, <1>3, <1>5, <1>6 DEF longer, EndsWith

LEMMA LoopType ==
    ASSUME NEW S, NEW T, NEW list \in Seq(T), NEW start \in S,
           NEW pass \in [S -> [T -> S]]
    PROVE  Loop(list, start, pass) \in S
<1>1. PICK g \in [0 .. Len(list) -> S] : EndsWith(g, list, start, pass)
  BY LoopPasses, Zenon
<1>2. Len(list) \in 0 .. Len(list)
  OBVIOUS
<1> QED
  BY <1>1, <1>2 DEF EndsWith

(***************************************************************************)
(* FlattenSeq: the lists of a list one after the other.                    *)
(***************************************************************************)

Joining(S) == [v \in Seq(S) |-> [x \in Seq(S) |-> v \o x]]

LEMMA JoiningType ==
    ASSUME NEW S
    PROVE  Joining(S) \in [Seq(S) -> [Seq(S) -> Seq(S)]] /\ <<>> \in Seq(S)
<1>1. \A v, x \in Seq(S) : v \o x \in Seq(S)
  OBVIOUS
<1> QED
  BY <1>1, EmptySeq DEF Joining

LEMMA FlattenIsLoop ==
    ASSUME NEW S, NEW l \in Seq(Seq(S))
    PROVE  FlattenSeq(l) = Loop(l, <<>>, Joining(S))
<1> DEFINE n == Len(l)
           J == Joining(S)
           Unfolds(g) == g = [i \in 1 .. Len(l) |->
               IF i = 1 THEN l[i] ELSE g[i - 1] \o l[i]]
           flatten[i \in 1 .. Len(l)] ==
               IF i = 1 THEN l[i] ELSE flatten[i - 1] \o l[i]
<1>1. n \in Nat /\ \A i \in 1 .. n : l[i] \in Seq(S)
  OBVIOUS
<1>2. PICK g \in [0 .. n -> Seq(S)] : EndsWith(g, l, <<>>, J)
  <2>1. J \in [Seq(S) -> [Seq(S) -> Seq(S)]] /\ <<>> \in Seq(S)
    BY JoiningType
  <2> HIDE DEF J, n
  <2> QED
    BY <2>1, LoopPasses, Zenon DEF n
<1>3. CASE n = 0
  <2>1. l = <<>>
    BY <1>3, EmptySeq
  <2> QED
    BY <2>1, LoopOfNone DEF FlattenSeq
<1>4. CASE n # 0
  <2>1. ASSUME NEW i \in 1 .. n
        PROVE  g[i] = g[i - 1] \o l[i]
    <3>1. i - 1 \in 0 .. n
      BY <1>1
    <3>2. g[i - 1] \in Seq(S) /\ l[i] \in Seq(S)
      BY <1>1, <3>1
    <3>3. J[g[i - 1]][l[i]] = g[i - 1] \o l[i]
      BY <3>2 DEF Joining
    <3> QED
      BY <1>2, <3>3 DEF Passes, EndsWith
  <2>2. 1 \in 1 .. n /\ g[1] = l[1]
    <3>1. 1 \in 1 .. n /\ 1 - 1 = 0
      BY <1>1, <1>4
    <3>2. g[1] = <<>> \o l[1] /\ l[1] \in Seq(S)
      BY <1>1, <1>2, <2>1, <3>1 DEF Passes, EndsWith
    <3>3. <<>> \o l[1] = l[1]
      BY <3>2, ConcatEmptySeq
    <3> QED
      BY <3>1, <3>2, <3>3
  <2> DEFINE f == [i \in 1 .. n |-> g[i]]
  <2>3. Unfolds(f)
    <3>1. \A i \in 1 .. n : f[i] = IF i = 1 THEN l[i] ELSE f[i - 1] \o l[i]
      <4> TAKE i \in 1 .. n
      <4>1. CASE i = 1
        BY <2>2, <4>1
      <4>2. CASE i # 1
        <5>1. i - 1 \in 1 .. n
          BY <1>1, <4>2
        <5>2. f[i] = g[i] /\ f[i - 1] = g[i - 1]
          BY <5>1
        <5>3. f[i] = f[i - 1] \o l[i]
          BY <2>1, <5>2
        <5> QED
          BY <4>2, <5>3
      <4> QED
        BY <4>1, <4>2
    <3>2. f = [i \in 1 .. n |-> f[i]]
      OBVIOUS
    <3> HIDE DEF f
    <3>3. [i \in 1 .. n |-> f[i]] =
              [i \in 1 .. n |-> IF i = 1 THEN l[i] ELSE f[i - 1] \o l[i]]
      BY <3>1
    <3> QED
      BY <3>2, <3>3
  <2>4. Unfolds(flatten)
    <3>1. flatten = CHOOSE h : Unfolds(h)
      BY DEF flatten
    <3> HIDE DEF Unfolds, flatten, f
    <3> QED
      BY <2>3, <3>1
  <2>5. FlattenSeq(l) = flatten[n]
    BY <1>4 DEF FlattenSeq
  <2> HIDE DEF flatten
  <2> DEFINE Same == {0} \union {i \in 1 .. n : flatten[i] = g[i]}
  <2>6. ASSUME NEW i \in 1 .. n, i - 1 \in Same
        PROVE  i \in Same
    <3>1. CASE i = 1
      BY <2>2, <2>4, <3>1
    <3>2. CASE i # 1
      <4>1. i - 1 \in 1 .. n /\ flatten[i - 1] = g[i - 1]
        BY <1>1, <2>6, <3>2
      <4>2. flatten[i] = flatten[i - 1] \o l[i]
        BY <2>4, <3>2
      <4>3. flatten[i] = g[i]
        BY <2>1, <4>1, <4>2
      <4> QED
        BY <4>3
    <3> QED
      BY <3>1, <3>2
  <2>7. Same \in SUBSET (0 .. n) /\ 0 \in Same
    BY <1>1
  <2> HIDE DEF Same, Unfolds
  <2>8. Same = 0 .. n
    <3> HIDE DEF n
    <3> QED
      BY <1>1, <2>6, <2>7, OneByOne
  <2>9. n \in Same
    BY <1>1, <2>8
  <2>10. flatten[n] = g[n]
    BY <1>1, <1>4, <2>9 DEF Same
  <2> QED
    BY <1>2, <2>5, <2>10 DEF EndsWith
<1> QED
  BY <1>3, <1>4

LEMMA FlattenOfNone == FlattenSeq(<<>>) = <<>>
BY DEF FlattenSeq

LEMMA FlattenOfAppend ==
    ASSUME NEW S, NEW l \in Seq(Seq(S)), NEW x \in Seq(S)
    PROVE  /\ FlattenSeq(l) \in Seq(S)
           /\ FlattenSeq(Append(l, x)) = FlattenSeq(l) \o x
<1> DEFINE J == Joining(S)
<1>1. J \in [Seq(S) -> [Seq(S) -> Seq(S)]] /\ <<>> \in Seq(S)
  BY JoiningType
<1> HIDE DEF J
<1>2. Append(l, x) \in Seq(Seq(S))
  BY AppendProperties
<1>3. FlattenSeq(l) = Loop(l, <<>>, J) /\ FlattenSeq(Append(l, x)) = Loop(Append(l, x), <<>>, J)
  BY <1>2, FlattenIsLoop DEF J
<1>4. Loop(l, <<>>, J) \in Seq(S)
  BY <1>1, LoopType
<1>5. Loop(Append(l, x), <<>>, J) = J[Loop(l, <<>>, J)][x]
  <2> DEFINE W == Seq(S)
  <2>1. l \in Seq(W) /\ x \in W /\ <<>> \in W /\ J \in [W -> [W -> W]]
    BY <1>1
  <2> HIDE DEF W
  <2> QED
    BY <2>1, LoopOfAppend
<1>6. \A v \in Seq(S) : J[v][x] = v \o x
  BY DEF J, Joining
<1> QED
  BY <1>3, <1>4, <1>5, <1>6

(***************************************************************************)
(* Functions that are made from the end.                                   *)
(***************************************************************************)

\* What is true of a number as soon as it is true of all later ones is true of
\* all.
LEMMA FromTheEnd ==
    ASSUME NEW lo \in Nat, NEW hi \in Nat, NEW Good \in SUBSET (lo .. hi),
           \A i \in lo .. hi : (\A j \in (i + 1) .. hi : j \in Good) => i \in Good
    PROVE  Good = lo .. hi
<1> SUFFICES ASSUME (lo .. hi) \ Good # {} PROVE FALSE
  OBVIOUS
<1> DEFINE bad == (lo .. hi) \ Good
           far == {hi - i : i \in bad}
<1>1. far \in SUBSET Nat /\ far # {}
  OBVIOUS
<1>2. PICK x \in far : \A y \in far : x <= y
  <2> HIDE DEF far
  <2> QED
    BY <1>1, LeastOf
<1>3. PICK i \in bad : x = hi - i
  BY <1>2
<1>4. ASSUME NEW j \in (i + 1) .. hi PROVE j \in Good
  <2>1. j \in lo .. hi /\ ~(hi - i <= hi - j)
    BY <1>3
  <2>2. j \in bad => hi - j \in far
    OBVIOUS
  <2> QED
    BY <1>2, <1>3, <2>1, <2>2
<1>5. i \in Good
  BY <1>3, <1>4
<1> QED
  BY <1>3, <1>5

\* A pass that looks at nothing but what was made of later numbers.
LooksAhead(F, lo, hi, V) ==
    /\ F \in [lo .. hi -> [[lo .. hi -> V] -> V]]
    /\ \A i \in lo .. hi : \A g, h \in [lo .. hi -> V] :
          (\A j \in (i + 1) .. hi : g[j] = h[j]) => F[i][g] = F[i][h]

\* What each pass makes of the others' results.
IsResult(f, F, lo, hi, V) ==
    f \in [lo .. hi -> V] /\ \A i \in lo .. hi : f[i] = F[i][f]

\* Such passes, from the last number to the first, have a result.
LEMMA RunsFromTheEnd ==
    ASSUME NEW lo \in Nat, NEW hi \in Nat, NEW V, NEW F, LooksAhead(F, lo, hi, V), V # {}
    PROVE  \E f : IsResult(f, F, lo, hi, V)
<1> SUFFICES \E f \in [lo .. hi -> V] : \A i \in lo .. hi : f[i] = F[i][f]
  BY DEF IsResult
<1> DEFINE A == lo .. hi
           From(i) == i .. hi
           Good == {i \in A : \E g \in [A -> V] : \A k \in From(i) : g[k] = F[k][g]}
<1>1. /\ \A i \in A : \A g \in [A -> V] : F[i][g] \in V
      /\ \A i \in A : \A g, h \in [A -> V] :
            (\A j \in (i + 1) .. hi : g[j] = h[j]) => F[i][g] = F[i][h]
  BY DEF LooksAhead
<1>2. ASSUME NEW i \in A, \A j \in (i + 1) .. hi : j \in Good
      PROVE  i \in Good
  <2>1. PICK g \in [A -> V] : \A k \in (i + 1) .. hi : g[k] = F[k][g]
    <3>1. CASE i = hi
      <4>1. PICK v \in V : TRUE
        OBVIOUS
      <4>2. [k \in A |-> v] \in [A -> V]
        OBVIOUS
      <4>3. (i + 1) .. hi = {}
        BY <3>1
      <4> QED
        BY <4>2, <4>3
    <3>2. CASE i # hi
      <4>1. i + 1 \in (i + 1) .. hi
        BY <3>2
      <4>2. i + 1 \in Good
        BY <1>2, <4>1
      <4> QED
        BY <4>2
    <3> QED
      BY <3>1, <3>2
  <2> DEFINE h == [k \in A |-> IF k = i THEN F[i][g] ELSE g[k]]
  <2>2. h \in [A -> V]
    BY <1>1
  <2>3. h[i] = F[i][g] /\ \A k \in (i + 1) .. hi : h[k] = g[k]
    <3>1. \A k \in (i + 1) .. hi : k \in A /\ k # i
      OBVIOUS
    <3> QED
      BY <3>1
  <2> HIDE DEF h
  <2>4. ASSUME NEW k \in From(i) PROVE h[k] = F[k][h]
    <3>1. k \in A /\ \A j \in (k + 1) .. hi : j \in (i + 1) .. hi
      OBVIOUS
    <3>2. \A j \in (k + 1) .. hi : g[j] = h[j]
      BY <2>3, <3>1
    <3>3. F[k][g] = F[k][h]
      BY <1>1, <2>2, <3>1, <3>2
    <3>4. CASE k = i
      BY <2>3, <3>3, <3>4
    <3>5. CASE k # i
      <4>1. k \in (i + 1) .. hi
        BY <3>5
      <4> QED
        BY <2>1, <2>3, <3>3, <4>1
    <3> QED
      BY <3>4, <3>5
  <2> QED
    BY <2>2, <2>4
<1>3. Good \in SUBSET A
  OBVIOUS
<1> HIDE DEF Good
<1>4. Good = A
  BY <1>2, <1>3, FromTheEnd
<1>5. CASE A = {}
  <2>1. PICK v \in V : TRUE
    OBVIOUS
  <2>2. [k \in A |-> v] \in [A -> V]
    OBVIOUS
  <2> QED
    BY <1>5, <2>2
<1>6. CASE A # {}
  <2>1. lo \in Good
    BY <1>4, <1>6
  <2> QED
    BY <2>1 DEF Good
<1> QED
  BY <1>5, <1>6

\* A walk goes on somewhere further, or is over.
IsWalk(lo, hi, go, next, last, V) ==
    /\ go \subseteq lo .. hi /\ \A p \in go : next[p] \in (p + 1) .. hi
    /\ \A p \in (lo .. hi) \ go : last[p] \in V

WalksTo(f, lo, hi, go, next, last) ==
    f = [p \in lo .. hi |-> IF p \in go THEN f[next[p]] ELSE last[p]]

\* What a walk comes to is of the type of its ends.
LEMMA WalkType ==
    ASSUME NEW lo \in Nat, NEW hi \in Nat, NEW go, NEW next, NEW last, NEW V, NEW f,
           IsWalk(lo, hi, go, next, last, V), WalksTo(f, lo, hi, go, next, last)
    PROVE  /\ \A p \in lo .. hi : f[p] \in V
           /\ \A p \in lo .. hi : f[p] = IF p \in go THEN f[next[p]] ELSE last[p]
<1> DEFINE Good == {p \in lo .. hi : f[p] \in V}
<1>1. \A p \in lo .. hi : f[p] = IF p \in go THEN f[next[p]] ELSE last[p]
  BY DEF WalksTo
<1>2. ASSUME NEW p \in lo .. hi, \A j \in (p + 1) .. hi : j \in Good
      PROVE  p \in Good
  BY <1>1, <1>2 DEF IsWalk
<1>3. Good \in SUBSET (lo .. hi)
  OBVIOUS
<1> HIDE DEF Good
<1>4. Good = lo .. hi
  BY <1>2, <1>3, FromTheEnd
<1> QED
  BY <1>1, <1>4 DEF Good

\* Every walk comes somewhere.
LEMMA WalksEnd ==
    ASSUME NEW lo \in Nat, NEW hi \in Nat, NEW go, NEW next, NEW last, NEW V,
           IsWalk(lo, hi, go, next, last, V), V # {}
    PROVE  \E f : WalksTo(f, lo, hi, go, next, last)
<1> DEFINE A == lo .. hi
           F == [p \in A |-> [g \in [A -> V] |-> IF p \in go THEN g[next[p]] ELSE last[p]]]
<1>1. LooksAhead(F, lo, hi, V)
  <2>1. ASSUME NEW p \in go PROVE next[p] \in A /\ next[p] \in (p + 1) .. hi
    BY DEF IsWalk
  <2>2. ASSUME NEW p \in A, NEW g \in [A -> V]
        PROVE  (IF p \in go THEN g[next[p]] ELSE last[p]) \in V
    BY <2>1 DEF IsWalk
  <2>3. F \in [A -> [[A -> V] -> V]]
    BY <2>2
  <2>4. \A p \in A : \A g, h \in [A -> V] :
            (\A j \in (p + 1) .. hi : g[j] = h[j]) => F[p][g] = F[p][h]
    BY <2>1
  <2> HIDE DEF F
  <2> QED
    BY <2>3, <2>4 DEF LooksAhead
<1>2. PICK f : IsResult(f, F, lo, hi, V)
  <2> HIDE DEF F
  <2> QED
    BY <1>1, RunsFromTheEnd, Zenon
<1>3. f \in [A -> V] /\ \A p \in A : f[p] = IF p \in go THEN f[next[p]] ELSE last[p]
  BY <1>2 DEF IsResult
<1>4. f = [p \in A |-> IF p \in go THEN f[next[p]] ELSE last[p]]
  BY <1>3
<1> QED
  BY <1>4 DEF WalksTo

\* A search is over at some places, and goes on from others to later ones.
SearchesTo(f, lo, hi, over, steps) ==
    f = [i \in lo .. hi |->
            i \in over \/ \E j \in (i + 1) .. hi : <<i, j>> \in steps /\ f[j]]

\* Every search finds its end or does not.
LEMMA SearchesEnd ==
    ASSUME NEW lo \in Nat, NEW hi \in Nat, NEW over, NEW steps
    PROVE  \E f : SearchesTo(f, lo, hi, over, steps)
<1> DEFINE A == lo .. hi
           Found(i, g) == i \in over \/ \E j \in (i + 1) .. hi : <<i, j>> \in steps /\ g[j]
           F == [i \in A |-> [g \in [A -> BOOLEAN] |-> Found(i, g)]]
<1>1. LooksAhead(F, lo, hi, BOOLEAN)
  <2>1. F \in [A -> [[A -> BOOLEAN] -> BOOLEAN]]
    OBVIOUS
  <2>2. ASSUME NEW i \in A, NEW g \in [A -> BOOLEAN], NEW h \in [A -> BOOLEAN],
               \A j \in (i + 1) .. hi : g[j] = h[j]
        PROVE  F[i][g] = F[i][h]
    <3>1. Found(i, g) = Found(i, h)
      BY <2>2
    <3> HIDE DEF Found
    <3> QED
      BY <3>1
  <2> HIDE DEF F
  <2> QED
    BY <2>1, <2>2 DEF LooksAhead
<1>2. PICK f : IsResult(f, F, lo, hi, BOOLEAN)
  <2>1. BOOLEAN # {}
    OBVIOUS
  <2> HIDE DEF F
  <2> QED
    BY <1>1, <2>1, RunsFromTheEnd, Zenon
<1>3. f \in [A -> BOOLEAN] /\ \A i \in A : f[i] = Found(i, f)
  <2> HIDE DEF Found
  <2>1. f \in [A -> BOOLEAN] /\ \A i \in A : f[i] = F[i][f]
    BY <1>2 DEF IsResult
  <2> QED
    BY <2>1
<1>4. f = [i \in A |-> Found(i, f)]
  <2> HIDE DEF Found
  <2> QED
    BY <1>3
<1> QED
  BY <1>4 DEF SearchesTo
================================================================================
