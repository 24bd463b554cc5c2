---------------------------- MODULE TreeViewProofs ----------------------------
(***************************************************************************)
(* The directory tree and what its context menu does with users and        *)
(* groups.  The tree: for every set of names and any number of objects.    *)
(* The menu: for any lists of classes, any users and any bits besides the  *)
(* flag (from "Accounts" on).                                              *)
(***************************************************************************)
EXTENDS DirectoryTree, Accounts, ListLemmas

USE TreeAssumption

-----------------------------------------------------------------------------
(* Heaps.                                                                  *)

Objects == [dn : Dns, parent : Nat \cup {None}, children : Seq(Nat),
            loaded : BOOLEAN, new : BOOLEAN]

(* Children are made after their parent and know it; none is listed twice, *)
(* and an object that has not read its children has none.                  *)
Linked(n) ==
    \A p \in DOMAIN n :
        /\ \A c \in Range(n[p].children) : c \in p + 1 .. Len(n) /\ n[c].parent = p
        /\ \A i, j \in DOMAIN n[p].children : n[p].children[i] = n[p].children[j] => i = j
        /\ ~n[p].loaded => n[p].children = <<>>

HeapOK(n) == n \in Seq(Objects) /\ Linked(n)

LEMMA HeapType ==
    ASSUME NEW n, HeapOK(n)
    PROVE  /\ Len(n) \in Nat /\ DOMAIN n = 1 .. Len(n)
           /\ \A o \in DOMAIN n : n[o] \in Objects /\ Range(n[o].children) \subseteq DOMAIN n
<1>1. n \in Seq(Objects) /\ Len(n) \in Nat /\ DOMAIN n = 1 .. Len(n)
  BY LenProperties DEF HeapOK
<1>2. \A o \in DOMAIN n : n[o] \in Objects
  BY <1>1, ElementOfSeq
<1>3. \A o \in DOMAIN n : Range(n[o].children) \subseteq DOMAIN n
  BY <1>1 DEF HeapOK, Linked
<1> QED
  BY <1>1, <1>2, <1>3

-----------------------------------------------------------------------------
(* What is reached from an object.                                         *)

LEMMA SubtreeClosed ==
    ASSUME NEW n, HeapOK(n), NEW o, NEW x \in Subtree(n, o)
    PROVE  Range(n[x].children) \subseteq Subtree(n, o)
  BY HeapType DEF Subtree, Closed

LEMMA SubtreeLeast ==
    ASSUME NEW n, NEW o, NEW T \in SUBSET DOMAIN n, o \in T,
           \A x \in T : Range(n[x].children) \subseteq T
    PROVE  Subtree(n, o) \subseteq T
  BY DEF Subtree, Closed

LEMMA SubtreeRoot ==
    ASSUME NEW n, NEW o \in DOMAIN n
    PROVE  o \in Subtree(n, o) /\ Subtree(n, o) \subseteq DOMAIN n
  BY DEF Subtree

(* Everything below an object was made after it.                           *)
LEMMA SubtreeLater ==
    ASSUME NEW n, HeapOK(n), NEW o \in DOMAIN n
    PROVE  Subtree(n, o) \subseteq o .. Len(n)
<1> DEFINE T == o .. Len(n)
<1>1. Len(n) \in Nat /\ DOMAIN n = 1 .. Len(n)
  BY HeapType
<1>2. T \subseteq DOMAIN n /\ o \in T
  BY <1>1
<1>3. ASSUME NEW x \in T, NEW c \in Range(n[x].children)
      PROVE  c \in T
  <2>1. c \in x + 1 .. Len(n)
    BY <1>2 DEF HeapOK, Linked
  <2> QED
    BY <1>1, <2>1
<1> HIDE DEF T
<1>4. Subtree(n, o) \subseteq T
  BY <1>2, <1>3, SubtreeLeast
<1> QED
  BY <1>4 DEF T

(* An object below another one is a child of its parent, which is there    *)
(* too.                                                                    *)
LEMMA SubtreeParent ==
    ASSUME NEW n, HeapOK(n), NEW o \in DOMAIN n, NEW x \in Subtree(n, o), x # o
    PROVE  n[x].parent \in Subtree(n, o) /\ x \in Range(n[n[x].parent].children)
<1>1. PICK y \in Subtree(n, o) : x \in Range(n[y].children)
  <2> SUFFICES ASSUME \A y \in Subtree(n, o) : x \notin Range(n[y].children)
               PROVE  FALSE
    OBVIOUS
  <2> DEFINE T == Subtree(n, o) \ {x}
  <2>1. o \in T /\ T \in SUBSET DOMAIN n
    BY SubtreeRoot
  <2>2. \A y \in T : Range(n[y].children) \subseteq T
    BY SubtreeClosed
  <2> HIDE DEF T
  <2>3. Subtree(n, o) \subseteq T
    BY <2>1, <2>2, SubtreeLeast
  <2> QED
    BY <2>3 DEF T
<1>2. y \in DOMAIN n
  BY SubtreeRoot
<1>3. n[x].parent = y
  BY <1>1, <1>2 DEF HeapOK, Linked
<1> QED
  BY <1>1, <1>3

(* Objects that only get more children reach as much as before, ...        *)
LEMMA SubtreeGrows ==
    ASSUME NEW n, HeapOK(n), NEW m, HeapOK(m), NEW o \in DOMAIN n, DOMAIN n \subseteq DOMAIN m,
           \A x \in DOMAIN n : Range(n[x].children) \subseteq Range(m[x].children)
    PROVE  Subtree(n, o) \subseteq Subtree(m, o)
<1> DEFINE T == Subtree(m, o) \cap DOMAIN n
<1>1. o \in T /\ T \in SUBSET DOMAIN n
  BY SubtreeRoot
<1>2. \A x \in T : Range(n[x].children) \subseteq T
  BY SubtreeClosed, HeapType
<1> HIDE DEF T
<1>3. Subtree(n, o) \subseteq T
  BY <1>1, <1>2, SubtreeLeast
<1> QED
  BY <1>3 DEF T

(* ... and what more they reach is new, if the new objects have none.      *)
LEMMA SubtreeGrowsBy ==
    ASSUME NEW n, HeapOK(n), NEW m, HeapOK(m), NEW o \in DOMAIN n, DOMAIN n \subseteq DOMAIN m,
           \A x \in DOMAIN n :
               Range(m[x].children) \subseteq Range(n[x].children) \cup (DOMAIN m \ DOMAIN n),
           \A x \in DOMAIN m \ DOMAIN n : Range(m[x].children) = {}
    PROVE  Subtree(m, o) \subseteq Subtree(n, o) \cup (DOMAIN m \ DOMAIN n)
<1> DEFINE T == Subtree(n, o) \cup (DOMAIN m \ DOMAIN n)
<1>1. o \in T /\ T \in SUBSET DOMAIN m
  BY SubtreeRoot
<1>2. \A x \in T : Range(m[x].children) \subseteq T
  BY SubtreeClosed, SubtreeRoot
<1> HIDE DEF T
<1>3. Subtree(m, o) \subseteq T
  BY <1>1, <1>2, SubtreeLeast
<1> QED
  BY <1>3 DEF T

-----------------------------------------------------------------------------
(* Searches return sequences of names.                                     *)
LEMMA ResultsType ==
    ASSUME NEW names \in SUBSET Dns, NEW dn, NEW found \in Results(names, dn)
    PROVE  found \in Seq(Dns)
<1> DEFINE S == Below(names, dn)
           listed == SetToSeq(S)
<1>1. S \subseteq Dns /\ IsFiniteSet(S)
  BY FS_Subset DEF Below
<1>2. PICK f : f \in Bijection(1 .. Cardinality(S), S)
  BY <1>1, FS_CardinalityType DEF ExistsBijection
<1>3. f \in [1 .. Cardinality(S) -> S] /\ IsInjective(f)
  BY <1>2 DEF Bijection, Injection, IsInjective
<1>4. listed \in [1 .. Cardinality(S) -> S]
  BY <1>3 DEF SetToSeq
<1>5. Cardinality(S) \in Nat
  BY <1>1, FS_CardinalityType
<1>6. listed \in Seq(Dns)
  <2>1. listed \in [1 .. Cardinality(S) -> Dns]
    BY <1>1, <1>4
  <2> HIDE DEF listed, S
  <2> QED
    BY <1>5, <2>1, SeqDef
<1>7. PICK k \in 0 .. Len(listed) : found = SubSeq(listed, 1, k)
  BY DEF Results
<1> HIDE DEF listed, S
<1>8. Len(listed) \in Nat /\ \A i \in 1 .. k : listed[i] \in Dns
  BY <1>6, LenProperties, ElementOfSeq
<1> QED
  BY <1>7, <1>8, SubSeqProperties

-----------------------------------------------------------------------------
(* The heap after an object has read its children.                         *)
HasRead(n, o, dns, m) ==
    /\ HeapOK(m) /\ Len(m) = Len(n) + Len(dns)
    /\ \A x \in DOMAIN n \ {o} : m[x] = n[x]
    /\ m[o].children = Places(n, dns)
    /\ Places(n, dns) \in Seq(Nat) /\ Len(Places(n, dns)) = Len(dns)
    /\ Range(Places(n, dns)) = Len(n) + 1 .. Len(m)
    /\ \A x \in Len(n) + 1 .. Len(m) : m[x].children = <<>>

LEMMA ConstructedHeap ==
    ASSUME NEW n, HeapOK(n), NEW o \in DOMAIN n, ~n[o].loaded, NEW dns \in Seq(Dns),
           NEW m, m = Constructed(n, o, dns)
    PROVE  HasRead(n, o, dns, m)
<1> DEFINE changed == [n EXCEPT ![o].children = @ \o Places(n, dns), ![o].loaded = TRUE]
           more == [i \in 1 .. Len(dns) |-> Object(dns[i], o, <<>>, FALSE, FALSE)]
           places == Places(n, dns)
<1>1. /\ Len(n) \in Nat /\ DOMAIN n = 1 .. Len(n) /\ n \in Seq(Objects)
      /\ Len(dns) \in Nat /\ n[o] \in Objects /\ o \in Nat
  BY HeapType, LenProperties DEF HeapOK
<1>2. /\ places \in Seq(Nat) /\ Len(places) = Len(dns)
      /\ \A i \in 1 .. Len(dns) : places[i] = Len(n) + i
  <2>1. places \in [1 .. Len(dns) -> Nat]
    BY <1>1 DEF Places
  <2>2. places \in Seq(Nat)
    BY <1>1, <2>1, SeqDef
  <2>3. Len(places) = Len(dns)
    BY <1>1, <2>1, <2>2, LenProperties
  <2> QED
    BY <2>2, <2>3 DEF Places
<1>3. n[o].children = <<>>
  BY DEF HeapOK, Linked
<1>4. <<>> \o places = places
  BY <1>2, ConcatEmptySeq
<1>5. /\ changed \in [1 .. Len(n) -> Objects]
      /\ \A x \in 1 .. Len(n) \ {o} : changed[x] = n[x]
      /\ changed[o].children = places /\ changed[o].loaded = TRUE
      /\ changed[o].parent = n[o].parent
  <2> DEFINE one == [n EXCEPT ![o].children = places]
  <2>1. one \in [1 .. Len(n) -> Objects]
    <3>1. n \in [1 .. Len(n) -> Objects]
      BY <1>1, LenProperties
    <3> HIDE DEF places
    <3> QED
      BY <1>2, <3>1 DEF Objects
  <2>2. /\ \A x \in 1 .. Len(n) \ {o} : one[x] = n[x]
        /\ one[o].children = places /\ one[o].parent = n[o].parent
    <3> HIDE DEF places
    <3> QED
      BY <1>1 DEF Objects
  <2>3. changed = [one EXCEPT ![o].loaded = TRUE]
    BY <1>3, <1>4
  <2> HIDE DEF one, changed
  <2>4. o \in 1 .. Len(n)
    BY <1>1
  <2>5. changed \in [1 .. Len(n) -> Objects]
    BY <2>1, <2>3, <2>4 DEF Objects
  <2>6. /\ \A x \in 1 .. Len(n) \ {o} : changed[x] = one[x]
        /\ changed[o].children = one[o].children /\ changed[o].loaded = TRUE
        /\ changed[o].parent = one[o].parent
    BY <2>1, <2>3, <2>4 DEF Objects
  <2> QED
    BY <2>2, <2>5, <2>6
<1>7. /\ changed \in Seq(Objects) /\ Len(changed) = Len(n)
      /\ \A x \in 1 .. Len(n) \ {o} : changed[x] = n[x]
      /\ changed[o].children = places /\ changed[o].loaded = TRUE
      /\ changed[o].parent = n[o].parent
  <2> HIDE DEF changed, places
  <2>1. changed \in Seq(Objects)
    BY <1>1, <1>5, SeqDef
  <2>2. Len(changed) = Len(n)
    BY <1>1, <1>5, <2>1, LenProperties
  <2> QED
    BY <1>5, <2>1, <2>2
<1>8. /\ more \in Seq(Objects) /\ Len(more) = Len(dns)
      /\ \A i \in 1 .. Len(dns) : more[i] = Object(dns[i], o, <<>>, FALSE, FALSE)
  <2>1. \A i \in 1 .. Len(dns) : Object(dns[i], o, <<>>, FALSE, FALSE) \in Objects
    <3> TAKE i \in 1 .. Len(dns)
    <3>1. dns[i] \in Dns
      BY ElementOfSeq
    <3>2. <<>> \in Seq(Nat)
      BY EmptySeq
    <3> QED
      BY <1>1, <3>1, <3>2 DEF Object, Objects
  <2>2. more \in [1 .. Len(dns) -> Objects]
    BY <2>1
  <2>3. more \in Seq(Objects)
    BY <1>1, <2>2, SeqDef, ZenonT(30)
  <2>4. Len(more) = Len(dns)
    BY <1>1, <2>2, <2>3, LenProperties
  <2> QED
    BY <2>3, <2>4
<1>9. m = changed \o more
  BY DEF Constructed
<1> HIDE DEF changed, more, places
<1>10. /\ m \in Seq(Objects) /\ Len(m) = Len(n) + Len(dns)
       /\ \A x \in 1 .. Len(n) : m[x] = changed[x]
       /\ \A x \in Len(n) + 1 .. Len(m) :
              m[x] = Object(dns[x - Len(n)], o, <<>>, FALSE, FALSE)
  <2>1. /\ m \in Seq(Objects) /\ Len(m) = Len(n) + Len(dns)
        /\ \A i \in 1 .. Len(n) + Len(dns) :
               m[i] = IF i <= Len(n) THEN changed[i] ELSE more[i - Len(n)]
    <3>1. changed \in Seq(Objects) /\ Len(changed) = Len(n)
      BY <1>7
    <3>2. more \in Seq(Objects) /\ Len(more) = Len(dns)
      BY <1>8
    <3>3. /\ changed \o more \in Seq(Objects) /\ Len(changed \o more) = Len(changed) + Len(more)
          /\ \A i \in 1 .. Len(changed) + Len(more) : (changed \o more)[i] =
                 IF i <= Len(changed) THEN changed[i] ELSE more[i - Len(changed)]
      <4>1. changed \in Seq(Objects) /\ more \in Seq(Objects)
        BY <3>1, <3>2
      <4> QED
        BY <4>1, ConcatProperties, Zenon
    <3>4. m \in Seq(Objects) /\ Len(m) = Len(n) + Len(dns)
      <4>1. m \in Seq(Objects) /\ Len(m) = Len(changed) + Len(more)
        BY <1>9, <3>3, Zenon
      <4> QED
        BY <3>1, <3>2, <4>1, Zenon
    <3>5. ASSUME NEW i \in 1 .. Len(n) + Len(dns)
          PROVE  m[i] = IF i <= Len(n) THEN changed[i] ELSE more[i - Len(n)]
      <4>1. i \in 1 .. Len(changed) + Len(more)
        BY <3>1, <3>2
      <4> QED
        BY <1>9, <3>1, <3>3, <4>1
    <3> QED
      BY <3>4, <3>5
  <2>2. ASSUME NEW x \in Len(n) + 1 .. Len(m)
        PROVE  m[x] = Object(dns[x - Len(n)], o, <<>>, FALSE, FALSE)
    <3>1. x \in 1 .. Len(n) + Len(dns) /\ ~(x <= Len(n)) /\ x - Len(n) \in 1 .. Len(dns)
      BY <1>1, <2>1
    <3>2. m[x] = more[x - Len(n)]
      BY <2>1, <3>1
    <3> QED
      BY <1>8, <3>1, <3>2
  <2>3. ASSUME NEW x \in 1 .. Len(n)
        PROVE  m[x] = changed[x]
    BY <1>1, <2>1
  <2> QED
    BY <2>1, <2>2, <2>3
<1>11. DOMAIN m = 1 .. Len(m) /\ Len(m) \in Nat
  BY <1>10, LenProperties
<1>12. Range(places) = Len(n) + 1 .. Len(m)
  <2>1. DOMAIN places = 1 .. Len(dns)
    BY <1>2, LenProperties
  <2>2. ASSUME NEW x \in Len(n) + 1 .. Len(m)
        PROVE  x \in Range(places)
    <3>1. x - Len(n) \in 1 .. Len(dns) /\ places[x - Len(n)] = x
      BY <1>1, <1>2, <1>10
    <3> QED
      BY <2>1, <3>1 DEF Range
  <2>3. ASSUME NEW i \in 1 .. Len(dns)
        PROVE  places[i] \in Len(n) + 1 .. Len(m)
    BY <1>1, <1>2, <1>10
  <2> QED
    BY <2>1, <2>2, <2>3 DEF Range
<1>13. \A x \in Len(n) + 1 .. Len(m) : /\ m[x].children = <<>> /\ m[x].parent = o
                                       /\ ~m[x].loaded
  <2> TAKE x \in Len(n) + 1 .. Len(m)
  <2>1. m[x] = Object(dns[x - Len(n)], o, <<>>, FALSE, FALSE)
    BY <1>10
  <2> QED
    BY <2>1 DEF Object
<1>14. Linked(m)
  <2> SUFFICES ASSUME NEW p \in DOMAIN m
               PROVE  /\ \A c \in Range(m[p].children) : c \in p + 1 .. Len(m) /\ m[c].parent = p
                      /\ \A i, j \in DOMAIN m[p].children :
                             m[p].children[i] = m[p].children[j] => i = j
                      /\ ~m[p].loaded => m[p].children = <<>>
    BY DEF Linked
  <2>1. CASE p \in Len(n) + 1 .. Len(m)
    <3>1. Range(m[p].children) = {} /\ DOMAIN m[p].children = {}
      BY <1>13, <2>1 DEF Range
    <3> QED
      BY <1>13, <2>1, <3>1
  <2>2. CASE p = o
    <3>1. m[p].children = places /\ m[p].loaded
      BY <1>1, <1>7, <1>10, <2>2
    <3>2. \A c \in Len(n) + 1 .. Len(m) : c \in p + 1 .. Len(m)
      BY <1>1, <1>11, <2>2
    <3>3. DOMAIN places = 1 .. Len(dns)
      BY <1>2, LenProperties
    <3>4. \A i, j \in DOMAIN places : places[i] = places[j] => i = j
      BY <1>1, <1>2, <3>3
    <3> QED
      BY <1>12, <1>13, <2>2, <3>1, <3>2, <3>4
  <2>3. CASE p \in DOMAIN n \ {o}
    <3>1. m[p] = n[p]
      BY <1>1, <1>7, <1>10, <2>3
    <3>2. ASSUME NEW c \in Range(n[p].children)
          PROVE  c \in p + 1 .. Len(m) /\ m[c].parent = p
      <4>1. c \in p + 1 .. Len(n) /\ n[c].parent = p
        BY <2>3 DEF HeapOK, Linked
      <4>2. c \in 1 .. Len(n)
        BY <1>1, <2>3, <4>1
      <4>3. m[c].parent = n[c].parent
        BY <1>7, <1>10, <4>2
      <4> QED
        BY <1>1, <1>10, <2>3, <4>1, <4>3
    <3> QED
      BY <2>3, <3>1, <3>2 DEF HeapOK, Linked
  <2> QED
    BY <1>1, <1>10, <1>11, <2>1, <2>2, <2>3
<1>15. HeapOK(m)
  BY <1>10, <1>14 DEF HeapOK
<1> QED
  BY <1>1, <1>2, <1>7, <1>10, <1>12, <1>13, <1>15, ZenonT(30) DEF HasRead, places

-----------------------------------------------------------------------------
(* The heap after a child was unlinked.                                    *)

NoRepeats(s) == \A i, j \in DOMAIN s : s[i] = s[j] => i = j

LEMMA RemoveAtElements ==
    ASSUME NEW s \in Seq(Nat), NEW k \in 1 .. Len(s)
    PROVE  /\ RemoveAt(s, k) \in Seq(Nat) /\ Len(RemoveAt(s, k)) = Len(s) - 1
           /\ \A i \in 1 .. Len(s) - 1 : RemoveAt(s, k)[i] = s[IF i < k THEN i ELSE i + 1]
<1> DEFINE a == SubSeq(s, 1, k - 1)
           b == SubSeq(s, k + 1, Len(s))
<1>1. Len(s) \in Nat /\ k \in Int /\ 1 <= k /\ k <= Len(s)
  BY LenProperties
<1>2. \A i \in 1 .. Len(s) : s[i] \in Nat
  BY ElementOfSeq
<1>3. /\ a \in Seq(Nat) /\ Len(a) = k - 1
      /\ \A i \in 1 .. k - 1 : a[i] = s[i]
  <2>1. \A i \in 1 .. k - 1 : s[i] \in Nat
    BY <1>1, <1>2
  <2>2. /\ a \in Seq(Nat) /\ Len(a) = (IF 1 <= k - 1 THEN (k - 1) - 1 + 1 ELSE 0)
        /\ \A i \in 1 .. (k - 1) - 1 + 1 : a[i] = s[1 + i - 1]
    BY <1>1, <2>1, SubSeqProperties
  <2> HIDE DEF a
  <2> QED
    BY <1>1, <2>2
<1>4. /\ b \in Seq(Nat) /\ Len(b) = Len(s) - k
      /\ \A i \in 1 .. Len(s) - k : b[i] = s[k + i]
  <2>1. \A i \in k + 1 .. Len(s) : s[i] \in Nat
    BY <1>1, <1>2
  <2>2. /\ b \in Seq(Nat) /\ Len(b) = (IF k + 1 <= Len(s) THEN Len(s) - (k + 1) + 1 ELSE 0)
        /\ \A i \in 1 .. Len(s) - (k + 1) + 1 : b[i] = s[(k + 1) + i - 1]
    BY <1>1, <2>1, SubSeqProperties
  <2> HIDE DEF b
  <2>3. b \in Seq(Nat) /\ Len(b) = Len(s) - k
    BY <1>1, <2>2
  <2>4. ASSUME NEW i \in 1 .. Len(s) - k
        PROVE  b[i] = s[k + i]
    <3>1. i \in 1 .. Len(s) - (k + 1) + 1 /\ (k + 1) + i - 1 = k + i
      BY <1>1
    <3> QED
      BY <2>2, <3>1
  <2> QED
    BY <2>3, <2>4
<1>5. RemoveAt(s, k) = a \o b
  BY DEF RemoveAt
<1> HIDE DEF a, b
<1>6. /\ a \o b \in Seq(Nat) /\ Len(a \o b) = Len(a) + Len(b)
      /\ \A i \in 1 .. Len(a) + Len(b) : (a \o b)[i] = IF i <= Len(a) THEN a[i] ELSE b[i - Len(a)]
  <2>1. a \in Seq(Nat) /\ b \in Seq(Nat)
    BY <1>3, <1>4
  <2> QED
    BY <2>1, ConcatProperties, Zenon
<1> DEFINE r == a \o b
<1> HIDE DEF r
<1>7. r \in Seq(Nat) /\ Len(r) = Len(s) - 1
  <2>1. r \in Seq(Nat) /\ Len(r) = Len(a) + Len(b)
    BY <1>6, Zenon DEF r
  <2> QED
    BY <1>1, <1>3, <1>4, <2>1
<1>8. ASSUME NEW i \in 1 .. Len(s) - 1
      PROVE  r[i] = s[IF i < k THEN i ELSE i + 1]
  <2>1. i \in 1 .. Len(a) + Len(b)
    BY <1>1, <1>3, <1>4
  <2>2. r[i] = IF i <= Len(a) THEN a[i] ELSE b[i - Len(a)]
    BY <1>6, <2>1, Zenon DEF r
  <2>3. CASE i < k
    BY <1>1, <1>3, <2>2, <2>3
  <2>4. CASE ~(i < k)
    <3>1. i - (k - 1) \in 1 .. Len(s) - k /\ k + (i - (k - 1)) = i + 1
      BY <1>1, <2>4
    <3>2. r[i] = b[i - (k - 1)]
      BY <1>1, <1>3, <2>2, <2>4
    <3> QED
      BY <1>4, <2>4, <3>1, <3>2
  <2> QED
    BY <2>3, <2>4
<1> QED
  BY <1>5, <1>7, <1>8 DEF r

LEMMA RemoveAtRange ==
    ASSUME NEW s \in Seq(Nat), NoRepeats(s), NEW k \in DOMAIN s
    PROVE  /\ RemoveAt(s, k) \in Seq(Nat) /\ NoRepeats(RemoveAt(s, k))
           /\ Range(RemoveAt(s, k)) = Range(s) \ {s[k]}
<1> DEFINE r == RemoveAt(s, k)
           old(i) == IF i < k THEN i ELSE i + 1
<1>1. Len(s) \in Nat /\ DOMAIN s = 1 .. Len(s) /\ k \in 1 .. Len(s)
  BY LenProperties
<1>2. r \in Seq(Nat) /\ Len(r) = Len(s) - 1 /\ \A i \in 1 .. Len(s) - 1 : r[i] = s[old(i)]
  BY <1>1, RemoveAtElements
<1> HIDE DEF r
<1>3. DOMAIN r = 1 .. Len(s) - 1
  BY <1>2, LenProperties
<1>4. \A i \in 1 .. Len(s) - 1 : old(i) \in 1 .. Len(s) /\ old(i) # k
  BY <1>1
<1>5. \A i, j \in 1 .. Len(s) - 1 : old(i) = old(j) => i = j
  BY <1>1
<1>6. NoRepeats(r)
  BY <1>1, <1>2, <1>3, <1>4, <1>5 DEF NoRepeats
<1>7. Range(r) \subseteq Range(s) \ {s[k]}
  <2>1. ASSUME NEW i \in 1 .. Len(s) - 1
        PROVE  r[i] \in Range(s) \ {s[k]}
    <3> DEFINE j == old(i)
    <3>1. j \in DOMAIN s /\ j # k /\ r[i] = s[j]
      BY <1>1, <1>2, <1>4
    <3> HIDE DEF j
    <3> QED
      BY <3>1 DEF Range, NoRepeats
  <2> QED
    BY <1>3, <2>1 DEF Range
<1>8. ASSUME NEW j \in 1 .. Len(s), s[j] # s[k]
      PROVE  s[j] \in Range(r)
  <2>1. j # k
    BY <1>8
  <2>2. PICK i \in 1 .. Len(s) - 1 : old(i) = j
    <3>1. CASE j < k
      <4>1. j \in 1 .. Len(s) - 1 /\ old(j) = j
        BY <1>1, <3>1
      <4> QED
        BY <4>1
    <3>2. CASE j > k
      <4>1. j - 1 \in 1 .. Len(s) - 1 /\ old(j - 1) = j
        BY <1>1, <3>2
      <4> QED
        BY <4>1
    <3> QED
      BY <1>1, <2>1, <3>1, <3>2
  <2>3. r[i] = s[j]
    BY <1>2, <2>2
  <2> QED
    BY <1>3, <2>3 DEF Range
<1>9. Range(s) \ {s[k]} \subseteq Range(r)
  BY <1>1, <1>8 DEF Range
<1> QED
  BY <1>2, <1>6, <1>7, <1>9 DEF r

(* An object that gets other children.                                     *)
WithChildren(n, p, t) == [n EXCEPT ![p].children = t]

LEMMA ChildrenChanged ==
    ASSUME NEW n \in Seq(Objects), NEW p \in DOMAIN n, NEW t \in Seq(Nat),
           NEW m, m = WithChildren(n, p, t)
    PROVE  /\ m \in Seq(Objects) /\ Len(m) = Len(n) /\ DOMAIN m = DOMAIN n
           /\ \A x \in DOMAIN n \ {p} : m[x] = n[x]
           /\ m[p].children = t
           /\ \A x \in DOMAIN n : m[x].loaded = n[x].loaded /\ m[x].parent = n[x].parent
<1> DEFINE r == [n[p] EXCEPT !.children = t]
<1>1. Len(n) \in Nat /\ DOMAIN n = 1 .. Len(n) /\ n \in [1 .. Len(n) -> Objects]
  BY LenProperties
<1>2. r \in Objects /\ r.children = t /\ r.loaded = n[p].loaded /\ r.parent = n[p].parent
  BY <1>1 DEF Objects
<1>3. m = [n EXCEPT ![p] = r]
  BY <1>1 DEF WithChildren
<1> HIDE DEF r
<1>4. m \in [1 .. Len(n) -> Objects]
  BY <1>1, <1>2, <1>3
<1>5. \A x \in DOMAIN n : m[x] = IF x = p THEN r ELSE n[x]
  BY <1>1, <1>3
<1>6. m \in Seq(Objects)
  BY <1>1, <1>4, SeqDef
<1>7. Len(m) = Len(n) /\ DOMAIN m = DOMAIN n
  BY <1>1, <1>4, <1>6, LenProperties
<1> QED
  BY <1>2, <1>5, <1>6, <1>7

IsUnlinked(n, p, o, m) ==
    /\ HeapOK(m) /\ Len(m) = Len(n)
    /\ \A x \in DOMAIN n \ {p} : m[x] = n[x]
    /\ RowOf(n, o) \in DOMAIN n[p].children
    /\ m[p].children = RemoveAt(n[p].children, RowOf(n, o))
    /\ Range(m[p].children) = Range(n[p].children) \ {o}

LEMMA UnlinkedHeap ==
    ASSUME NEW n, HeapOK(n), NEW o \in DOMAIN n, NEW p \in DOMAIN n, p = n[o].parent,
           o \in Range(n[p].children),
           NEW m, m = WithChildren(n, p, RemoveFirst(n[p].children, o))
    PROVE  IsUnlinked(n, p, o, m)
<1> DEFINE s == n[p].children
           k == RowOf(n, o)
<1>1. /\ Len(n) \in Nat /\ DOMAIN n = 1 .. Len(n) /\ n \in Seq(Objects)
      /\ n[p] \in Objects /\ s \in Seq(Nat)
  BY HeapType DEF HeapOK, Objects
<1>2. NoRepeats(s)
  BY DEF HeapOK, Linked, NoRepeats
<1>3. Len(s) \in Nat /\ DOMAIN s = 1 .. Len(s)
  BY <1>1, LenProperties
<1>4. k \in DOMAIN s /\ s[k] = o
  <2>1. \E i \in 1 .. Len(s) : s[i] = o
    BY <1>3 DEF Range
  <2>2. k = CHOOSE i \in 1 .. Len(s) : s[i] = o
    BY DEF RowOf
  <2> HIDE DEF s, k
  <2> QED
    BY <1>3, <2>1, <2>2
<1> HIDE DEF k
<1>5. RemoveFirst(s, o) = RemoveAt(s, k)
  <2> HIDE DEF s
  <2> DEFINE I == {i \in 1 .. Len(s) : s[i] = o}
  <2>1. I = {k}
    BY <1>2, <1>3, <1>4 DEF NoRepeats
  <2>2. SelectInSeq(s, LAMBDA v : v = o) = Min(I)
    BY <2>1 DEF SelectInSeq
  <2>3. Min(I) = k
    BY <1>3, <1>4, <2>1 DEF Min
  <2> QED
    BY <1>3, <1>4, <2>2, <2>3 DEF RemoveFirst
<1>6. /\ RemoveAt(s, k) \in Seq(Nat) /\ NoRepeats(RemoveAt(s, k))
      /\ Range(RemoveAt(s, k)) = Range(s) \ {o}
  BY <1>1, <1>2, <1>4, RemoveAtRange
<1>7. m = WithChildren(n, p, RemoveAt(s, k))
  BY <1>5
<1> DEFINE t == RemoveAt(s, k)
<1> HIDE DEF t
<1>8. /\ m \in Seq(Objects) /\ Len(m) = Len(n) /\ DOMAIN m = DOMAIN n
      /\ \A x \in DOMAIN n \ {p} : m[x] = n[x]
      /\ m[p].children = t
      /\ \A x \in DOMAIN n : m[x].loaded = n[x].loaded /\ m[x].parent = n[x].parent
  <2>1. n \in Seq(Objects) /\ t \in Seq(Nat) /\ m = WithChildren(n, p, t)
    BY <1>1, <1>6, <1>7 DEF t
  <2> QED
    BY <2>1, ChildrenChanged
<1>9. m \in Seq(Objects) /\ Len(m) = Len(n) /\ DOMAIN m = DOMAIN n
  BY <1>8
<1>10. \A x \in DOMAIN n : m[x].parent = n[x].parent
  BY <1>8
<1>11. Linked(m)
  <2> SUFFICES ASSUME NEW q \in DOMAIN m
               PROVE  /\ \A c \in Range(m[q].children) : c \in q + 1 .. Len(m) /\ m[c].parent = q
                      /\ NoRepeats(m[q].children)
                      /\ ~m[q].loaded => m[q].children = <<>>
    BY DEF Linked, NoRepeats
  <2>1. \A c \in Range(n[q].children) : c \in q + 1 .. Len(m) /\ m[c].parent = q
    <3> TAKE c \in Range(n[q].children)
    <3>1. c \in q + 1 .. Len(n) /\ n[c].parent = q
      BY <1>9 DEF HeapOK, Linked
    <3>2. c \in DOMAIN n
      BY <1>9, HeapType
    <3> QED
      BY <1>9, <1>10, <3>1, <3>2
  <2>2. CASE q = p
    <3>1. Range(m[q].children) \subseteq Range(n[q].children) /\ NoRepeats(m[q].children)
      BY <1>6, <1>8, <2>2 DEF t
    <3>2. m[q].loaded
      <4>1. s # <<>>
        BY <1>4
      <4> QED
        BY <1>8, <2>2, <4>1 DEF HeapOK, Linked
    <3> QED
      BY <2>1, <3>1, <3>2
  <2>3. CASE q # p
    <3>1. m[q] = n[q]
      BY <1>8, <1>9, <2>3
    <3>2. NoRepeats(n[q].children) /\ (~n[q].loaded => n[q].children = <<>>)
      BY <1>9 DEF HeapOK, Linked, NoRepeats
    <3> QED
      BY <2>1, <3>1, <3>2
  <2> QED
    BY <2>2, <2>3
<1> QED
  BY <1>4, <1>6, <1>8, <1>9, <1>11 DEF IsUnlinked, HeapOK, t, k

(* What is reached without a child: everything but what is below it.       *)
LEMMA UnlinkedSubtree ==
    ASSUME NEW n, HeapOK(n), NEW m, HeapOK(m), DOMAIN m = DOMAIN n,
           NEW o \in DOMAIN n, NEW p \in DOMAIN n, NEW t \in DOMAIN n,
           \A x \in DOMAIN n \ {p} : m[x] = n[x],
           Range(m[p].children) = Range(n[p].children) \ {o}
    PROVE  /\ Subtree(m, t) \subseteq Subtree(n, t)
           /\ Subtree(n, t) \subseteq Subtree(m, t) \cup Subtree(n, o)
<1>1. \A x \in DOMAIN n : /\ Range(m[x].children) \subseteq Range(n[x].children)
                          /\ Range(n[x].children) \subseteq Range(m[x].children) \cup {o}
  <2> TAKE x \in DOMAIN n
  <2>1. CASE x = p
    BY <2>1
  <2>2. CASE x # p
    BY <2>2
  <2> QED
    BY <2>1, <2>2
<1>2. Subtree(m, t) \subseteq Subtree(n, t)
  BY <1>1, SubtreeGrows
<1>3. Subtree(n, t) \subseteq Subtree(m, t) \cup Subtree(n, o)
  <2> DEFINE T == Subtree(m, t) \cup Subtree(n, o)
  <2>1. t \in T /\ T \in SUBSET DOMAIN n
    BY SubtreeRoot
  <2>2. \A x \in T : Range(n[x].children) \subseteq T
    BY <1>1, SubtreeClosed, SubtreeRoot
  <2> HIDE DEF T
  <2>3. Subtree(n, t) \subseteq T
    BY <2>1, <2>2, SubtreeLeast
  <2> QED
    BY <2>3 DEF T
<1> QED
  BY <1>2, <1>3

-----------------------------------------------------------------------------
(* The heap after an object was made, alone or as a child.                 *)

LEMMA AppendedHeap ==
    ASSUME NEW n, HeapOK(n), NEW x \in Objects, x.children = <<>>, NEW m, m = Append(n, x)
    PROVE  /\ HeapOK(m) /\ Len(m) = Len(n) + 1 /\ m[Len(n) + 1] = x
           /\ \A y \in DOMAIN n : m[y] = n[y]
<1>1. Len(n) \in Nat /\ DOMAIN n = 1 .. Len(n) /\ n \in Seq(Objects)
  BY HeapType DEF HeapOK
<1>2. /\ m \in Seq(Objects) /\ Len(m) = Len(n) + 1 /\ m[Len(n) + 1] = x
      /\ \A y \in 1 .. Len(n) : m[y] = n[y]
  BY <1>1, AppendProperties
<1>3. DOMAIN m = 1 .. Len(n) + 1
  BY <1>2, LenProperties
<1>4. ASSUME NEW p \in DOMAIN m
      PROVE  /\ \A c \in Range(m[p].children) : c \in p + 1 .. Len(m) /\ m[c].parent = p
             /\ \A i, j \in DOMAIN m[p].children :
                    m[p].children[i] = m[p].children[j] => i = j
             /\ ~m[p].loaded => m[p].children = <<>>
  <2>1. CASE p = Len(n) + 1
    <3>1. m[p].children = <<>>
      BY <1>2, <2>1
    <3>2. DOMAIN m[p].children = {}
      BY <3>1
    <3> QED
      BY <3>1, <3>2 DEF Range
  <2>2. CASE p # Len(n) + 1
    <3>1. p \in DOMAIN n /\ m[p] = n[p]
      BY <1>1, <1>2, <1>3, <2>2
    <3>2. ASSUME NEW c \in Range(n[p].children)
          PROVE  c \in p + 1 .. Len(m) /\ m[c].parent = p
      <4>1. c \in p + 1 .. Len(n) /\ n[c].parent = p
        BY <3>1 DEF HeapOK, Linked
      <4>2. c \in 1 .. Len(n) /\ c \in p + 1 .. Len(m)
        BY <1>1, <1>2, <3>1, <4>1
      <4> QED
        BY <1>2, <4>1, <4>2
    <3> QED
      BY <3>1, <3>2 DEF HeapOK, Linked
  <2> QED
    BY <2>1, <2>2
<1> QED
  BY <1>1, <1>2, <1>4 DEF HeapOK, Linked

HasNew(n, p, o, x, m) ==
    /\ HeapOK(m) /\ Len(m) = o /\ m[o] = x
    /\ \A y \in DOMAIN n \ {p} : m[y] = n[y]
    /\ m[p].children = Append(n[p].children, o)
    /\ Range(m[p].children) = Range(n[p].children) \cup {o}

LEMMA NewHeap ==
    ASSUME NEW n, HeapOK(n), NEW p \in DOMAIN n, n[p].loaded, NEW x \in Objects,
           x.children = <<>>, x.parent = p, NEW o, o = Len(n) + 1,
           NEW changed, changed = WithChildren(n, p, Append(n[p].children, o)),
           NEW m, m = Append(changed, x)
    PROVE  HasNew(n, p, o, x, m)
<1> DEFINE s == n[p].children
           t == Append(s, o)
<1>1. /\ Len(n) \in Nat /\ DOMAIN n = 1 .. Len(n) /\ n \in Seq(Objects)
      /\ n[p] \in Objects /\ s \in Seq(Nat) /\ o \in Nat
  <2>1. /\ Len(n) \in Nat /\ DOMAIN n = 1 .. Len(n) /\ n \in Seq(Objects)
        /\ n[p] \in Objects
    BY HeapType DEF HeapOK
  <2>2. s \in Seq(Nat)
    BY <2>1 DEF Objects
  <2> QED
    BY <2>1, <2>2
<1>2. /\ t \in Seq(Nat) /\ Len(t) = Len(s) + 1 /\ t[Len(s) + 1] = o
      /\ \A i \in 1 .. Len(s) : t[i] = s[i]
  BY <1>1, AppendProperties
<1>3. Len(s) \in Nat /\ DOMAIN s = 1 .. Len(s) /\ DOMAIN t = 1 .. Len(s) + 1
  BY <1>1, <1>2, LenProperties
<1> HIDE DEF t
<1>4. /\ changed \in Seq(Objects) /\ Len(changed) = Len(n)
      /\ \A y \in DOMAIN n \ {p} : changed[y] = n[y]
      /\ changed[p].children = t
      /\ \A y \in DOMAIN n :
             changed[y].loaded = n[y].loaded /\ changed[y].parent = n[y].parent
  <2>1. n \in Seq(Objects) /\ t \in Seq(Nat) /\ changed = WithChildren(n, p, t)
    BY <1>1, <1>2 DEF t
  <2> QED
    BY <2>1, ChildrenChanged
<1> HIDE DEF s
<1>7. /\ m \in Seq(Objects) /\ Len(m) = o /\ m[o] = x
      /\ \A y \in 1 .. Len(n) : m[y] = changed[y]
  <2>1. changed \in Seq(Objects) /\ Len(changed) = Len(n)
    BY <1>4
  <2>2. /\ m \in Seq(Objects) /\ Len(m) = Len(changed) + 1 /\ m[Len(changed) + 1] = x
        /\ \A y \in 1 .. Len(changed) : m[y] = changed[y]
    BY <2>1, AppendProperties
  <2> QED
    BY <2>1, <2>2
<1>8. DOMAIN m = 1 .. o
  BY <1>7, LenProperties
<1>9. Range(t) = Range(s) \cup {o}
  <2>1. \A i \in DOMAIN s : i \in DOMAIN t /\ t[i] = s[i]
    BY <1>2, <1>3
  <2>2. \A i \in DOMAIN t : i \in DOMAIN s \/ i = Len(s) + 1
    BY <1>3
  <2>3. Len(s) + 1 \in DOMAIN t
    BY <1>3
  <2> QED
    BY <1>2, <2>1, <2>2, <2>3 DEF Range
<1>10. \A c \in Range(s) : c \in p + 1 .. Len(n) /\ n[c].parent = p
  BY DEF HeapOK, Linked, s
<1>11. \A y \in DOMAIN n : m[y].parent = n[y].parent
  BY <1>1, <1>4, <1>7
<1>12. \A i, j \in DOMAIN t : t[i] = t[j] => i = j
  <2> SUFFICES ASSUME NEW i \in DOMAIN t, NEW j \in DOMAIN t, t[i] = t[j]
               PROVE  i = j
    OBVIOUS
  <2>1. \A k \in DOMAIN s : s[k] # o
    <3> TAKE k \in DOMAIN s
    <3>1. s[k] \in Range(s)
      BY DEF Range
    <3> QED
      BY <1>1, <1>10, <3>1
  <2>2. \A k, l \in DOMAIN s : s[k] = s[l] => k = l
    BY DEF HeapOK, Linked, s
  <2>3. /\ i \in DOMAIN s \/ i = Len(s) + 1
        /\ j \in DOMAIN s \/ j = Len(s) + 1
    BY <1>3
  <2>4. \A k \in DOMAIN s : t[k] = s[k]
    BY <1>2, <1>3
  <2> QED
    BY <1>2, <2>1, <2>2, <2>3, <2>4
<1>13. ASSUME NEW q \in DOMAIN m
       PROVE  /\ \A c \in Range(m[q].children) : c \in q + 1 .. Len(m) /\ m[c].parent = q
              /\ \A i, j \in DOMAIN m[q].children :
                     m[q].children[i] = m[q].children[j] => i = j
              /\ ~m[q].loaded => m[q].children = <<>>
  <2>1. CASE q = o
    <3>1. m[q].children = <<>>
      BY <1>7, <2>1
    <3>2. DOMAIN m[q].children = {}
      BY <3>1
    <3> QED
      BY <3>1, <3>2 DEF Range
  <2>2. CASE q = p
    <3>1. m[q].children = t /\ m[q].loaded
      BY <1>1, <1>4, <1>7, <2>2
    <3>2. ASSUME NEW c \in Range(t)
          PROVE  c \in q + 1 .. Len(m) /\ m[c].parent = q
      <4>1. CASE c = o
        BY <1>1, <1>7, <2>2, <4>1
      <4>2. CASE c # o
        <5>1. c \in p + 1 .. Len(n) /\ n[c].parent = p
          BY <1>9, <1>10, <4>2
        <5>2. c \in DOMAIN n
          BY <1>1, <5>1
        <5> QED
          BY <1>1, <1>7, <1>11, <2>2, <5>1, <5>2
      <4> QED
        BY <4>1, <4>2
    <3> QED
      BY <1>12, <3>1, <3>2
  <2>3. CASE q # o /\ q # p
    <3>1. q \in DOMAIN n /\ m[q] = n[q]
      BY <1>1, <1>4, <1>7, <1>8, <2>3
    <3>2. ASSUME NEW c \in Range(n[q].children)
          PROVE  c \in q + 1 .. Len(m) /\ m[c].parent = q
      <4>1. c \in q + 1 .. Len(n) /\ n[c].parent = q
        BY <3>1 DEF HeapOK, Linked
      <4>2. c \in DOMAIN n /\ c \in q + 1 .. Len(m)
        BY <1>1, <1>7, <3>1, <4>1
      <4> QED
        BY <1>11, <4>1, <4>2
    <3>3. /\ \A i, j \in DOMAIN n[q].children :
                 n[q].children[i] = n[q].children[j] => i = j
          /\ ~n[q].loaded => n[q].children = <<>>
      BY <3>1 DEF HeapOK, Linked
    <3> QED
      BY <3>1, <3>2, <3>3
  <2> QED
    BY <2>1, <2>2, <2>3
<1>14. HeapOK(m)
  BY <1>7, <1>13 DEF HeapOK, Linked
<1>15. m[p].children = t /\ \A y \in DOMAIN n \ {p} : m[y] = n[y]
  BY <1>1, <1>4, <1>7
<1> QED
  BY <1>7, <1>9, <1>14, <1>15 DEF HasNew, t, s

(* A flag that is cleared moves no child.                                  *)
Saved(n, t) == [n EXCEPT ![t].new = FALSE]

SameTree(n, m) ==
    /\ HeapOK(m) /\ Len(m) = Len(n)
    /\ \A x \in DOMAIN n : m[x].children = n[x].children

LEMMA SavedHeap ==
    ASSUME NEW n, HeapOK(n), NEW t \in DOMAIN n, NEW m, m = Saved(n, t)
    PROVE  SameTree(n, m)
<1>1. /\ Len(n) \in Nat /\ DOMAIN n = 1 .. Len(n) /\ n \in Seq(Objects)
      /\ n[t] \in Objects
  BY HeapType DEF HeapOK
<1> DEFINE r == [n[t] EXCEPT !.new = FALSE]
<1>2. /\ r \in Objects /\ r.children = n[t].children /\ r.loaded = n[t].loaded
      /\ r.parent = n[t].parent
  BY <1>1 DEF Objects
<1>3. n \in [1 .. Len(n) -> Objects] /\ m = [n EXCEPT ![t] = r]
  BY <1>1, LenProperties DEF Saved
<1> HIDE DEF r
<1>4. m \in [1 .. Len(n) -> Objects]
  BY <1>1, <1>2, <1>3
<1>5. m \in Seq(Objects) /\ Len(m) = Len(n) /\ DOMAIN m = DOMAIN n
  <2>1. m \in Seq(Objects)
    BY <1>1, <1>4, SeqDef
  <2> QED
    BY <1>1, <1>4, <2>1, LenProperties
<1>6. \A x \in DOMAIN n : /\ m[x].children = n[x].children /\ m[x].loaded = n[x].loaded
                          /\ m[x].parent = n[x].parent
  BY <1>1, <1>2, <1>3
<1>7. Linked(m)
  <2> SUFFICES ASSUME NEW p \in DOMAIN n
               PROVE  /\ \A c \in Range(m[p].children) :
                             c \in p + 1 .. Len(m) /\ m[c].parent = p
                      /\ \A i, j \in DOMAIN m[p].children :
                             m[p].children[i] = m[p].children[j] => i = j
                      /\ ~m[p].loaded => m[p].children = <<>>
    BY <1>5 DEF Linked
  <2>1. ASSUME NEW c \in Range(n[p].children)
        PROVE  c \in p + 1 .. Len(m) /\ m[c].parent = p
    <3>1. c \in p + 1 .. Len(n) /\ n[c].parent = p
      BY DEF HeapOK, Linked
    <3>2. c \in DOMAIN n
      BY <1>1, <3>1
    <3> QED
      BY <1>5, <1>6, <3>1, <3>2
  <2> QED
    BY <1>6, <2>1 DEF HeapOK, Linked
<1> QED
  BY <1>5, <1>6, <1>7 DEF SameTree, HeapOK

-----------------------------------------------------------------------------
(* What the view was told.                                                 *)

Views == Seq(Seq(Nat))

LEMMA RowsAreASequence ==
    ASSUME NEW S, NEW k \in Nat, NEW w \in [1 .. k -> S]
    PROVE  w \in Seq(S) /\ Len(w) = k
<1>1. w \in Seq(S)
  BY SeqDef
<1> QED
  BY <1>1, LenProperties

WithRows(v, o, told) == [v EXCEPT ![o] = told]

LEMMA RowsChanged ==
    ASSUME NEW v \in Views, NEW o \in DOMAIN v, NEW told \in Seq(Nat),
           NEW w, w = WithRows(v, o, told)
    PROVE  /\ w \in Views /\ Len(w) = Len(v)
           /\ w[o] = told /\ \A x \in DOMAIN v \ {o} : w[x] = v[x]
<1>1. Len(v) \in Nat /\ DOMAIN v = 1 .. Len(v) /\ v \in [1 .. Len(v) -> Seq(Nat)]
  BY LenProperties DEF Views
<1>2. w \in [1 .. Len(v) -> Seq(Nat)] /\ w[o] = told /\ \A x \in DOMAIN v \ {o} : w[x] = v[x]
  BY <1>1 DEF WithRows
<1>3. w \in Seq(Seq(Nat))
  <2>1. Len(v) \in Nat /\ w \in [1 .. Len(v) -> Seq(Nat)]
    BY <1>1, <1>2
  <2> QED
    BY <2>1, RowsAreASequence, Zenon
<1>4. Len(w) = Len(v)
  BY <1>1, <1>2, <1>3, LenProperties
<1> QED
  BY <1>2, <1>3, <1>4 DEF Views

(* Objects that the view has not been told of have no rows.                *)
LEMMA GrownView ==
    ASSUME NEW v \in Views, NEW m, Len(m) \in Nat, Len(v) <= Len(m)
    PROVE  /\ Grow(v, m) \in Views /\ Len(Grow(v, m)) = Len(m)
           /\ DOMAIN Grow(v, m) = 1 .. Len(m)
           /\ \A x \in DOMAIN v : Grow(v, m)[x] = v[x]
           /\ \A x \in Len(v) + 1 .. Len(m) : Grow(v, m)[x] = <<>>
<1> DEFINE more == [i \in 1 .. Len(m) - Len(v) |-> <<>>]
           w == v \o more
<1>1. Len(v) \in Nat /\ DOMAIN v = 1 .. Len(v) /\ v \in Seq(Seq(Nat))
  BY LenProperties DEF Views
<1>2. /\ more \in Seq(Seq(Nat)) /\ Len(more) = Len(m) - Len(v)
      /\ \A i \in 1 .. Len(m) - Len(v) : more[i] = <<>>
  <2>1. <<>> \in Seq(Nat) /\ Len(m) - Len(v) \in Nat
    BY <1>1, EmptySeq
  <2>2. more \in [1 .. Len(m) - Len(v) -> Seq(Nat)]
    BY <2>1
  <2>3. more \in Seq(Seq(Nat))
    BY <2>1, <2>2, SeqDef
  <2> QED
    BY <2>1, <2>2, <2>3, LenProperties
<1>3. Grow(v, m) = w
  BY DEF Grow
<1> HIDE DEF more
<1>4. /\ w \in Seq(Seq(Nat)) /\ Len(w) = Len(v) + Len(more)
      /\ \A i \in 1 .. Len(v) + Len(more) :
             w[i] = IF i <= Len(v) THEN v[i] ELSE more[i - Len(v)]
  <2>1. v \in Seq(Seq(Nat)) /\ more \in Seq(Seq(Nat))
    BY <1>1, <1>2
  <2> QED
    BY <2>1, ConcatProperties, Zenon
<1> HIDE DEF w
<1>5. Len(w) = Len(m) /\ DOMAIN w = 1 .. Len(m)
  BY <1>1, <1>2, <1>4, LenProperties
<1>6. ASSUME NEW x \in 1 .. Len(v)
      PROVE  w[x] = v[x]
  <2>1. x \in 1 .. Len(v) + Len(more) /\ x <= Len(v)
    BY <1>1, <1>2
  <2> QED
    BY <1>4, <2>1
<1>7. ASSUME NEW x \in Len(v) + 1 .. Len(m)
      PROVE  w[x] = <<>>
  <2>1. x \in 1 .. Len(v) + Len(more) /\ ~(x <= Len(v)) /\ x - Len(v) \in 1 .. Len(m) - Len(v)
    BY <1>1, <1>2
  <2>2. w[x] = more[x - Len(v)]
    BY <1>4, <2>1
  <2> QED
    BY <1>2, <2>1, <2>2
<1> QED
  BY <1>1, <1>3, <1>4, <1>5, <1>6, <1>7 DEF Views

(* All rows of an object that had none are announced at once, ...          *)
LEMMA FirstRows ==
    ASSUME NEW v, NEW n, NEW o, v[o] = <<>>, NEW s \in Seq(Nat), n[o].children = s
    PROVE  Announced(v, n, o, 0, Len(s)) = s
<1>1. s \in Seq(Nat) /\ Len(s) \in Nat
  BY LenProperties
<1>2. SubSeq(v[o], 1, 0) = <<>> /\ SubSeq(v[o], 0 + 1, Len(v[o])) = <<>>
  <2>1. Len(v[o]) = 0
    BY EmptySeq
  <2> QED
    BY <2>1, SubSeqEmpty
<1>3. SubSeq(s, 0 + 1, 0 + Len(s)) = s
  BY <1>1, SubSeqFull
<1>4. <<>> \o s \o <<>> = s
  BY <1>1, ConcatEmptySeq
<1> QED
  BY <1>2, <1>3, <1>4 DEF Announced

(* ... and a new child is one more row at the end.                         *)
LEMMA LastOfAppend ==
    ASSUME NEW s \in Seq(Nat), NEW c \in Nat
    PROVE  /\ SubSeq(Append(s, c), Len(s) + 1, Len(s) + 1) = <<c>>
           /\ s \o <<c>> \o <<>> = Append(s, c)
<1> DEFINE t == Append(s, c)
           k == Len(s)
           one == SubSeq(t, k + 1, k + 1)
<1>1. k \in Nat
  BY LenProperties
<1>2. t \in Seq(Nat) /\ Len(t) = k + 1 /\ t[k + 1] = c
  BY <1>1, AppendProperties
<1>3. t = s \o <<c>>
  BY AppendIsConcat
<1>4. t \o <<>> = t
  BY <1>2, ConcatEmptySeq
<1> HIDE DEF t, k
<1>5. \A i \in k + 1 .. k + 1 : t[i] \in Nat
  BY <1>1, <1>2
<1>6. /\ one \in Seq(Nat) /\ Len(one) = 1
      /\ \A i \in 1 .. 1 : one[i] = t[(k + 1) + i - 1]
  BY <1>1, <1>5, SubSeqProperties
<1> HIDE DEF one
<1>7. one[1] = c
  BY <1>1, <1>2, <1>6
<1>8. one = <<c>>
  BY <1>6, <1>7
<1> QED
  BY <1>3, <1>4, <1>8 DEF one, t, k

-----------------------------------------------------------------------------
(* The invariant: the heap is a forest whose objects come after their      *)
(* parents, the view was told of the children of all that is shown, and    *)
(* what can be reached was not deleted.                                    *)

ViewAgrees ==
    /\ view \in Views /\ Len(view) = Len(node)
    /\ \A o \in Shown : view[o] = node[o].children

PointersAreLive ==
    /\ live \subseteq DOMAIN node
    /\ Shown \subseteq live /\ current \in Shown \cup {None}
    /\ table \in live \cup {None}
    /\ used \subseteq live

TreeInv ==
    /\ held \subseteq Dns
    /\ HeapOK(node) /\ top \in DOMAIN node
    /\ ViewAgrees
    /\ PointersAreLive

LEMMA TreeFacts ==
    ASSUME TreeInv
    PROVE  /\ Len(node) \in Nat /\ DOMAIN node = 1 .. Len(node) /\ DOMAIN view = DOMAIN node
           /\ Shown \subseteq DOMAIN node /\ top \in Shown
           /\ \A o \in DOMAIN node : node[o] \in Objects
<1>1. /\ Len(node) \in Nat /\ DOMAIN node = 1 .. Len(node)
      /\ \A o \in DOMAIN node : node[o] \in Objects
  BY HeapType DEF TreeInv
<1>2. DOMAIN view = 1 .. Len(view)
  BY LenProperties DEF TreeInv, ViewAgrees, Views
<1>3. Shown \subseteq DOMAIN node /\ top \in Shown
  BY SubtreeRoot DEF TreeInv, Shown
<1> QED
  BY <1>1, <1>2, <1>3 DEF TreeInv, ViewAgrees, PointersAreLive

LEMMA RootObject ==
    /\ Object(Base, None, <<>>, FALSE, FALSE) \in Objects
    /\ Object(Base, None, <<>>, FALSE, FALSE).children = <<>>
    /\ ~Object(Base, None, <<>>, FALSE, FALSE).loaded
<1>1. <<>> \in Seq(Nat)
  BY EmptySeq
<1> QED
  BY <1>1 DEF Object, Objects

LEMMA TreeInit ==
    ASSUME Init
    PROVE  TreeInv
<1>1. held \subseteq Dns /\ top = 1 /\ current = 1 /\ table = 1 /\ used = {}
  BY DEF Init
<1> DEFINE r == Object(Base, None, <<>>, FALSE, FALSE)
           n == <<r>>
<1>2. PICK found \in Results(held, Base) : node = Constructed(n, 1, found)
  BY DEF Init
<1>3. found \in Seq(Dns)
  BY <1>1, ResultsType
<1>4. HeapOK(n) /\ 1 \in DOMAIN n /\ ~n[1].loaded /\ Len(n) = 1
  <2>1. r \in Objects /\ r.children = <<>> /\ ~r.loaded
    BY RootObject
  <2> HIDE DEF r
  <2>2. <<>> \in Seq(Objects) /\ Len(<<>>) = 0 /\ DOMAIN <<>> = {}
    BY EmptySeq
  <2>3. HeapOK(<<>>)
    BY <2>2 DEF HeapOK, Linked
  <2>4. n = Append(<<>>, r)
    OBVIOUS
  <2> HIDE DEF n
  <2>5. HeapOK(n)
    BY <2>1, <2>3, <2>4, AppendedHeap, Zenon
  <2>6. 1 \in DOMAIN n /\ ~n[1].loaded /\ Len(n) = 1
    BY <2>1 DEF n
  <2> QED
    BY <2>5, <2>6
<1> HIDE DEF n
<1>5. HeapOK(node) /\ Len(node) = 1 + Len(found)
  <2>1. HeapOK(node) /\ Len(node) = Len(n) + Len(found)
    <3>1. HeapOK(n) /\ 1 \in DOMAIN n /\ ~n[1].loaded
      BY <1>4
    <3>2. HasRead(n, 1, found, node)
      BY <1>2, <1>3, <3>1, ConstructedHeap, Zenon
    <3> QED
      BY <3>2 DEF HasRead
  <2> QED
    BY <1>4, <2>1
<1>6. /\ Len(node) \in Nat /\ DOMAIN node = 1 .. Len(node) /\ Len(found) \in Nat
      /\ \A o \in DOMAIN node : node[o] \in Objects
  BY <1>3, <1>5, HeapType, LenProperties
<1>7. Shown \subseteq DOMAIN node /\ top \in Shown /\ top \in DOMAIN node
  <2>1. top \in DOMAIN node
    BY <1>1, <1>5, <1>6
  <2> QED
    BY <2>1, SubtreeRoot DEF Shown
<1>8. view = [o \in 1 .. Len(node) |-> node[o].children] /\ live = 1 .. Len(node)
  BY DEF Init
<1>9. view \in Views /\ Len(view) = Len(node)
  <2>1. view \in [1 .. Len(node) -> Seq(Nat)]
    BY <1>6, <1>8 DEF Objects
  <2> QED
    BY <1>6, <2>1, RowsAreASequence DEF Views
<1> QED
  BY <1>1, <1>5, <1>6, <1>7, <1>8, <1>9 DEF TreeInv, ViewAgrees, PointersAreLive

(* A row is removed: its object and those below it are shown no more.      *)
LEMMA Removal ==
    ASSUME TreeInv, NEW c \in Shown, c # top, RemovesChild(c)
    PROVE  /\ HeapOK(node') /\ DOMAIN node' = DOMAIN node /\ live' = live
           /\ view' \in Views /\ Len(view') = Len(node')
           /\ Subtree(node', top) \subseteq Shown
           /\ Shown \subseteq Subtree(node', top) \cup Subtree(node, c)
           /\ node[c].parent \in Subtree(node', top)
           /\ \A o \in Subtree(node', top) : view'[o] = node'[o].children
<1> DEFINE p == node[c].parent
           s == node[p].children
           k == RowOf(node, c)
<1>1. /\ Len(node) \in Nat /\ DOMAIN node = 1 .. Len(node) /\ DOMAIN view = DOMAIN node
      /\ c \in DOMAIN node /\ top \in DOMAIN node /\ HeapOK(node)
  BY TreeFacts DEF TreeInv
<1>2. p \in Shown /\ c \in Range(s)
  BY <1>1, SubtreeParent DEF Shown
<1>3. p \in DOMAIN node
  BY <1>2, TreeFacts
<1>4. node' = WithChildren(node, p, RemoveFirst(s, c))
  BY DEF RemovesChild, WithChildren
<1>5. /\ HeapOK(node') /\ Len(node') = Len(node)
      /\ \A x \in DOMAIN node \ {p} : node'[x] = node[x]
      /\ k \in DOMAIN s
      /\ node'[p].children = RemoveAt(s, k)
      /\ Range(node'[p].children) = Range(s) \ {c}
  <2>1. p = node[c].parent /\ c \in Range(node[p].children)
    BY <1>2
  <2>2. node' = WithChildren(node, p, RemoveFirst(node[p].children, c))
    BY <1>4
  <2> HIDE DEF p, s, k
  <2>3. HeapOK(node) /\ c \in DOMAIN node /\ p \in DOMAIN node
    BY <1>1, <1>3
  <2>4. IsUnlinked(node, p, c, node')
    BY <2>1, <2>2, <2>3, UnlinkedHeap, Zenon
  <2> QED
    BY <2>4 DEF IsUnlinked, s, k
<1>6. DOMAIN node' = DOMAIN node
  BY <1>1, <1>5, HeapType
<1>7. /\ Subtree(node', top) \subseteq Shown
      /\ Shown \subseteq Subtree(node', top) \cup Subtree(node, c)
  BY <1>1, <1>3, <1>5, <1>6, UnlinkedSubtree DEF Shown
<1>8. p \in Subtree(node', top)
  <2>1. Subtree(node, c) \subseteq c .. Len(node)
    BY <1>1, SubtreeLater
  <2>2. c \in p + 1 .. Len(node)
    BY <1>1, <1>2, <1>3 DEF HeapOK, Linked
  <2>3. p \notin c .. Len(node)
    BY <1>1, <1>3, <2>2
  <2> QED
    BY <1>2, <1>7, <2>1, <2>3
<1>9. view[p] = s
  BY <1>2 DEF TreeInv, ViewAgrees
<1>10. view' = WithRows(view, p, RemoveAt(s, k))
  BY <1>9 DEF RemovesChild, WithRows
<1>11. RemoveAt(s, k) \in Seq(Nat)
  <2>1. s \in Seq(Nat)
    BY <1>3, TreeFacts DEF Objects
  <2>2. k \in 1 .. Len(s)
    BY <1>5, <2>1, LenProperties
  <2> QED
    BY <2>1, <2>2, RemoveAtElements
<1>12. /\ view' \in Views /\ Len(view') = Len(view)
       /\ view'[p] = RemoveAt(s, k) /\ \A x \in DOMAIN view \ {p} : view'[x] = view[x]
  <2>1. view \in Views /\ p \in DOMAIN view
    BY <1>1, <1>3 DEF TreeInv, ViewAgrees
  <2> HIDE DEF s, k, p
  <2> QED
    BY <1>10, <1>11, <2>1, RowsChanged
<1>13. ASSUME NEW o \in Subtree(node', top)
       PROVE  view'[o] = node'[o].children
  <2>1. o \in Shown /\ o \in DOMAIN node
    BY <1>7, TreeFacts
  <2>2. view[o] = node[o].children
    BY <2>1 DEF TreeInv, ViewAgrees
  <2> QED
    BY <1>1, <1>5, <1>12, <2>1, <2>2
<1>14. live' = live /\ Len(view) = Len(node)
  BY DEF RemovesChild, TreeInv, ViewAgrees
<1> QED
  BY <1>5, <1>6, <1>7, <1>8, <1>12, <1>13, <1>14

-----------------------------------------------------------------------------
(* Each step keeps the invariant.                                          *)

LEMMA ServerKeeps ==
    ASSUME TreeInv, NEW d \in Dns \ {Base}, ServerAdds(d) \/ ServerRemoves(d)
    PROVE  TreeInv'
<1>1. /\ held' \subseteq Dns /\ used' = {}
      /\ node' = node /\ live' = live /\ top' = top /\ view' = view
      /\ current' = current /\ table' = table
  BY DEF ServerAdds, ServerRemoves, TreeInv
<1>2. Shown' = Shown
  BY <1>1 DEF Shown
<1> QED
  BY <1>1, <1>2 DEF TreeInv, ViewAgrees, PointersAreLive

LEMMA ExpandKeeps ==
    ASSUME TreeInv, NEW o \in Shown, Expand(o)
    PROVE  TreeInv'
<1>1. /\ Len(node) \in Nat /\ DOMAIN node = 1 .. Len(node) /\ DOMAIN view = DOMAIN node
      /\ o \in DOMAIN node /\ HeapOK(node) /\ held \in SUBSET Dns
      /\ node[o] \in Objects /\ Len(view) = Len(node) /\ view \in Views
  BY TreeFacts DEF TreeInv, ViewAgrees
<1>2. ~node[o].loaded
  BY DEF Expand
<1>3. PICK found \in Results(held, node[o].dn) :
          /\ node' = Constructed(node, o, found)
          /\ view' = [Grow(view, node') EXCEPT
                         ![o] = Announced(view, node', o, 0, Len(node'[o].children))]
          /\ live' = live \cup Len(node) + 1 .. Len(node')
          /\ used' = {o}
          /\ UNCHANGED <<held, top, current, table>>
  BY DEF Expand
<1>4. found \in Seq(Dns) /\ Len(found) \in Nat
  BY <1>1, ResultsType, LenProperties
<1>5. HasRead(node, o, found, node')
  <2>1. HeapOK(node) /\ o \in DOMAIN node /\ ~node[o].loaded
    BY <1>1, <1>2
  <2> QED
    BY <1>3, <1>4, <2>1, ConstructedHeap, Zenon
<1> DEFINE told == node'[o].children
<1>6. /\ HeapOK(node') /\ Len(node') \in Nat /\ Len(node) <= Len(node')
      /\ DOMAIN node' = 1 .. Len(node')
      /\ told \in Seq(Nat) /\ Range(told) = Len(node) + 1 .. Len(node')
  <2>1. /\ HeapOK(node') /\ Len(node') = Len(node) + Len(found)
        /\ told \in Seq(Nat) /\ Range(told) = Len(node) + 1 .. Len(node')
    BY <1>5 DEF HasRead
  <2>2. DOMAIN node' = 1 .. Len(node')
    BY <2>1, HeapType
  <2> QED
    BY <1>1, <1>4, <2>1, <2>2
<1>7. DOMAIN node \subseteq DOMAIN node' /\ DOMAIN node' \ DOMAIN node = Len(node) + 1 .. Len(node')
  BY <1>1, <1>6
<1>8. /\ \A x \in DOMAIN node \ {o} : node'[x] = node[x]
      /\ \A x \in DOMAIN node' \ DOMAIN node : node'[x].children = <<>>
      /\ node[o].children = <<>>
  <2>1. node[o].children = <<>>
    BY <1>1, <1>2 DEF HeapOK, Linked
  <2> QED
    BY <1>5, <1>7, <2>1 DEF HasRead
<1>9. Range(<<>>) = {}
  BY DEF Range
<1>10. Shown \subseteq Subtree(node', top)
  <2>1. \A x \in DOMAIN node : Range(node[x].children) \subseteq Range(node'[x].children)
    BY <1>8, <1>9
  <2> QED
    BY <1>1, <1>6, <1>7, <2>1, SubtreeGrows DEF TreeInv, Shown
<1>11. Subtree(node', top) \subseteq Shown \cup (DOMAIN node' \ DOMAIN node)
  <2>1. \A x \in DOMAIN node :
            Range(node'[x].children) \subseteq
                Range(node[x].children) \cup (DOMAIN node' \ DOMAIN node)
    BY <1>6, <1>7, <1>8
  <2>2. \A x \in DOMAIN node' \ DOMAIN node : Range(node'[x].children) = {}
    BY <1>8, <1>9
  <2> QED
    BY <1>1, <1>6, <1>7, <2>1, <2>2, SubtreeGrowsBy DEF TreeInv, Shown
<1>12. /\ Grow(view, node') \in Views /\ Len(Grow(view, node')) = Len(node')
       /\ DOMAIN Grow(view, node') = 1 .. Len(node')
       /\ \A x \in DOMAIN view : Grow(view, node')[x] = view[x]
       /\ \A x \in Len(node) + 1 .. Len(node') : Grow(view, node')[x] = <<>>
  BY <1>1, <1>6, GrownView
<1>13. Announced(view, node', o, 0, Len(node'[o].children)) = told
  <2>1. view[o] = <<>>
    BY <1>8 DEF TreeInv, ViewAgrees
  <2>2. told \in Seq(Nat) /\ node'[o].children = told
    BY <1>6
  <2> HIDE DEF told
  <2>3. Announced(view, node', o, 0, Len(told)) = told
    BY <2>1, <2>2, FirstRows
  <2> QED
    BY <2>3 DEF told
<1>14. view' = WithRows(Grow(view, node'), o, told)
  BY <1>3, <1>13 DEF WithRows
<1> HIDE DEF told
<1>15. /\ view' \in Views /\ Len(view') = Len(node') /\ view'[o] = told
       /\ \A x \in 1 .. Len(node') \ {o} : view'[x] = Grow(view, node')[x]
  <2>1. o \in DOMAIN Grow(view, node')
    BY <1>1, <1>6, <1>12
  <2> DEFINE w == Grow(view, node')
  <2>2. w \in Views /\ Len(w) = Len(node') /\ DOMAIN w = 1 .. Len(node') /\ o \in DOMAIN w
    BY <1>12, <2>1
  <2>3. view' = WithRows(w, o, told)
    BY <1>14
  <2> HIDE DEF w
  <2>4. /\ view' \in Views /\ Len(view') = Len(w)
        /\ view'[o] = told /\ \A x \in DOMAIN w \ {o} : view'[x] = w[x]
    <3>1. w \in Views /\ o \in DOMAIN w /\ told \in Seq(Nat)
      BY <1>6, <2>2
    <3> QED
      BY <2>3, <3>1, RowsChanged
  <2> QED
    BY <2>2, <2>4 DEF w
<1>16. ASSUME NEW x \in Subtree(node', top)
       PROVE  view'[x] = node'[x].children
  <2>1. CASE x = o
    BY <1>15, <2>1 DEF told
  <2>2. CASE x \in Shown \ {o}
    <3>1. x \in DOMAIN node /\ view[x] = node[x].children
      BY <2>2, TreeFacts DEF TreeInv, ViewAgrees
    <3>2. x \in 1 .. Len(node') \ {o} /\ x \in DOMAIN view
      BY <1>1, <1>6, <2>2, <3>1
    <3> QED
      BY <1>8, <1>12, <1>15, <2>2, <3>1, <3>2
  <2>3. CASE x \in DOMAIN node' \ DOMAIN node
    <3>1. x \in Len(node) + 1 .. Len(node') /\ x \in 1 .. Len(node') \ {o}
      BY <1>1, <1>6, <1>7, <2>3
    <3> QED
      BY <1>8, <1>12, <1>15, <2>3, <3>1
  <2> QED
    BY <1>11, <2>1, <2>2, <2>3
<1>17. Shown' = Subtree(node', top)
  BY <1>3 DEF Shown
<1>18. ViewAgrees'
  BY <1>15, <1>16, <1>17 DEF ViewAgrees
<1>19. PointersAreLive'
  <2>1. live' = live \cup (DOMAIN node' \ DOMAIN node)
    BY <1>3, <1>7
  <2>2. o \in live /\ used' = {o} /\ current' = current /\ table' = table
    BY <1>3 DEF TreeInv, PointersAreLive
  <2> QED
    BY <1>7, <1>10, <1>11, <1>17, <2>1, <2>2 DEF TreeInv, PointersAreLive
<1>20. held' \subseteq Dns /\ top' \in DOMAIN node'
  BY <1>3, <1>7 DEF TreeInv
<1> QED
  BY <1>6, <1>18, <1>19, <1>20 DEF TreeInv

LEMMA SelectSavedKeeps ==
    ASSUME TreeInv, NEW o \in Shown, SelectSaved(o)
    PROVE  TreeInv'
<1>1. /\ DOMAIN node = 1 .. Len(node) /\ HeapOK(node)
      /\ live' = live /\ top' = top /\ view' = view /\ current' = o /\ table' = o
      /\ used' = {o} \cup ({table} \ {None})
  BY TreeFacts DEF TreeInv, SelectSaved, Arrives
<1>2. held' \subseteq Dns
  <2>1. CASE Asks
    <3>1. table \in DOMAIN node
      BY <2>1 DEF Asks, TreeInv, PointersAreLive, TableIsNew
    <3>2. node[table].dn \in Dns
      BY <3>1, TreeFacts DEF Objects
    <3> QED
      BY <2>1, <3>2 DEF SelectSaved, Asks, AfterSave, TreeInv
  <2>2. CASE ~Asks
    BY <2>2 DEF SelectSaved, TreeInv
  <2> QED
    BY <2>1, <2>2
<1>3. SameTree(node, node')
  <2>1. CASE Asks
    <3>1. table \in DOMAIN node /\ node' = Saved(node, table)
      BY <2>1 DEF Asks, TreeInv, PointersAreLive, TableIsNew, SelectSaved, Saved
    <3> QED
      BY <1>1, <3>1, SavedHeap
  <2>2. CASE ~Asks
    BY <1>1, <2>2 DEF SelectSaved, SameTree
  <2> QED
    BY <2>1, <2>2
<1>4. /\ HeapOK(node') /\ Len(node') = Len(node) /\ DOMAIN node' = DOMAIN node
      /\ \A x \in DOMAIN node : node'[x].children = node[x].children
  BY <1>1, <1>3, HeapType DEF SameTree
<1>5. Shown' = Shown
  <2>1. top \in DOMAIN node /\ top \in DOMAIN node'
    BY <1>4 DEF TreeInv
  <2>2. Subtree(node, top) \subseteq Subtree(node', top)
    <3>1. \A x \in DOMAIN node : Range(node[x].children) \subseteq Range(node'[x].children)
      BY <1>4
    <3> QED
      BY <1>1, <1>4, <2>1, <3>1, SubtreeGrows
  <2>3. Subtree(node', top) \subseteq Subtree(node, top)
    <3>1. \A x \in DOMAIN node' : Range(node'[x].children) \subseteq Range(node[x].children)
      BY <1>4
    <3> QED
      BY <1>1, <1>4, <2>1, <3>1, SubtreeGrows
  <2> QED
    BY <1>1, <2>2, <2>3 DEF Shown
<1>6. ViewAgrees'
  BY <1>1, <1>4, <1>5, TreeFacts DEF ViewAgrees, TreeInv
<1>7. PointersAreLive'
  BY <1>1, <1>4, <1>5 DEF PointersAreLive, TreeInv
<1> QED
  BY <1>1, <1>2, <1>4, <1>6, <1>7 DEF TreeInv

LEMMA SelectRefusedKeeps ==
    ASSUME TreeInv, NEW o \in Shown, SelectRefused(o)
    PROVE  TreeInv'
<1>1. /\ held' = held /\ node' = node /\ live' = live /\ top' = top /\ view' = view
      /\ table' = table /\ current' = o /\ used' = {table} /\ table # None
  BY DEF SelectRefused, Asks, TableIsNew
<1>2. Shown' = Shown
  BY <1>1 DEF Shown
<1> QED
  BY <1>1, <1>2 DEF TreeInv, ViewAgrees, PointersAreLive

(* The three commands that remove a row.                                   *)
LEMMA RemovalKeeps ==
    ASSUME TreeInv, NEW c \in Shown, c # top, RemovesChild(c),
           top' = top, held' \subseteq Dns,
           current' \in Subtree(node', top) \cup {None},
           table' \in live \cup {None}, used' \subseteq live
    PROVE  TreeInv'
<1>1. /\ HeapOK(node') /\ DOMAIN node' = DOMAIN node /\ live' = live
      /\ view' \in Views /\ Len(view') = Len(node')
      /\ Subtree(node', top) \subseteq Shown
      /\ \A o \in Subtree(node', top) : view'[o] = node'[o].children
  BY Removal
<1>2. Shown' = Subtree(node', top)
  BY DEF Shown
<1>3. ViewAgrees'
  BY <1>1, <1>2 DEF ViewAgrees
<1>4. PointersAreLive'
  BY <1>1, <1>2 DEF PointersAreLive, TreeInv
<1>5. top' \in DOMAIN node'
  BY <1>1 DEF TreeInv
<1> QED
  BY <1>1, <1>3, <1>4, <1>5 DEF TreeInv

LEMMA SelectGivenUpKeeps ==
    ASSUME TreeInv, NEW o \in Shown, SelectGivenUp(o)
    PROVE  TreeInv'
<1>1. /\ current \in Shown /\ table' = o /\ used' = {o} \cup ({table} \ {None})
      /\ held' = held /\ top' = top
  BY DEF SelectGivenUp, Arrives, Asks, TreeInv, PointersAreLive
<1>2. o \in live /\ used' \subseteq live
  BY <1>1 DEF TreeInv, PointersAreLive
<1>3. CASE current = top
  <2>1. node' = node /\ live' = live /\ view' = view /\ current' = o
    BY <1>3 DEF SelectGivenUp
  <2>2. Shown' = Shown
    BY <1>1, <2>1 DEF Shown
  <2> QED
    BY <1>1, <1>2, <2>1, <2>2 DEF TreeInv, ViewAgrees, PointersAreLive
<1>4. CASE current # top
  <2>1. /\ RemovesChild(current)
        /\ current' = IF o \in Subtree(node, current) THEN None ELSE o
    BY <1>4 DEF SelectGivenUp
  <2>2. current' \in Subtree(node', top) \cup {None}
    <3>1. Shown \subseteq Subtree(node', top) \cup Subtree(node, current)
      BY <1>1, <1>4, <2>1, Removal
    <3> QED
      BY <2>1, <3>1
  <2>3. held' \subseteq Dns /\ table' \in live \cup {None}
    BY <1>1, <1>2 DEF TreeInv
  <2> QED
    BY <1>1, <1>2, <1>4, <2>1, <2>2, <2>3, RemovalKeeps
<1> QED
  BY <1>3, <1>4

LEMMA DeleteEntryKeeps ==
    ASSUME TreeInv, DeleteEntry
    PROVE  TreeInv'
<1>1. /\ current # top /\ RemovesChild(current) /\ held' \subseteq held /\ top' = top
      /\ current' = node[current].parent /\ table' = current' /\ used' = {current'}
  BY DEF DeleteEntry
<1>2. current \in Shown /\ held \subseteq Dns
  BY DEF TreeInv, PointersAreLive, DeleteEntry
<1>3. current' \in Subtree(node', top) /\ current' \in Shown
  BY <1>1, <1>2, Removal
<1>4. current' \in live
  BY <1>3 DEF TreeInv, PointersAreLive
<1>5. held' \subseteq Dns /\ table' \in live \cup {None} /\ used' \subseteq live
  BY <1>1, <1>2, <1>4
<1> QED
  BY <1>1, <1>2, <1>3, <1>5, RemovalKeeps

LEMMA RevertNewKeeps ==
    ASSUME TreeInv, RevertNew
    PROVE  TreeInv'
<1>1. /\ current # top /\ RemovesChild(current) /\ held' = held /\ top' = top
      /\ current' = node[current].parent /\ table' = None /\ used' = {current, table}
      /\ table # None
  BY DEF RevertNew, TableIsNew
<1>2. current \in Shown /\ held \subseteq Dns
  BY DEF TreeInv, PointersAreLive, RevertNew
<1>3. current' \in Subtree(node', top)
  BY <1>1, <1>2, Removal
<1>4. current \in live /\ table \in live
  BY <1>1, <1>2 DEF TreeInv, PointersAreLive
<1>5. held' \subseteq Dns /\ table' \in live \cup {None} /\ used' \subseteq live
  BY <1>1, <1>2, <1>4
<1> QED
  BY <1>1, <1>2, <1>3, <1>5, RemovalKeeps

LEMMA RevertOnRootKeeps ==
    ASSUME TreeInv, RevertOnRoot
    PROVE  TreeInv'
<1>1. /\ held' = held /\ node' = node /\ live' = live /\ top' = top /\ view' = view
      /\ current' = current /\ table' = table
      /\ used' = {top, table} /\ table # None
  BY DEF RevertOnRoot, TableIsNew
<1>2. Shown' = Shown
  BY <1>1 DEF Shown
<1>3. used' \subseteq live
  <2>1. top \in Shown
    BY TreeFacts
  <2> QED
    BY <1>1, <2>1 DEF TreeInv, PointersAreLive
<1> QED
  BY <1>1, <1>2, <1>3 DEF TreeInv, ViewAgrees, PointersAreLive

LEMMA NewEntryKeeps ==
    ASSUME TreeInv, NEW d \in Dns \ {Base}, NewEntry(d)
    PROVE  TreeInv'
<1> DEFINE o == Len(node) + 1
           x == Object(d, current, <<>>, FALSE, TRUE)
           s == node[current].children
<1>1. /\ Len(node) \in Nat /\ DOMAIN node = 1 .. Len(node) /\ DOMAIN view = DOMAIN node
      /\ current \in DOMAIN node /\ HeapOK(node) /\ node[current] \in Objects
      /\ current \in Nat /\ current \in Shown
      /\ view \in Views /\ Len(view) = Len(node) /\ view[current] = s
  <2>1. current \in Shown
    BY DEF TreeInv, PointersAreLive, NewEntry
  <2> QED
    BY <2>1, TreeFacts DEF TreeInv, ViewAgrees
<1>2. s \in Seq(Nat)
  BY <1>1 DEF Objects
<1>3. x \in Objects /\ x.children = <<>> /\ x.parent = current
  <2>1. <<>> \in Seq(Nat)
    BY EmptySeq
  <2> QED
    BY <1>1, <2>1 DEF Object, Objects
<1>4. node' = Append(WithChildren(node, current, Append(s, o)), x)
  BY DEF NewEntry, WithChildren
<1>5. /\ node[current].loaded /\ live' = live \cup {o} /\ current' = o
      /\ table' = o /\ used' = {o} \cup ({table} \ {None})
      /\ held' = held /\ top' = top
      /\ view' = [Grow(view, node') EXCEPT
                     ![current] = Announced(view, node', current, RowCount(node, current), 1)]
  BY DEF NewEntry, Arrives
<1> HIDE DEF x
<1>6. HasNew(node, current, o, x, node')
  <2>1. HeapOK(node) /\ current \in DOMAIN node /\ node[current].loaded
    BY <1>1, <1>5
  <2>2. o = Len(node) + 1
    OBVIOUS
  <2>3. node' = Append(WithChildren(node, current, Append(node[current].children, o)), x)
    BY <1>4
  <2> HIDE DEF o, s
  <2> DEFINE changed == WithChildren(node, current, Append(node[current].children, o))
  <2>4. changed = WithChildren(node, current, Append(node[current].children, o))
    OBVIOUS
  <2>5. node' = Append(changed, x)
    BY <2>3
  <2> HIDE DEF changed
  <2> QED
    BY <1>3, <2>1, <2>2, <2>4, <2>5, NewHeap, Zenon
<1>7. /\ HeapOK(node') /\ Len(node') = o /\ node'[o] = x /\ DOMAIN node' = 1 .. o
      /\ \A y \in DOMAIN node \ {current} : node'[y] = node[y]
      /\ node'[current].children = Append(s, o)
      /\ Range(node'[current].children) = Range(s) \cup {o}
  <2>1. HeapOK(node')
    BY <1>6 DEF HasNew
  <2>2. DOMAIN node' = 1 .. Len(node')
    BY <2>1, HeapType
  <2> QED
    BY <1>6, <2>1, <2>2 DEF HasNew
<1>8. DOMAIN node \subseteq DOMAIN node' /\ DOMAIN node' \ DOMAIN node = {o} /\ o \in Nat
  BY <1>1, <1>7
<1> HIDE DEF o
<1>9. node'[o].children = <<>> /\ Range(<<>>) = {}
  BY <1>3, <1>7 DEF Range
<1>10. Shown \subseteq Subtree(node', top)
  <2>1. \A y \in DOMAIN node : Range(node[y].children) \subseteq Range(node'[y].children)
    <3> TAKE y \in DOMAIN node
    <3>1. CASE y = current
      BY <1>7, <3>1
    <3>2. CASE y # current
      BY <1>7, <3>2
    <3> QED
      BY <3>1, <3>2
  <2> QED
    BY <1>1, <1>7, <1>8, <2>1, SubtreeGrows DEF TreeInv, Shown
<1>11. Subtree(node', top) \subseteq Shown \cup {o}
  <2>1. \A y \in DOMAIN node :
            Range(node'[y].children) \subseteq
                Range(node[y].children) \cup (DOMAIN node' \ DOMAIN node)
    <3> TAKE y \in DOMAIN node
    <3>1. CASE y = current
      BY <1>7, <1>8, <3>1
    <3>2. CASE y # current
      BY <1>7, <3>2
    <3> QED
      BY <3>1, <3>2
  <2>2. \A y \in DOMAIN node' \ DOMAIN node : Range(node'[y].children) = {}
    BY <1>8, <1>9
  <2>3. Subtree(node', top) \subseteq Subtree(node, top) \cup (DOMAIN node' \ DOMAIN node)
    BY <1>1, <1>7, <1>8, <2>1, <2>2, SubtreeGrowsBy DEF TreeInv
  <2> QED
    BY <1>8, <2>3 DEF Shown
<1>12. o \in Subtree(node', top)
  <2>1. current \in Subtree(node', top)
    BY <1>1, <1>10
  <2>2. Range(node'[current].children) \subseteq Subtree(node', top)
    BY <1>7, <2>1, SubtreeClosed
  <2> QED
    BY <1>7, <2>2
<1>13. /\ Grow(view, node') \in Views /\ Len(Grow(view, node')) = o
       /\ DOMAIN Grow(view, node') = 1 .. o
       /\ \A y \in DOMAIN view : Grow(view, node')[y] = view[y]
       /\ \A y \in Len(view) + 1 .. o : Grow(view, node')[y] = <<>>
  <2>1. Len(node') \in Nat /\ Len(view) <= Len(node') /\ Len(node') = o
    BY <1>1, <1>7 DEF o
  <2> QED
    BY <1>1, <2>1, GrownView
<1> DEFINE told == Append(s, o)
<1>14. told \in Seq(Nat)
  BY <1>2, <1>8, AppendProperties
<1>15. Announced(view, node', current, RowCount(node, current), 1) = told
  <2>1. RowCount(node, current) = Len(s)
    BY <1>5 DEF RowCount
  <2>2. view[current] = s /\ node'[current].children = told /\ o \in Nat /\ told = Append(s, o)
    BY <1>1, <1>7, <1>8
  <2> HIDE DEF s, told
  <2>3. SubSeq(s, 1, Len(s)) = s /\ SubSeq(s, Len(s) + 1, Len(s)) = <<>>
    <3>1. Len(s) \in Nat
      BY <1>2, LenProperties
    <3> QED
      BY <1>2, <3>1, SubSeqFull, SubSeqEmpty
  <2>4. SubSeq(told, Len(s) + 1, Len(s) + 1) = <<o>> /\ s \o <<o>> \o <<>> = told
    BY <1>2, <2>2, LastOfAppend
  <2>5. Announced(view, node', current, Len(s), 1) = told
    BY <2>2, <2>3, <2>4 DEF Announced
  <2> QED
    BY <2>1, <2>5
<1> HIDE DEF told
<1>16. /\ view' \in Views /\ Len(view') = o /\ view'[current] = told
       /\ \A y \in 1 .. o \ {current} : view'[y] = Grow(view, node')[y]
  <2> DEFINE w == Grow(view, node')
  <2>1. w \in Views /\ Len(w) = o /\ DOMAIN w = 1 .. o /\ current \in DOMAIN w
    BY <1>1, <1>7, <1>8, <1>13
  <2>2. view' = WithRows(w, current, told)
    BY <1>5, <1>15 DEF WithRows
  <2> HIDE DEF w
  <2>3. /\ view' \in Views /\ Len(view') = Len(w)
        /\ view'[current] = told /\ \A y \in DOMAIN w \ {current} : view'[y] = w[y]
    <3>1. w \in Views /\ current \in DOMAIN w /\ told \in Seq(Nat)
      BY <1>14, <2>1
    <3> QED
      BY <2>2, <3>1, RowsChanged
  <2> QED
    BY <2>1, <2>3 DEF w
<1>17. ASSUME NEW y \in Subtree(node', top)
       PROVE  view'[y] = node'[y].children
  <2>1. CASE y = current
    BY <1>7, <1>16, <2>1 DEF told
  <2>2. CASE y = o
    <3>1. o \in Len(view) + 1 .. o /\ o \in 1 .. o \ {current}
      BY <1>1 DEF o
    <3> QED
      BY <1>9, <1>13, <1>16, <2>2, <3>1
  <2>3. CASE y \in Shown \ {current}
    <3>1. y \in DOMAIN node /\ view[y] = node[y].children
      BY <2>3, TreeFacts DEF TreeInv, ViewAgrees
    <3>2. y \in 1 .. o \ {current} /\ y \in DOMAIN view
      BY <1>1, <1>7, <1>8, <2>3, <3>1
    <3> QED
      BY <1>7, <1>13, <1>16, <2>3, <3>1, <3>2
  <2> QED
    BY <1>11, <2>1, <2>2, <2>3
<1>18. Shown' = Subtree(node', top)
  BY <1>5 DEF Shown
<1>19. ViewAgrees'
  BY <1>7, <1>16, <1>17, <1>18 DEF ViewAgrees
<1>20. PointersAreLive'
  BY <1>5, <1>7, <1>8, <1>11, <1>12, <1>18 DEF TreeInv, PointersAreLive
<1>21. held' \subseteq Dns /\ top' \in DOMAIN node'
  BY <1>5, <1>8 DEF TreeInv
<1> QED
  BY <1>7, <1>19, <1>20, <1>21 DEF TreeInv

LEMMA ReloadKeeps ==
    ASSUME TreeInv, Reload
    PROVE  TreeInv'
<1> DEFINE o == Len(node) + 1
           r == Object(Base, None, <<>>, FALSE, FALSE)
           n == Append(node, r)
<1>1. Len(node) \in Nat /\ DOMAIN node = 1 .. Len(node) /\ HeapOK(node) /\ o \in Nat
  BY TreeFacts DEF TreeInv
<1>2. PICK names \in AfterSave : \E found \in Results(names, Base) :
          /\ table # None
          /\ held' = names
          /\ node' = Constructed(n, o, found)
          /\ live' = (live \ Shown) \cup o .. Len(node')
          /\ top' = o
          /\ view' = [i \in 1 .. Len(node') |-> IF i = o THEN node'[o].children ELSE <<>>]
          /\ current' = o
          /\ table' = o /\ used' = {o}
  BY DEF Reload
<1>3. PICK found \in Results(names, Base) :
          /\ table # None
          /\ held' = names
          /\ node' = Constructed(n, o, found)
          /\ live' = (live \ Shown) \cup o .. Len(node')
          /\ top' = o
          /\ view' = [i \in 1 .. Len(node') |-> IF i = o THEN node'[o].children ELSE <<>>]
          /\ current' = o
          /\ table' = o /\ used' = {o}
  BY <1>2
<1>4. names \subseteq Dns
  <2>1. table \in DOMAIN node
    BY <1>3 DEF TreeInv, PointersAreLive
  <2>2. node[table].dn \in Dns
    BY <2>1, TreeFacts DEF Objects
  <2> QED
    BY <2>2 DEF AfterSave, TreeInv
<1>5. found \in Seq(Dns) /\ Len(found) \in Nat
  BY <1>4, ResultsType, LenProperties
<1>6. HeapOK(n) /\ Len(n) = o /\ o \in DOMAIN n /\ ~n[o].loaded
  <2>1. r \in Objects /\ r.children = <<>> /\ ~r.loaded
    BY RootObject
  <2> HIDE DEF r
  <2>2. HeapOK(n) /\ Len(n) = Len(node) + 1 /\ n[Len(node) + 1] = r
    <3>1. node \in Seq(Objects)
      BY <1>1 DEF HeapOK
    <3>2. Len(n) = Len(node) + 1 /\ n[Len(node) + 1] = r
      BY <2>1, <3>1, AppendProperties
    <3>3. n = Append(node, r)
      OBVIOUS
    <3> HIDE DEF n, o
    <3>4. HeapOK(n)
      BY <1>1, <2>1, <3>3, AppendedHeap, Zenon
    <3> QED
      BY <3>2, <3>4
  <2> HIDE DEF n
  <2>3. DOMAIN n = 1 .. Len(n)
    BY <2>2, HeapType
  <2> QED
    BY <1>1, <2>1, <2>2, <2>3
<1> HIDE DEF n, o
<1>7. HasRead(n, o, found, node')
  <2>1. HeapOK(n) /\ o \in DOMAIN n /\ ~n[o].loaded /\ node' = Constructed(n, o, found)
    BY <1>3, <1>6
  <2> QED
    BY <1>5, <2>1, ConstructedHeap, Zenon
<1>8. /\ HeapOK(node') /\ Len(node') = o + Len(found) /\ DOMAIN node' = 1 .. Len(node')
      /\ Len(node') \in Nat /\ o \in DOMAIN node' /\ node'[o].children \in Seq(Nat)
      /\ \A x \in o + 1 .. Len(node') : node'[x].children = <<>>
  <2>1. /\ HeapOK(node') /\ Len(node') = o + Len(found)
        /\ node'[o].children \in Seq(Nat)
        /\ \A x \in o + 1 .. Len(node') : node'[x].children = <<>>
    BY <1>6, <1>7 DEF HasRead
  <2>2. DOMAIN node' = 1 .. Len(node')
    BY <2>1, HeapType
  <2>3. o >= 1
    BY <1>1 DEF o
  <2> QED
    BY <1>1, <1>5, <2>1, <2>2, <2>3
<1>9. Subtree(node', o) \subseteq o .. Len(node') /\ o \in Subtree(node', o)
  BY <1>8, SubtreeLater, SubtreeRoot
<1>10. Shown' = Subtree(node', o)
  BY <1>3 DEF Shown
<1>11. view' \in Views /\ Len(view') = Len(node')
  <2>1. <<>> \in Seq(Nat)
    BY EmptySeq
  <2>2. view' \in [1 .. Len(node') -> Seq(Nat)]
    BY <1>3, <1>8, <2>1
  <2> QED
    BY <1>8, <2>2, RowsAreASequence DEF Views
<1>12. ASSUME NEW x \in Subtree(node', o)
       PROVE  view'[x] = node'[x].children
  <2>1. x \in o .. Len(node') /\ x \in 1 .. Len(node')
    BY <1>1, <1>8, <1>9
  <2>2. CASE x = o
    BY <1>3, <2>1, <2>2
  <2>3. CASE x # o
    <3>1. x \in o + 1 .. Len(node')
      BY <1>1, <1>8, <2>1, <2>3
    <3> QED
      BY <1>3, <1>8, <2>1, <2>3, <3>1
  <2> QED
    BY <2>2, <2>3
<1>13. ViewAgrees'
  BY <1>10, <1>11, <1>12 DEF ViewAgrees
<1>14. PointersAreLive'
  <2>1. o .. Len(node') \subseteq DOMAIN node'
    BY <1>1, <1>8
  <2>2. live \subseteq DOMAIN node'
    <3>1. DOMAIN node \subseteq DOMAIN node'
      BY <1>1, <1>5, <1>8 DEF o
    <3> QED
      BY <3>1 DEF TreeInv, PointersAreLive
  <2>3. live' \subseteq DOMAIN node' /\ o .. Len(node') \subseteq live'
    BY <1>3, <2>1, <2>2
  <2> QED
    BY <1>3, <1>9, <1>10, <2>3 DEF PointersAreLive
<1> QED
  BY <1>3, <1>4, <1>8, <1>13, <1>14 DEF TreeInv

-----------------------------------------------------------------------------
LEMMA TreeStep ==
    ASSUME TreeInv, [Next]_vars
    PROVE  TreeInv'
<1>1. CASE UNCHANGED vars
  BY <1>1 DEF vars, TreeInv, ViewAgrees, PointersAreLive, Shown
<1>2. ASSUME NEW d \in Dns \ {Base}, ServerAdds(d) \/ ServerRemoves(d) \/ NewEntry(d)
      PROVE  TreeInv'
  BY <1>2, ServerKeeps, NewEntryKeeps
<1>3. ASSUME NEW o \in Shown,
             Expand(o) \/ SelectSaved(o) \/ SelectRefused(o) \/ SelectGivenUp(o)
      PROVE  TreeInv'
  BY <1>3, ExpandKeeps, SelectSavedKeeps, SelectRefusedKeeps, SelectGivenUpKeeps
<1>4. CASE DeleteEntry \/ RevertNew \/ RevertOnRoot \/ Reload
  BY <1>4, DeleteEntryKeeps, RevertNewKeeps, RevertOnRootKeeps, ReloadKeeps
<1> QED
  BY <1>1, <1>2, <1>3, <1>4 DEF Next

LEMMA TreeHolds == Spec => []TreeInv
<1>1. Init => TreeInv
  BY TreeInit
<1>2. TreeInv /\ [Next]_vars => TreeInv'
  BY TreeStep
<1> QED
  BY <1>1, <1>2, PTL DEF Spec

(* The rows that CLdapTreeModel announced, of every entry in the tree, are *)
(* at all times those it answers when asked: expanding, new, deleted,      *)
(* given up and reloaded entries, with other clients at work, never leave  *)
(* the proxy with a row too many or too few.                               *)
THEOREM RowsAlwaysAnnounced == Spec => []RowsAreAnnounced
<1>1. TreeInv => RowsAreAnnounced
  <2> SUFFICES ASSUME TreeInv, NEW o \in Shown
               PROVE  view[o] = SubSeq(node[o].children, 1, RowCount(node, o))
    BY DEF RowsAreAnnounced
  <2> DEFINE s == node[o].children
  <2>1. o \in DOMAIN node /\ node[o] \in Objects /\ view[o] = s
    BY TreeFacts DEF TreeInv, ViewAgrees
  <2>2. s \in Seq(Nat)
    BY <2>1 DEF Objects
  <2>3. RowCount(node, o) = Len(s)
    <3>1. CASE node[o].loaded
      BY <3>1 DEF RowCount
    <3>2. CASE ~node[o].loaded
      <4>1. s = <<>>
        BY <2>1, <3>2 DEF TreeInv, HeapOK, Linked
      <4> QED
        BY <3>2, <4>1, EmptySeq DEF RowCount
    <3> QED
      BY <3>1, <3>2
  <2>4. SubSeq(s, 1, Len(s)) = s
    BY <2>2, SubSeqFull
  <2> QED
    BY <2>1, <2>3, <2>4
<1> QED
  BY <1>1, TreeHolds, PTL

(* No command follows a pointer to an object that was deleted: what the    *)
(* tree, the selection and the attribute table refer to is allocated at    *)
(* all times, as removeChild only unlinks, and a reload deletes only what  *)
(* it then replaces.                                                       *)
THEOREM UsesAlwaysLive == Spec => []UsesAreLive
<1>1. TreeInv => UsesAreLive
  BY TreeFacts DEF TreeInv, PointersAreLive, UsesAreLive
<1> QED
  BY <1>1, TreeHolds, PTL

HIDE TreeAssumption

(***************************************************************************)
(* Accounts.  First what the loop over the members of a group makes of the *)
(* table's rows; of the types only those of the two copies of the entry    *)
(* and of the rows are needed.                                             *)
(***************************************************************************)

\* match finds the first row with a value, and removeRows takes it out.
LEMMA FirstRowRemoved ==
    ASSUME NEW ts \in Seq(Row), NEW d \in Values(ts)
    PROVE  \E a, b \in Seq(Row), r \in Row :
               /\ r.value = d /\ d \notin Values(a)
               /\ ts = (a \o <<r>>) \o b
               /\ WithoutFirst(ts, d) = a \o b
<1> DEFINE I == {i \in 1 .. Len(ts) : ts[i].value = d}
<1>1. I \in SUBSET Nat /\ I # {}
  BY DEF Values
<1>2. FirstRow(ts, d) = CHOOSE x \in I : \A y \in I : x <= y
  BY <1>1 DEF FirstRow, SelectInSeq, Min
<1>3. \E x \in I : \A y \in I : x <= y
  <2> HIDE DEF I
  <2> QED
    BY <1>1, LeastOf
<1> DEFINE k == FirstRow(ts, d)
<1>4. k \in I /\ \A y \in I : k <= y
  BY <1>2, <1>3
<1> HIDE DEF k
<1>5. k \in 1 .. Len(ts) /\ ts[k].value = d /\ k # 0 /\ ts[k] \in Row
  BY <1>4
<1> DEFINE a == SubSeq(ts, 1, k - 1)
           b == SubSeq(ts, k + 1, Len(ts))
<1>6. /\ a \in Seq(Row) /\ b \in Seq(Row) /\ ts = (a \o <<ts[k]>>) \o b
      /\ Range(a) = {ts[j] : j \in 1 .. k - 1}
  BY <1>5, AroundAnElement, ZenonT(30)
<1>7. d \notin Values(a)
  <2>1. Values(a) = {x.value : x \in Range(a)}
    BY DEF Values, Range
  <2>2. ASSUME NEW j \in 1 .. k - 1 PROVE ts[j].value # d
    <3>1. j \in 1 .. Len(ts) /\ ~(k <= j)
      BY <1>5
    <3> QED
      BY <1>4, <3>1
  <2> QED
    BY <1>6, <2>1, <2>2
<1>8. WithoutFirst(ts, d) = a \o b
  BY <1>5 DEF WithoutFirst, RemoveAt, k
<1> HIDE DEF a, b
<1> QED
  BY <1>5, <1>6, <1>7, <1>8

\* Sublists of what is around a row.
LEMMA RowsAround ==
    ASSUME NEW a \in Seq(Row), NEW r \in Row, NEW b \in Seq(Row), NEW K
    PROVE  /\ r \in K => Only((a \o <<r>>) \o b, K) = (Only(a, K) \o <<r>>) \o Only(b, K)
           /\ r \notin K => Only((a \o <<r>>) \o b, K) = Only(a \o b, K)
           /\ Only(a \o b, K) = Only(a, K) \o Only(b, K)
<1>1. <<r>> \in Seq(Row) /\ a \o <<r>> \in Seq(Row)
  OBVIOUS
<1>2. \A p, q \in Seq(Row) : Only(p \o q, K) = Only(p, K) \o Only(q, K)
  BY OnlyOfConcat
<1>3. Only(<<r>>, K) = IF r \in K THEN <<r>> ELSE <<>>
  BY OnlyOfOne
<1>4. Only((a \o <<r>>) \o b, K) = Only(a \o <<r>>, K) \o Only(b, K)
  BY <1>1, <1>2, Zenon
<1>5. Only(a \o <<r>>, K) = Only(a, K) \o Only(<<r>>, K)
  BY <1>1, <1>2, Zenon
<1>6. Only(a \o b, K) = Only(a, K) \o Only(b, K)
  BY <1>2, Zenon
<1>7. Only(a, K) \in Seq(Row)
  BY OnlyKeeps
<1>8. Only(a, K) \o <<>> = Only(a, K)
  BY <1>7, ConcatEmptySeq
<1> QED
  BY <1>3, <1>4, <1>5, <1>6, <1>8

\* us is ts without its row r after the rows a and before the rows b.
TakenOut(ts, us, a, r, b) ==
    \A K : /\ r \in K => Only(ts, K) = (Only(a, K) \o <<r>>) \o Only(b, K)
           /\ r \notin K => Only(ts, K) = Only(us, K)
           /\ Only(us, K) = Only(a, K) \o Only(b, K)

LEMMA FirstRowTakenOut ==
    ASSUME NEW ts \in Seq(Row), NEW d \in Values(ts)
    PROVE  /\ WithoutFirst(ts, d) \in Seq(Row)
           /\ \E a, b \in Seq(Row), r \in Row :
                 /\ r.value = d /\ d \notin Values(a) /\ r \in Range(ts)
                 /\ TakenOut(ts, WithoutFirst(ts, d), a, r, b)
<1>1. PICK a, b \in Seq(Row), r \in Row :
          /\ r.value = d /\ d \notin Values(a)
          /\ ts = (a \o <<r>>) \o b
          /\ WithoutFirst(ts, d) = a \o b
  BY FirstRowRemoved
<1>2. \A p, q \in Seq(Row) : p \o q \in Seq(Row)
  BY ConcatProperties
<1>3. a \o b \in Seq(Row)
  BY <1>2
<1>4. TakenOut((a \o <<r>>) \o b, a \o b, a, r, b)
  <2>1. \A K : /\ r \in K => Only((a \o <<r>>) \o b, K) = (Only(a, K) \o <<r>>) \o Only(b, K)
               /\ r \notin K => Only((a \o <<r>>) \o b, K) = Only(a \o b, K)
               /\ Only(a \o b, K) = Only(a, K) \o Only(b, K)
    BY RowsAround
  <2> QED
    BY <2>1, Zenon DEF TakenOut
<1>5. r \in Range(ts)
  <2>1. Len(a) + 1 \in DOMAIN ts /\ ts[Len(a) + 1] = r
    BY <1>1
  <2> QED
    BY <2>1 DEF Range
<1> QED
  BY <1>1, <1>3, <1>4, <1>5, Zenon

\* Taking out the first row with a user's name takes out the first of the
\* rows with that name and no other.
LEMMA WithoutFirstOf ==
    ASSUME NEW ts \in Seq(Row), NEW d
    PROVE  /\ WithoutFirst(ts, d) \in Seq(Row)
           /\ \A K : (\A x \in K \intersect Row : x.value # d)
                     => Only(WithoutFirst(ts, d), K) = Only(ts, K)
           /\ Only(ts, Of(d)) = <<>> => Only(WithoutFirst(ts, d), Of(d)) = <<>>
           /\ Only(ts, Of(d)) # <<>> =>
                  Only(WithoutFirst(ts, d), Of(d)) = Tail(Only(ts, Of(d)))
<1>1. /\ Only(ts, Of(d)) \in Seq(Row)
      /\ Range(Only(ts, Of(d))) = Range(ts) \intersect Of(d)
  BY OnlyKeeps
<1>2. CASE d \notin Values(ts)
  <2>1. {i \in 1 .. Len(ts) : ts[i].value = d} = {}
    BY <1>2 DEF Values
  <2>2. FirstRow(ts, d) = 0
    BY <2>1 DEF FirstRow, SelectInSeq
  <2>3. WithoutFirst(ts, d) = ts
    BY <2>2 DEF WithoutFirst
  <2>4. Range(Only(ts, Of(d))) = {}
    BY <1>1, <1>2 DEF Values, Range, Of
  <2>5. Only(ts, Of(d)) = <<>>
    BY <1>1, <2>4, NothingInRange
  <2> QED
    BY <2>3, <2>5
<1>3. CASE d \in Values(ts)
  <2> DEFINE us == WithoutFirst(ts, d)
  <2>1. us \in Seq(Row)
    BY <1>3, FirstRowTakenOut
  <2>2. PICK a, b \in Seq(Row), r \in Row :
            /\ r.value = d /\ d \notin Values(a) /\ r \in Range(ts)
            /\ TakenOut(ts, us, a, r, b)
    BY <1>3, FirstRowTakenOut
  <2> HIDE DEF us
  <2>3. \A K : /\ r \in K => Only(ts, K) = (Only(a, K) \o <<r>>) \o Only(b, K)
               /\ r \notin K => Only(ts, K) = Only(us, K)
               /\ Only(us, K) = Only(a, K) \o Only(b, K)
    BY <2>2, Zenon DEF TakenOut
  <2>4. ASSUME NEW K, \A x \in K \intersect Row : x.value # d
        PROVE  Only(us, K) = Only(ts, K)
    <3>1. r \notin K
      BY <2>2, <2>4
    <3> QED
      BY <2>3, <3>1, Zenon
  <2>5. r \in Of(d)
    BY <2>2 DEF Of
  <2> DEFINE q == Only(b, Of(d))
  <2>6. q \in Seq(Row)
    BY OnlyKeeps
  <2>7. Only(a, Of(d)) = <<>>
    <3>1. Only(a, Of(d)) \in Seq(Row) /\ Range(Only(a, Of(d))) = Range(a) \intersect Of(d)
      BY OnlyKeeps
    <3>2. Range(Only(a, Of(d))) = {}
      BY <2>2, <3>1 DEF Values, Range, Of
    <3> QED
      BY <3>1, <3>2, NothingInRange
  <2>8. Only(ts, Of(d)) = (Only(a, Of(d)) \o <<r>>) \o q /\ Only(us, Of(d)) = Only(a, Of(d)) \o q
    BY <2>3, <2>5, Zenon
  <2> HIDE DEF q
  <2>9. /\ (<<>> \o <<r>>) \o q # <<>> /\ Tail((<<>> \o <<r>>) \o q) = q
        /\ <<>> \o q = q
    <3>1. <<>> \o <<r>> = <<r>> /\ <<>> \o q = q
      BY <2>6, ConcatEmptySeq
    <3>2. <<r>> \o q # <<>> /\ Tail(<<r>> \o q) = q
      BY <2>6
    <3> QED
      BY <3>1, <3>2
  <2>10. Only(ts, Of(d)) # <<>> /\ Only(us, Of(d)) = Tail(Only(ts, Of(d)))
    BY <2>7, <2>8, <2>9
  <2> QED
    BY <2>1, <2>4, <2>10 DEF us
<1> QED
  BY <1>2, <1>3

\* One more is left out.
LEMMA AfterOneMore ==
    ASSUME NEW S, NEW list \in Seq(S), NEW k \in Nat
    PROVE  /\ After(list, k) = <<>> => After(list, k + 1) = <<>>
           /\ After(list, k) # <<>> => After(list, k + 1) = Tail(After(list, k))
<1>1. Len(list) \in Nat
  OBVIOUS
<1>2. CASE k >= Len(list)
  <2>1. After(list, k) = <<>> /\ After(list, k + 1) = <<>>
    BY <1>1, <1>2, SubSeqEmpty DEF After
  <2> QED
    BY <2>1
<1>3. CASE k < Len(list)
  <2> DEFINE m == k + 1
  <2>1. m \in 1 .. Len(list) /\ Len(list) \in m .. Len(list)
    BY <1>1, <1>3
  <2> HIDE DEF m
  <2>2. Tail(SubSeq(list, m, Len(list))) = SubSeq(list, m + 1, Len(list))
    BY <2>1, HeadTailOfSubSeq
  <2>3. SubSeq(list, m, Len(list)) # <<>>
    <3>1. /\ m \in Int /\ m <= Len(list) /\ Len(list) \in Int
          /\ \A i \in m .. Len(list) : list[i] \in S
      BY <1>1, <2>1
    <3>2. Len(SubSeq(list, m, Len(list))) = Len(list) - m + 1
      BY <3>1, SubSeqProperties
    <3>3. Len(SubSeq(list, m, Len(list))) # 0
      BY <3>1, <3>2
    <3>4. Len(<<>>) = 0
      OBVIOUS
    <3> QED
      BY <3>3, <3>4, Zenon
  <2> QED
    BY <2>2, <2>3 DEF After, m
<1> QED
  BY <1>1, <1>2, <1>3

\* The loop over the members there were.
Removing(g, rs, originals, chosen) ==
    /\ g[0] = rs
    /\ \A i \in 1 .. Len(originals) :
           g[i] = IF originals[i].value \in chosen THEN g[i - 1]
                  ELSE WithoutFirst(g[i - 1], originals[i].value)

LEMMA RemovedRuns ==
    ASSUME NEW rs \in Seq(Row), NEW originals \in Seq(Row), NEW chosen
    PROVE  \E g : Removing(g, rs, originals, chosen)
                  /\ Removed(rs, originals, chosen) = g[Len(originals)]
<1> DEFINE n == Len(originals)
           F == [i \in 1 .. n |-> [p \in Seq(Row) |->
                    IF originals[i].value \in chosen THEN p
                    ELSE WithoutFirst(p, originals[i].value)]]
           Unfolds(g) == g = [i \in 0 .. Len(originals) |->
               IF i = 0 THEN rs
               ELSE IF originals[i].value \in chosen THEN g[i - 1]
               ELSE WithoutFirst(g[i - 1], originals[i].value)]
           removed[i \in 0 .. Len(originals)] ==
               IF i = 0 THEN rs
               ELSE IF originals[i].value \in chosen THEN removed[i - 1]
               ELSE WithoutFirst(removed[i - 1], originals[i].value)
<1>1. n \in Nat
  OBVIOUS
<1>2. F \in [1 .. n -> [Seq(Row) -> Seq(Row)]]
  BY WithoutFirstOf
<1>3. PICK g \in [0 .. n -> Seq(Row)] : Runs(g, n, rs, F)
  <2> HIDE DEF F, n
  <2> QED
    BY <1>1, <1>2, LoopRuns
<1>4. ASSUME NEW i \in 1 .. n
      PROVE  g[i] = IF originals[i].value \in chosen THEN g[i - 1]
                    ELSE WithoutFirst(g[i - 1], originals[i].value)
  <2>1. i - 1 \in 0 .. n
    BY <1>1
  <2>2. g[i - 1] \in Seq(Row) /\ g[i] = F[i][g[i - 1]]
    BY <1>3, <2>1 DEF Runs
  <2> QED
    BY <2>2
<1>5. Unfolds(g)
  <2>1. \A i \in 0 .. n : g[i] = IF i = 0 THEN rs
               ELSE IF originals[i].value \in chosen THEN g[i - 1]
               ELSE WithoutFirst(g[i - 1], originals[i].value)
    <3> TAKE i \in 0 .. n
    <3>1. CASE i = 0
      BY <1>3, <3>1 DEF Runs
    <3>2. CASE i # 0
      <4>1. i \in 1 .. n
        BY <1>1, <3>2
      <4> QED
        BY <1>4, <3>2, <4>1
    <3> QED
      BY <3>1, <3>2
  <2>2. [i \in 0 .. n |-> g[i]] = [i \in 0 .. n |-> IF i = 0 THEN rs
               ELSE IF originals[i].value \in chosen THEN g[i - 1]
               ELSE WithoutFirst(g[i - 1], originals[i].value)]
    BY <2>1
  <2>3. g = [i \in 0 .. n |-> g[i]]
    OBVIOUS
  <2> QED
    BY <2>2, <2>3
<1>6. removed = CHOOSE f : Unfolds(f)
  BY DEF removed
<1>7. Unfolds(removed)
  <2> HIDE DEF Unfolds, removed
  <2> QED
    BY <1>5, <1>6
<1>8. Removed(rs, originals, chosen) = removed[n]
  BY DEF Removed
<1> HIDE DEF removed
<1>9. Removing(removed, rs, originals, chosen)
  <2>1. 0 \in 0 .. n /\ \A i \in 1 .. n : i \in 0 .. n /\ i # 0
    BY <1>1
  <2> QED
    BY <1>7, <2>1 DEF Removing
<1> QED
  BY <1>8, <1>9

\* What the loop leaves of the rows: for each member given up, as many of the
\* rows with that name are gone as there were members of it, and no others.
LEMMA RemovedRows ==
    ASSUME NEW rs \in Seq(Row), NEW ms \in Seq(Row), NEW chosen
    PROVE  LET us    == Removed(rs, ms, chosen)
               given == Values(ms) \ chosen
           IN  /\ us \in Seq(Row)
               /\ \A K : (\A x \in K \intersect Row : x.value \notin given)
                         => Only(us, K) = Only(rs, K)
               /\ \A d \in given :
                      Only(us, Of(d)) = After(Only(rs, Of(d)), Len(Only(ms, Of(d))))
<1> DEFINE n == Len(ms)
           given == Values(ms) \ chosen
           so(i) == SubSeq(ms, 1, i)
           Fine(ts, p) ==
               /\ ts \in Seq(Row)
               /\ \A K : (\A x \in K \intersect Row : x.value \notin given)
                         => Only(ts, K) = Only(rs, K)
               /\ \A d \in given :
                      Only(ts, Of(d)) = After(Only(rs, Of(d)), Len(Only(p, Of(d))))
<1>1. n \in Nat /\ DOMAIN ms = 1 .. n
  OBVIOUS
<1>2. PICK g : Removing(g, rs, ms, chosen) /\ Removed(rs, ms, chosen) = g[n]
  BY RemovedRuns
<1> DEFINE Good == {i \in 0 .. n : Fine(g[i], so(i))}
<1>3. 0 \in Good
  <2>1. so(0) = <<>>
    BY <1>1
  <2>2. g[0] = rs
    BY <1>2 DEF Removing
  <2>3. \A d \in given : Only(rs, Of(d)) = After(Only(rs, Of(d)), Len(Only(<<>>, Of(d))))
    <3> TAKE d \in given
    <3>1. Only(<<>>, Of(d)) = <<>>
      BY OnlyOfNone
    <3>2. Only(rs, Of(d)) \in Seq(Row)
      BY OnlyKeeps
    <3> HIDE DEF given
    <3>3. \A l \in Seq(Row) : After(l, 0) = l
      BY DEF After
    <3>4. Len(<<>>) = 0
      OBVIOUS
    <3> QED
      BY <3>1, <3>2, <3>3, <3>4
  <2>4. Fine(rs, <<>>)
    BY <2>3
  <2> HIDE DEF Fine, so
  <2> QED
    BY <1>1, <2>1, <2>2, <2>4
<1>4. ASSUME NEW i \in 1 .. n, i - 1 \in Good
      PROVE  i \in Good
  <2> DEFINE ts == g[i - 1]
             r == ms[i]
             p == so(i - 1)
  <2>1. i \in 0 .. n /\ r \in Row /\ r.value \in Values(ms)
    BY <1>1 DEF Values
  <2>2. Fine(ts, p)
    BY <1>4
  <2>3. g[i] = IF r.value \in chosen THEN ts ELSE WithoutFirst(ts, r.value)
    BY <1>2 DEF Removing
  <2>4. p \in Seq(Row) /\ so(i) = Append(p, r)
    <3>1. p \in Seq(Row) /\ Len(p) = i - 1 /\ \A j \in 1 .. i - 1 : p[j] = ms[j]
      BY <1>1
    <3>2. so(i) \in Seq(Row) /\ Len(so(i)) = i /\ \A j \in 1 .. i : so(i)[j] = ms[j]
      BY <1>1
    <3> HIDE DEF p, so
    <3>3. Append(p, r) \in Seq(Row) /\ Len(Append(p, r)) = i
          /\ \A j \in 1 .. i : Append(p, r)[j] = ms[j]
      BY <1>1, <2>1, <3>1
    <3>4. so(i) = Append(p, r)
      BY <3>2, <3>3, SeqEqual
    <3> QED
      BY <3>1, <3>4
  <2>5. \A K : Only(so(i), K) = IF r \in K THEN Append(Only(p, K), r) ELSE Only(p, K)
    <3> HIDE DEF p, r
    <3>1. \A K : Only(Append(p, r), K) = IF r \in K THEN Append(Only(p, K), r) ELSE Only(p, K)
      BY <2>1, <2>4, OnlyOfAppend
    <3>2. so(i) = Append(p, r)
      BY <2>4
    <3> HIDE DEF so
    <3> QED
      BY <3>1, <3>2
  <2>6. \A d : r \in Of(d) <=> r.value = d
    BY <2>1 DEF Of
  <2> HIDE DEF ts, r, p, so
  <2>7. CASE r.value \in chosen
    <3>1. \A d \in given : Only(so(i), Of(d)) = Only(p, Of(d))
      BY <2>5, <2>6, <2>7
    <3>2. Fine(ts, so(i))
      BY <2>2, <3>1
    <3> QED
      BY <2>1, <2>3, <2>7, <3>2
  <2>8. CASE r.value \notin chosen
    <3> DEFINE us == WithoutFirst(ts, r.value)
    <3>1. r.value \in given
      BY <2>1, <2>8
    <3>2. ts \in Seq(Row)
      BY <2>2
    <3>3. /\ us \in Seq(Row)
          /\ \A K : (\A x \in K \intersect Row : x.value # r.value) => Only(us, K) = Only(ts, K)
          /\ Only(ts, Of(r.value)) = <<>> => Only(us, Of(r.value)) = <<>>
          /\ Only(ts, Of(r.value)) # <<>> => Only(us, Of(r.value)) = Tail(Only(ts, Of(r.value)))
      BY <3>2, WithoutFirstOf
    <3> HIDE DEF us
    <3>4. ASSUME NEW K, \A x \in K \intersect Row : x.value \notin given
          PROVE  Only(us, K) = Only(rs, K)
      <4>1. \A x \in K \intersect Row : x.value # r.value
        BY <3>1, <3>4
      <4>2. Only(us, K) = Only(ts, K)
        BY <3>3, <4>1
      <4> QED
        BY <2>2, <3>4, <4>2
    <3>5. ASSUME NEW d \in given
          PROVE  Only(us, Of(d)) = After(Only(rs, Of(d)), Len(Only(so(i), Of(d))))
      <4> DEFINE l == Only(rs, Of(d))
                 k == Len(Only(p, Of(d)))
      <4>1. l \in Seq(Row) /\ k \in Nat /\ Only(p, Of(d)) \in Seq(Row)
        BY <2>4, OnlyKeeps
      <4>2. Only(ts, Of(d)) = After(l, k)
        BY <2>2, <3>5
      <4> HIDE DEF l
      <4>3. CASE d = r.value
        <5>1. Len(Only(so(i), Of(d))) = k + 1
          <6>1. Only(so(i), Of(d)) = Append(Only(p, Of(d)), r)
            BY <2>5, <2>6, <4>3
          <6> QED
            BY <2>1, <4>1, <6>1
        <5> HIDE DEF k
        <5>2. /\ After(l, k) = <<>> => After(l, k + 1) = <<>>
              /\ After(l, k) # <<>> => After(l, k + 1) = Tail(After(l, k))
          BY <4>1, AfterOneMore
        <5>3. Only(us, Of(d)) = After(l, k + 1)
          BY <3>3, <4>2, <4>3, <5>2
        <5> QED
          BY <5>1, <5>3 DEF l
      <4>4. CASE d # r.value
        <5>1. Only(so(i), Of(d)) = Only(p, Of(d))
          BY <2>5, <2>6, <4>4
        <5>2. \A x \in Of(d) \intersect Row : x.value # r.value
          BY <4>4 DEF Of
        <5>3. Only(us, Of(d)) = Only(ts, Of(d))
          BY <3>3, <5>2
        <5> QED
          BY <4>2, <5>1, <5>3 DEF l
      <4> QED
        BY <4>3, <4>4
    <3>6. Fine(us, so(i))
      BY <3>3, <3>4, <3>5
    <3> QED
      BY <2>1, <2>3, <2>8, <3>6 DEF us
  <2> QED
    BY <2>7, <2>8
<1>5. Good \in SUBSET (0 .. n)
  OBVIOUS
<1>6. n \in Good
  <2>1. Good = 0 .. n
    <3> HIDE DEF Good, n
    <3> QED
      BY <1>1, <1>3, <1>4, <1>5, OneByOne
  <2> QED
    BY <1>1, <2>1
<1>7. so(n) = ms
  BY <1>1
<1>8. Fine(g[n], ms)
  <2> HIDE DEF Fine, so
  <2> QED
    BY <1>6, <1>7
<1> QED
  BY <1>2, <1>8

LEMMA RowsAreFinite == IsFiniteSet(Row)
<1> DEFINE f == [r \in Row |-> <<r.name, r.value>>]
<1>1. IsFiniteSet(Attributes)
  <2>1. IsFiniteSet({"managedBy"}) /\ IsFiniteSet({"member"})
    BY FS_Singleton
  <2>2. Attributes = {"managedBy"} \union {"member"}
    BY DEF Attributes
  <2> QED
    BY <2>1, <2>2, FS_Union
<1>2. IsFiniteSet(Attributes \X Users)
  BY <1>1, FS_Product, UsersAssumption
<1>3. f \in Injection(Row, Attributes \X Users)
  BY DEF Row, Injection, IsInjective
<1> HIDE DEF f
<1> QED
  BY <1>2, <1>3, FS_Injection

LEMMA LoadedIsRows ==
    ASSUME NEW entry, entry.names \in SUBSET Row, NEW rs \in Loaded(entry)
    PROVE  rs \in Seq(Row)
<1>1. IsFiniteSet(entry.names)
  BY RowsAreFinite, FS_Subset
<1>2. rs \in SetToSeqs(entry.names)
  BY DEF Loaded
<1>3. rs \in Seq(entry.names)
  BY <1>1, <1>2, SetInOrder
<1> QED
  BY <1>3

NewRows(ds) == {[name |-> "member", value |-> d] : d \in ds}

LEMMA NewRowsValues ==
    ASSUME NEW ds
    PROVE  {x.value : x \in NewRows(ds)} = ds
<1>1. ASSUME NEW d \in ds PROVE d \in {x.value : x \in NewRows(ds)}
  <2>1. [name |-> "member", value |-> d] \in NewRows(ds)
    BY DEF NewRows
  <2>2. [name |-> "member", value |-> d].value = d
    OBVIOUS
  <2> QED
    BY <2>1, <2>2
<1>2. ASSUME NEW x \in NewRows(ds) PROVE x.value \in ds
  BY DEF NewRows
<1> QED
  BY <1>1, <1>2

LEMMA AddedRows ==
    ASSUME NEW rs \in Seq(Row), NEW originals \in Seq(Row), NEW chosen \in SUBSET Users,
           NEW more \in Added(rs, originals, chosen)
    PROVE  \E new \in Seq(Row) :
               more = rs \o new /\ Range(new) = NewRows(chosen \ Values(originals))
<1> DEFINE ds0 == chosen \ Values(originals)
<1>1. IsFiniteSet(ds0) /\ ds0 \subseteq Users
  BY UsersAssumption, FS_Subset
<1>2. PICK ds \in SetToSeqs(ds0) :
          more = rs \o [i \in DOMAIN ds |-> [name |-> "member", value |-> ds[i]]]
  BY DEF Added, Values
<1> HIDE DEF ds0
<1>3. ds \in Seq(ds0) /\ Range(ds) = ds0
  BY <1>1, SetInOrder
<1> DEFINE new == [i \in DOMAIN ds |-> [name |-> "member", value |-> ds[i]]]
<1>4. Len(ds) \in Nat /\ DOMAIN ds = 1 .. Len(ds)
  BY <1>3
<1>5. \A i \in 1 .. Len(ds) : ds[i] \in ds0 /\ [name |-> "member", value |-> ds[i]] \in Row
  BY <1>1, <1>3 DEF Row, Attributes
<1>6. new \in [1 .. Len(ds) -> Row]
  BY <1>4, <1>5
<1>7. new \in Seq(Row)
  BY <1>4, <1>6
<1>8. Range(new) = NewRows(ds0)
  BY <1>3, <1>4, <1>6 DEF Range, NewRows
<1> QED
  BY <1>2, <1>7, <1>8 DEF ds0

LEMMA ValuesOfRange ==
    ASSUME NEW p \in Seq(Row)
    PROVE  Values(p) = {x.value : x \in Range(p)}
BY DEF Values, Range

\* The rows of members that stay.
StillChosen(chosen) == {x \in MemberRows : x.value \in chosen}

\* The loop leaves the chosen members and, of the others, none that were not
\* members before.
LEMMA ChosenMembersLeft ==
    ASSUME NEW rs \in Seq(Row), NEW new \in Seq(Row), NEW us \in Seq(Row),
           NEW ms \in Seq(Row), NEW chosen, NEW given,
           Range(ms) = Range(rs) \intersect MemberRows, given = Values(ms) \ chosen,
           Range(new) = NewRows(chosen \ Values(ms)), Range(new) \subseteq Row,
           Range(us) \subseteq Range(rs) \union Range(new),
           Range(us) \intersect StillChosen(chosen) =
               (Range(rs) \union Range(new)) \intersect StillChosen(chosen)
    PROVE  Values(Members(us)) \ given = chosen
<1>1. /\ Values(ms) = {x.value : x \in Range(ms)}
      /\ Values(Members(us)) = {x.value : x \in Range(us) \intersect MemberRows}
  <2>1. Members(us) \in Seq(Row) /\ Range(Members(us)) = Range(us) \intersect MemberRows
    BY OnlyKeeps DEF Members
  <2> QED
    BY <2>1, ValuesOfRange
<1>2. \A x \in NewRows(chosen \ Values(ms)) : x.name = "member" /\ x.value \in chosen \ Values(ms)
  BY DEF NewRows
<1>3. ASSUME NEW v \in Values(Members(us)), v \notin given
      PROVE  v \in chosen
  <2>1. PICK x \in Range(us) \intersect MemberRows : x.value = v
    BY <1>1, <1>3
  <2>2. CASE x \in Range(rs)
    <3>1. x \in Range(ms)
      BY <2>1, <2>2
    <3>2. v \in Values(ms)
      BY <1>1, <2>1, <3>1
    <3> QED
      BY <1>3, <3>2
  <2>3. CASE x \in Range(new)
    BY <1>2, <2>1, <2>3
  <2> QED
    BY <2>1, <2>2, <2>3
<1>4. ASSUME NEW v \in chosen
      PROVE  v \in Values(Members(us)) /\ v \notin given
  <2>1. \E x \in (Range(rs) \union Range(new)) \intersect StillChosen(chosen) : x.value = v
    <3>1. CASE v \in Values(ms)
      <4>1. PICK x \in Range(ms) : x.value = v
        BY <1>1, <3>1
      <4> QED
        BY <1>4, <4>1 DEF StillChosen
    <3>2. CASE v \notin Values(ms)
      <4>1. {x.value : x \in NewRows(chosen \ Values(ms))} = chosen \ Values(ms)
        BY NewRowsValues
      <4>2. PICK x \in Range(new) : x.value = v
        BY <1>4, <3>2, <4>1
      <4>3. x \in MemberRows
        BY <1>2, <4>2 DEF MemberRows
      <4> QED
        BY <1>4, <4>2, <4>3 DEF StillChosen
    <3> QED
      BY <3>1, <3>2
  <2>2. \E x \in Range(us) \intersect MemberRows : x.value = v
    BY <2>1 DEF StillChosen
  <2> QED
    BY <1>1, <1>4, <2>2
<1> QED
  BY <1>3, <1>4

LEMMA MembersAccepted ==
    ASSUME NEW rs \in Seq(Row), NEW chosen \in SUBSET Users,
           NEW more \in Added(rs, Members(rs), chosen)
    PROVE  LET ms    == Members(rs)
               given == Values(ms) \ chosen
               us    == Removed(more, ms, chosen)
               K     == {x \in Row \ MemberRows : x.value \notin given}
           IN  /\ \A d \in given :
                      Only(us, Of(d)) = After(Only(rs, Of(d)), Len(Only(ms, Of(d))))
               /\ Values(Members(us)) \ given = chosen
               /\ Only(us, K) = Only(rs, K)
<1> DEFINE ms == Members(rs)
           given == Values(ms) \ chosen
           us == Removed(more, ms, chosen)
           K0 == {x \in Row \ MemberRows : x.value \notin given}
           C == StillChosen(chosen)
<1>1. ms \in Seq(Row) /\ Range(ms) = Range(rs) \intersect MemberRows
  BY OnlyKeeps DEF Members
<1>2. PICK new \in Seq(Row) : more = rs \o new /\ Range(new) = NewRows(chosen \ Values(ms))
  <2>1. ASSUME NEW originals \in Seq(Row), more \in Added(rs, originals, chosen)
        PROVE  \E new \in Seq(Row) :
                   more = rs \o new /\ Range(new) = NewRows(chosen \ Values(originals))
    BY <2>1, AddedRows
  <2> QED
    BY <1>1, <2>1
<1>3. more \in Seq(Row) /\ Range(more) = Range(rs) \union Range(new)
  <2>1. \A p, q \in Seq(Row) : p \o q \in Seq(Row) /\ Range(p \o q) = Range(p) \union Range(q)
    BY ConcatProperties, RangeConcatenation
  <2> QED
    BY <1>2, <2>1, Zenon
<1>4. \A K : Only(more, K) = Only(rs, K) \o Only(new, K)
  <2>1. \A K : Only(rs \o new, K) = Only(rs, K) \o Only(new, K)
    BY OnlyOfConcat
  <2> QED
    BY <1>2, <2>1
<1>5. Range(new) \subseteq C /\ Range(new) \subseteq Row
  BY <1>2 DEF NewRows, StillChosen, MemberRows, Row, Attributes
<1>6. \A K : K \intersect C = {} => Only(more, K) = Only(rs, K)
  <2> SUFFICES ASSUME NEW K, K \intersect C = {}
               PROVE  Only(more, K) = Only(rs, K)
    OBVIOUS
  <2>1. Only(new, K) \in Seq(Row) /\ Range(Only(new, K)) = Range(new) \intersect K
    BY OnlyKeeps
  <2>2. Only(new, K) = <<>>
    <3>1. Range(Only(new, K)) = {}
      BY <1>5, <2>1
    <3> QED
      BY <2>1, <3>1, NothingInRange
  <2>3. Only(rs, K) \in Seq(Row)
    BY OnlyKeeps
  <2>4. Only(rs, K) \o <<>> = Only(rs, K)
    BY <2>3, ConcatEmptySeq
  <2> QED
    BY <1>4, <2>2, <2>4
<1> HIDE DEF ms
<1>7. /\ us \in Seq(Row)
      /\ \A K : (\A x \in K \intersect Row : x.value \notin given) => Only(us, K) = Only(more, K)
      /\ \A d \in given : Only(us, Of(d)) = After(Only(more, Of(d)), Len(Only(ms, Of(d))))
  BY <1>1, <1>3, RemovedRows
<1> HIDE DEF us
<1>8. ASSUME NEW d \in given
      PROVE  Only(us, Of(d)) = After(Only(rs, Of(d)), Len(Only(ms, Of(d))))
  <2>1. Of(d) \intersect C = {}
    BY DEF Of, StillChosen
  <2> QED
    BY <1>6, <1>7, <2>1
<1>9. Only(us, K0) = Only(rs, K0)
  <2>1. (\A x \in K0 \intersect Row : x.value \notin given) /\ K0 \intersect C = {}
    BY DEF StillChosen
  <2> HIDE DEF K0
  <2> QED
    BY <1>6, <1>7, <2>1
<1>10. \A p \in Seq(Row) : \A K : Range(Only(p, K)) = Range(p) \intersect K
  BY OnlyKeeps
<1>11. Range(us) \intersect C = Range(more) \intersect C
  <2>1. \A x \in C \intersect Row : x.value \notin given
    BY DEF StillChosen
  <2>2. Only(us, C) = Only(more, C)
    BY <1>7, <2>1
  <2> QED
    BY <1>3, <1>7, <1>10, <2>2, ZenonT(30)
<1>12. Range(us) \subseteq Range(more)
  <2>1. ASSUME NEW x \in Range(us), x.value \notin given
        PROVE  x \in Range(more)
    <3> DEFINE K == {y \in Row : y.value \notin given}
    <3>1. x \in Row
      BY <1>7, RangeOfSeq
    <3>2. x \in K /\ \A y \in K \intersect Row : y.value \notin given
      BY <2>1, <3>1
    <3> HIDE DEF K
    <3>3. Only(us, K) = Only(more, K)
      BY <1>7, <3>2
    <3>4. Range(us) \intersect K = Range(more) \intersect K
      BY <1>3, <1>7, <1>10, <3>3, ZenonT(30)
    <3> QED
      BY <2>1, <3>2, <3>4
  <2>2. ASSUME NEW x \in Range(us), x.value \in given
        PROVE  x \in Range(more)
    <3> DEFINE l == Only(more, Of(x.value))
               k == Len(Only(ms, Of(x.value)))
    <3>1. l \in Seq(Row) /\ k \in Nat /\ Range(l) \subseteq Range(more)
      BY <1>1, <1>3, OnlyKeeps
    <3>2. x \in Of(x.value)
      BY <1>7, RangeOfSeq DEF Of
    <3>3. x \in Range(After(l, k))
      BY <1>7, <1>10, <2>2, <3>2
    <3> HIDE DEF l, k
    <3>4. Range(After(l, k)) \subseteq Range(l)
      BY <3>1 DEF After, Range
    <3> QED
      BY <3>1, <3>3, <3>4
  <2> QED
    BY <2>1, <2>2
<1>13. Values(Members(us)) \ given = chosen
  <2> DEFINE gone == given
  <2>1. gone = Values(ms) \ chosen
    OBVIOUS
  <2> HIDE DEF gone
  <2>2. /\ Range(us) \subseteq Range(rs) \union Range(new)
        /\ Range(us) \intersect StillChosen(chosen) =
               (Range(rs) \union Range(new)) \intersect StillChosen(chosen)
    BY <1>3, <1>11, <1>12
  <2>3. Values(Members(us)) \ gone = chosen
    BY <1>1, <1>2, <1>5, <1>7, <2>1, <2>2, ChosenMembersLeft, ZenonT(30)
  <2> QED
    BY <2>3 DEF gone
<1> QED
  BY <1>8, <1>9, <1>13 DEF ms, us

(***************************************************************************)
(* The invariant of the accounts.                                          *)
(***************************************************************************)

Copy == [control : SUBSET (Bits \union {Unset}), account : Account,
         names : SUBSET Row, password : {"old", "new"}]

CopiesTyped == stored \in Copy /\ seen \in Copy

(* The menu is open only while nothing is asked of the server, so that it  *)
(* tells of the copy that the click will use.                              *)
MenuIsFresh ==
    UserMenu => phase = "idle" /\ (menu = "Disable user" <=> UserEnabled(seen))

SeenIsStored ==
    phase \in {"idle", "naming"} /\ calm =>
        seen.control = stored.control /\ seen.account = stored.account

(* A user added here has been named, or has no account name: between its   *)
(* requests too, for the last of them only reads.                          *)
AddedIsNamed ==
    phase \in {"idle", "reading"} /\ added = "named" /\ IsUser(classes)
        => stored.account # "own"

(* Until the request that names the account, and when that is refused, it  *)
(* has not the entry's name.                                               *)
RefusedIsUnnamed ==
    /\ phase = "new" => added = "no" /\ stored.account # "cn"
    /\ phase \in {"new", "added"} => seen.account = Unset
    /\ phase \in {"added", "naming"} => added # "unnamed"
    /\ phase \in {"added", "naming"} /\ added = "named" => stored.account # "cn"
    /\ added = "unnamed" => stored.account # "cn"

CopiesAgree ==
    CopiesTyped /\ MenuIsFresh /\ SeenIsStored /\ AddedIsNamed /\ RefusedIsUnnamed

LEMMA CopiesAgreeAtFirst == AccountsInit => CopiesAgree
<1> SUFFICES ASSUME AccountsInit PROVE CopiesAgree
    OBVIOUS
<1>1. stored \in Copy
  <2>1. stored.control \in SUBSET (Bits \union {Unset})
    BY DEF AccountsInit, Control
  <2>2. stored.names \in SUBSET Row
    BY DEF AccountsInit
  <2>3. stored.account \in Account /\ stored.password \in {"old", "new"}
    BY DEF AccountsInit, Account
  <2>4. stored = [control |-> stored.control, account |-> stored.account,
                names |-> stored.names, password |-> stored.password]
    BY DEF AccountsInit
  <2> QED BY <2>1, <2>2, <2>3, <2>4 DEF Copy
<1>2. seen \in Copy
  <2>1. NothingSeen \in Copy
    BY DEF NothingSeen, Copy, Account
  <2> QED BY <1>1, <2>1 DEF AccountsInit
<1>3. MenuIsFresh
    BY DEF AccountsInit, MenuIsFresh, UserMenu
<1>4. SeenIsStored /\ AddedIsNamed /\ RefusedIsUnnamed
    BY DEF AccountsInit, SeenIsStored, AddedIsNamed, RefusedIsUnnamed, NothingSeen, Unset
<1> QED BY <1>1, <1>2, <1>3, <1>4 DEF CopiesAgree, CopiesTyped

LEMMA ToggledIsControl ==
    ASSUME NEW entry \in Copy, Unset \notin entry.control
    PROVE  Toggled(entry) \in SUBSET (Bits \union {Unset})
BY DEF Toggled, Copy, Bits

LEMMA CopiesAgreeStill == CopiesAgree /\ [AccountsNext]_accountsVars => CopiesAgree'
<1> SUFFICES ASSUME CopiesAgree, [AccountsNext]_accountsVars PROVE CopiesAgree'
    OBVIOUS
<1> USE DEF CopiesAgree, CopiesTyped, MenuIsFresh, UserMenu, SeenIsStored, AddedIsNamed,
            RefusedIsUnnamed, dialog, history
<1>1. ASSUME NEW ok \in BOOLEAN, Add(ok) PROVE CopiesAgree'
    BY <1>1 DEF Add, UserEnabled, IsUser
<1>2. ASSUME NEW ok \in BOOLEAN, ReadAdded(ok) PROVE CopiesAgree'
  <2>1. phase = "added" /\ ~UserMenu /\ ~UserMenu'
    BY <1>2 DEF ReadAdded
  <2>2. stored' = stored /\ classes' = classes /\ (ok => seen' = stored) /\ (~ok => seen' = seen)
    BY <1>2 DEF ReadAdded, Flush
  <2>3. phase' \in {"naming", "idle"}
    BY <1>2 DEF ReadAdded
  <2>4. phase' = "idle" /\ IsUser(classes) => seen'.account = Unset
    BY <1>2 DEF ReadAdded
  <2>5. calm' = ok /\ added' = IF added = "named" /\ ~ok THEN "unnamed" ELSE added
    BY <1>2 DEF ReadAdded
  <2>6. AddedIsNamed'
    BY <2>2, <2>3, <2>4, <2>5 DEF IsUser, Unset
  <2>7. RefusedIsUnnamed'
    <3>1. /\ phase' \notin {"new", "added"} /\ stored'.account = stored.account
          /\ added # "unnamed" /\ (added = "named" => stored.account # "cn")
      BY <2>1, <2>2, <2>3
    <3>2. phase' = "naming" => ok
      <4>1. phase' = "naming" => seen'.account # Unset
        BY <1>2 DEF ReadAdded
      <4> QED
        BY <2>1, <2>2, <4>1
    <3>3. CASE ok
      BY <2>5, <3>1, <3>3
    <3>4. CASE ~ok
      BY <2>3, <2>5, <3>1, <3>2, <3>4
    <3> QED
      BY <3>3, <3>4
  <2>8. SeenIsStored'
    BY <2>2, <2>5
  <2> QED BY <2>1, <2>2, <2>6, <2>7, <2>8
<1>3. ASSUME NEW ok \in BOOLEAN, NameAccount(ok) PROVE CopiesAgree'
  <2>1. stored' \in Copy /\ (ok => stored'.account = "cn") /\ seen' = seen
    BY <1>3 DEF NameAccount, Copy, Account
  <2>2. /\ phase = "naming" /\ phase' = (IF ok THEN "reading" ELSE "idle") /\ calm' = calm
        /\ added' = IF added = "named" /\ ~ok THEN "unnamed" ELSE added
        /\ ~ok => stored' = stored
    BY <1>3 DEF NameAccount
  <2>3. ~UserMenu' /\ classes' = classes
    BY <1>3 DEF NameAccount
  <2>4. AddedIsNamed' /\ RefusedIsUnnamed'
    BY <2>1, <2>2, <2>3 DEF IsUser
  <2>5. SeenIsStored'
    BY <2>1, <2>2
  <2> QED BY <2>1, <2>2, <2>3, <2>4, <2>5
<1>4. ASSUME NEW ok \in BOOLEAN, Read(ok) PROVE CopiesAgree'
  <2>1. stored' = stored /\ classes' = classes /\ added' = added /\ menu' = menu
        /\ calm' = (ok \/ (calm /\ phase = "idle"))
    BY <1>4 DEF Read
  <2>2. (ok => seen' = stored) /\ (~ok => seen' = seen)
    BY <1>4 DEF Read, Flush
  <2>3. phase \in {"reading", "idle"} /\ phase' = "idle" /\ ~UserMenu
    BY <1>4 DEF Read, Idle
  <2> QED BY <2>1, <2>2, <2>3 DEF IsUser
<1>5. ASSUME OpenMenu PROVE CopiesAgree'
    BY <1>5 DEF OpenMenu, Idle, UserEnabled, IsUser
<1>6. ASSUME CloseMenu PROVE CopiesAgree'
    BY <1>6 DEF CloseMenu, UserEnabled, IsUser
<1>7. ASSUME NEW ok \in BOOLEAN, EnableUser(ok) PROVE CopiesAgree'
  <2>1. ~UserMenu' /\ phase = "idle" /\ seen' = seen /\ classes' = classes /\ added' = added
    BY <1>7 DEF EnableUser
  <2>2. CASE Unset \in seen.control
    <3>1. stored' = stored /\ phase' = phase /\ calm' = calm
      BY <1>7, <2>2 DEF EnableUser
    <3> QED BY <2>1, <3>1 DEF IsUser
  <2>3. CASE Unset \notin seen.control
    <3>1. stored' = IF ok THEN [stored EXCEPT !.control = Toggled(seen)] ELSE stored
      BY <1>7, <2>3 DEF EnableUser
    <3>2. phase' = (IF ok THEN "reading" ELSE "idle") /\ calm' = calm
      BY <1>7, <2>3 DEF EnableUser
    <3>3. stored' \in Copy /\ stored'.account = stored.account
      BY <3>1, <2>3, ToggledIsControl DEF Copy
    <3> QED BY <2>1, <3>1, <3>2, <3>3 DEF IsUser
  <2> QED BY <2>2, <2>3
<1>8. ASSUME NEW ok \in BOOLEAN, NEW same \in BOOLEAN, ChangePassword(same, ok)
      PROVE  CopiesAgree'
  <2>1. /\ stored' \in Copy
        /\ stored'.control = stored.control /\ stored'.account = stored.account
    BY <1>8 DEF ChangePassword, Copy
  <2> QED BY <1>8, <2>1 DEF ChangePassword, IsUser
<1>9. ASSUME \/ AcceptMembers \/ CancelMembers
             \/ \E ds \in SUBSET Users : OpenDialog(ds) \/ MoveItems(ds)
             \/ \E i \in 1..MaxRows, d \in Users : Edit(i, d)
             \/ \E r \in Row : AddRow(r)
      PROVE  CopiesAgree'
  <2>1. UNCHANGED <<classes, stored, seen, phase, calm, added>>
    BY <1>9 DEF AcceptMembers, CancelMembers, OpenDialog, MoveItems, Edit, AddRow
  <2>2. menu' \in {"closed", "members", menu}
    BY <1>9 DEF AcceptMembers, CancelMembers, OpenDialog, MoveItems, Edit, AddRow
  <2> QED BY <2>1, <2>2 DEF UserEnabled, IsUser
<1>10. ASSUME NEW control \in Control, NEW account \in Account, OtherWrites(control, account)
       PROVE  CopiesAgree'
  <2>1. stored' \in Copy
    BY <1>10 DEF OtherWrites, Copy, Control
  <2> QED BY <1>10, <2>1 DEF OtherWrites, UserEnabled
<1>11. CASE UNCHANGED accountsVars
    BY <1>11 DEF accountsVars, UserEnabled, IsUser
<1> QED BY <1>1, <1>2, <1>3, <1>4, <1>5, <1>6, <1>7, <1>8, <1>9, <1>10, <1>11 DEF AccountsNext

(* The rows of the table, whoever made them.                               *)
RowsTyped == rows \in Seq(Row)

LEMMA RowsTypedStill ==
    ASSUME CopiesAgree, RowsTyped, [AccountsNext]_accountsVars
    PROVE  RowsTyped'
<1> USE DEF RowsTyped
<1>1. ASSUME NEW ok \in BOOLEAN, Flush(ok) PROVE RowsTyped'
  <2>1. stored.names \in SUBSET Row
    BY DEF CopiesAgree, CopiesTyped, Copy
  <2> QED
    BY <1>1, <2>1, LoadedIsRows DEF Flush
<1>2. ASSUME AcceptMembers PROVE RowsTyped'
  <2>1. PICK rs \in Added(rows, Members(rows), Chosen) :
            rows' = Removed(rs, Members(rows), Chosen)
    BY <1>2 DEF AcceptMembers
  <2>2. Members(rows) \in Seq(Row) /\ Chosen \in SUBSET Users
    BY OnlyKeeps DEF Members, Chosen
  <2>3. PICK new \in Seq(Row) : rs = rows \o new
    BY <2>2, AddedRows
  <2>4. rs \in Seq(Row)
    BY <2>3, ConcatProperties
  <2> QED
    BY <2>1, <2>2, <2>4, RemovedRows
<1>3. ASSUME NEW i \in 1 .. MaxRows, NEW d \in Users, Edit(i, d) PROVE RowsTyped'
  <2>1. i \in DOMAIN rows /\ rows' = [rows EXCEPT ![i].value = d]
    BY <1>3 DEF Edit
  <2>2. Len(rows) \in Nat /\ DOMAIN rows = 1 .. Len(rows) /\ rows \in [1 .. Len(rows) -> Row]
    BY LenProperties
  <2>3. [rows[i] EXCEPT !.value = d] \in Row
    BY <2>1, <2>2 DEF Row
  <2>4. rows' \in [1 .. Len(rows) -> Row]
    BY <2>1, <2>2, <2>3
  <2> QED
    BY <2>2, <2>4
<1>4. ASSUME NEW r \in Row, AddRow(r) PROVE RowsTyped'
  BY <1>4 DEF AddRow
<1>5. CASE UNCHANGED rows
  BY <1>5
<1>6. ASSUME AccountsNext
      PROVE  \/ \E ok \in BOOLEAN : Flush(ok)
             \/ AcceptMembers
             \/ \E i \in 1 .. MaxRows, d \in Users : Edit(i, d)
             \/ \E r \in Row : AddRow(r)
             \/ UNCHANGED rows
  <2>1. CASE \E ok \in BOOLEAN :
                 \/ Add(ok) \/ ReadAdded(ok) \/ NameAccount(ok) \/ Read(ok) \/ EnableUser(ok)
                 \/ \E same \in BOOLEAN : ChangePassword(same, ok)
    BY <2>1 DEF Add, ReadAdded, NameAccount, Read, EnableUser, ChangePassword
  <2>2. CASE OpenMenu \/ CloseMenu \/ CancelMembers
             \/ \E ds \in SUBSET Users : OpenDialog(ds) \/ MoveItems(ds)
    BY <2>2 DEF OpenMenu, CloseMenu, CancelMembers, OpenDialog, MoveItems
  <2>3. CASE \E control \in Control, account \in Account : OtherWrites(control, account)
    BY <2>3 DEF OtherWrites
  <2> QED
    BY <1>6, <2>1, <2>2, <2>3 DEF AccountsNext
<1> QED
  BY <1>1, <1>2, <1>3, <1>4, <1>5, <1>6 DEF accountsVars

AccountsInv == CopiesAgree /\ RowsTyped

THEOREM AccountsAlwaysFit == AccountsSpec => []AccountsInv
<1>1. AccountsInit => AccountsInv
  <2> SUFFICES ASSUME AccountsInit PROVE AccountsInv
    OBVIOUS
  <2>1. CopiesAgree
    BY CopiesAgreeAtFirst
  <2>2. CASE rows = <<>>
    BY <2>1, <2>2, EmptySeq DEF AccountsInv, RowsTyped
  <2>3. CASE rows \in Loaded(stored)
    <3>1. stored.names \in SUBSET Row
      BY <2>1 DEF CopiesAgree, CopiesTyped, Copy
    <3> QED
      BY <2>1, <2>3, <3>1, LoadedIsRows DEF AccountsInv, RowsTyped
  <2> QED
    BY <2>2, <2>3 DEF AccountsInit
<1>2. AccountsInv /\ [AccountsNext]_accountsVars => AccountsInv'
  BY CopiesAgreeStill, RowsTypedStill DEF AccountsInv
<1> QED
  BY <1>1, <1>2, PTL DEF AccountsSpec

(***************************************************************************)
(* Whatever failed before and whatever other clients wrote: a toggle that  *)
(* the server accepts leaves the account as the menu said, and the other   *)
(* bits as the editor read them; with no other client and no failed search *)
(* since, the copy it read is the server's (CLdapServer::enableUser,       *)
(* disableUser).                                                           *)
(***************************************************************************)
THEOREM ToggleDoesAsTold == AccountsSpec => ToggleIsExact
<1>1. AccountsInv /\ [AccountsNext]_accountsVars =>
        [\A ok \in BOOLEAN : EnableUser(ok) /\ stored' # stored =>
            /\ Disabled \in stored'.control <=> menu = "Disable user"
            /\ stored'.control \ {Disabled} = seen.control \ {Disabled}
            /\ calm => stored'.control \ {Disabled} = stored.control \ {Disabled}]_accountsVars
  <2> SUFFICES ASSUME AccountsInv, NEW ok \in BOOLEAN, EnableUser(ok), stored' # stored
               PROVE  /\ Disabled \in stored'.control <=> menu = "Disable user"
                      /\ stored'.control \ {Disabled} = seen.control \ {Disabled}
                      /\ calm => stored'.control \ {Disabled} = stored.control \ {Disabled}
      OBVIOUS
  <2>1. Unset \notin seen.control /\ stored' = [stored EXCEPT !.control = Toggled(seen)]
    BY DEF EnableUser
  <2>2. stored'.control = Toggled(seen)
    BY <2>1 DEF AccountsInv, CopiesAgree, CopiesTyped, Copy
  <2>3. menu = "Disable user" <=> UserEnabled(seen)
    BY DEF EnableUser, AccountsInv, CopiesAgree, MenuIsFresh
  <2>4. UserEnabled(seen) <=> Disabled \notin seen.control
    BY <2>1 DEF UserEnabled
  <2>5. calm => seen.control = stored.control
    BY DEF EnableUser, AccountsInv, CopiesAgree, MenuIsFresh, SeenIsStored
  <2>6. stored'.control \ {Disabled} = seen.control \ {Disabled}
    BY <2>2 DEF Toggled
  <2> QED BY <2>2, <2>3, <2>4, <2>5, <2>6 DEF Toggled
<1> QED BY <1>1, AccountsAlwaysFit, PTL DEF ToggleIsExact, AccountsSpec

(***************************************************************************)
(* While no other client writes and no search after a request fails, the   *)
(* icon and the cached account name are those of the server, requests may  *)
(* be refused or not; a user added here goes by the entry's name, or, after*)
(* a refusal, by the one the server chose, for good (CLdapServer::add,     *)
(* CLdapTreeModel::data).                                                  *)
(***************************************************************************)
THEOREM TreeIsTruthful == AccountsSpec => []TreeTellsTheTruth
<1>1. AccountsInv => TreeTellsTheTruth
  <2> SUFFICES ASSUME AccountsInv, phase = "idle"
               PROVE  /\ calm => Icon(seen) = Icon(stored) /\ seen.account = stored.account
                      /\ added = "named" /\ (\E i \in DOMAIN classes : classes[i] = "user")
                            => stored.account # "own"
                      /\ added = "unnamed" => stored.account # "cn"
    BY DEF TreeTellsTheTruth
  <2>1. calm => seen.control = stored.control /\ seen.account = stored.account
    BY DEF AccountsInv, CopiesAgree, SeenIsStored
  <2>2. calm => Icon(seen) = Icon(stored)
    BY <2>1 DEF Icon, UserEnabled
  <2>3. added = "named" /\ IsUser(classes) => stored.account # "own"
    BY DEF AccountsInv, CopiesAgree, AddedIsNamed
  <2>4. added = "unnamed" => stored.account # "cn"
    BY DEF AccountsInv, CopiesAgree, RefusedIsUnnamed
  <2> QED
    BY <2>1, <2>2, <2>3, <2>4 DEF IsUser
<1> QED BY <1>1, AccountsAlwaysFit, PTL

(***************************************************************************)
(* The group dialog, whatever the rows were before: as many rows of one    *)
(* member as there may be, in any order, among rows of other attributes,   *)
(* with the same names or not.  The loop looks for a name anywhere in the  *)
(* table: of the rows with a name given up, the first ones go, as many as  *)
(* there were members of that name (CAttributesList::onManageUsersInGroup).*)
(***************************************************************************)
THEOREM MembersAlwaysAsChosen == AccountsSpec => MembersAsChosen
<1>1. ASSUME AccountsInv, AcceptMembers
      PROVE  /\ \A d \in GivenUp : Only(rows', Of(d)) =
                    After(Only(rows, Of(d)), Len(Only(Members(rows), Of(d))))
             /\ Values(Members(rows')) \ GivenUp = Chosen
             /\ Only(rows', Unnamed) = Only(rows, Unnamed)
  <2>1. PICK rs \in Added(rows, Members(rows), Chosen) :
            rows' = Removed(rs, Members(rows), Chosen)
    BY <1>1 DEF AcceptMembers
  <2>2. rows \in Seq(Row) /\ Chosen \in SUBSET Users
    BY <1>1 DEF AccountsInv, RowsTyped, Chosen
  <2> QED
    BY <2>1, <2>2, MembersAccepted DEF GivenUp, Unnamed
<1>2. AccountsInv /\ [AccountsNext]_accountsVars =>
        [AcceptMembers =>
          /\ \A d \in GivenUp : Only(rows', Of(d)) =
                 After(Only(rows, Of(d)), Len(Only(Members(rows), Of(d))))
          /\ Values(Members(rows')) \ GivenUp = Chosen
          /\ Only(rows', Unnamed) = Only(rows, Unnamed)]_accountsVars
  BY <1>1
<1> QED
  BY <1>2, AccountsAlwaysFit, PTL DEF MembersAsChosen, AccountsSpec
==============================================================================
