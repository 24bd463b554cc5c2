-------------------------- MODULE EntryContentsProofs --------------------------
(***************************************************************************)
(* EntryContents, for any names and spellings of them, any values and any  *)
(* lists of them: the list of attributes has one of each name, and is the  *)
(* map of EntryPromise.                                                    *)
(*                                                                         *)
(* The first half is about lists: what each of the library's operations on *)
(* one does to the map it stands for.  The second half is the invariant of *)
(* reading an entry, and the two theorems.                                 *)
(***************************************************************************)
EXTENDS EntryContents, FiniteSetTheorems, SequenceTheorems, TLAPS

NameOf(attr) == Fold[attr.name]
NamedIn(list, n) == \E i \in DOMAIN list : NameOf(list[i]) = n

(* OneOfEachName, Held and Lost of any list. *)
Unique(list) == \A i, j \in DOMAIN list : NameOf(list[i]) = NameOf(list[j]) => i = j
HeldIn(list) == [n \in Names |->
    IF \E i \in DOMAIN list : NameOf(list[i]) = n
    THEN list[CHOOSE i \in DOMAIN list : NameOf(list[i]) = n].values
    ELSE <<>>]
LostIn(list) == {n \in Names : \E i \in DOMAIN list :
                    NameOf(list[i]) = n /\ list[i].hexData # <<>>}

LEMMA NameOfAttribute == ASSUME NEW attr \in Attribute PROVE NameOf(attr) \in Names
BY NamesAssumption DEF NameOf, Attribute

LEMMA NewIsAttribute ==
    ASSUME NEW s \in Spellings, NEW vs \in Seq(Values)
    PROVE  /\ NewAttribute(s, vs) \in Attribute
           /\ NewAttribute(s, vs).name = s /\ NewAttribute(s, vs).values = vs
           /\ NewAttribute(s, vs).hexData = <<>>
BY DEF NewAttribute, Attribute

-----------------------------------------------------------------------------
(* What a list stands for, name by name. *)

LEMMA ThereIs ==
    ASSUME NEW list \in Seq(Attribute), Unique(list), NEW i \in DOMAIN list
    PROVE  /\ HeldIn(list)[NameOf(list[i])] = list[i].values
           /\ NameOf(list[i]) \in LostIn(list) <=> list[i].hexData # <<>>
<1>1. NameOf(list[i]) \in Names
    BY NameOfAttribute
<1>2. (CHOOSE j \in DOMAIN list : NameOf(list[j]) = NameOf(list[i])) = i
    BY DEF Unique
<1>3. HeldIn(list)[NameOf(list[i])] = list[i].values
    BY <1>1, <1>2 DEF HeldIn
<1>4. NameOf(list[i]) \in LostIn(list) <=> list[i].hexData # <<>>
    BY <1>1 DEF LostIn, Unique
<1> QED BY <1>3, <1>4

LEMMA ThereIsNone ==
    ASSUME NEW list, NEW n \in Names, ~NamedIn(list, n)
    PROVE  HeldIn(list)[n] = <<>> /\ n \notin LostIn(list)
BY DEF NamedIn, HeldIn, LostIn

(* Two lists with the same attributes but for one name. *)
LEMMA SameButFor ==
    ASSUME NEW list1 \in Seq(Attribute), Unique(list1),
           NEW list2 \in Seq(Attribute), Unique(list2), NEW n \in Names,
           \A i \in DOMAIN list1 : NameOf(list1[i]) # n =>
               \E j \in DOMAIN list2 : list2[j] = list1[i],
           \A j \in DOMAIN list2 : NameOf(list2[j]) # n =>
               \E i \in DOMAIN list1 : list1[i] = list2[j]
    PROVE  /\ HeldIn(list2) = [HeldIn(list1) EXCEPT ![n] = HeldIn(list2)[n]]
           /\ LostIn(list2) \ {n} = LostIn(list1) \ {n}
<1>1. ASSUME NEW m \in Names, m # n
      PROVE  /\ HeldIn(list2)[m] = HeldIn(list1)[m]
             /\ m \in LostIn(list2) <=> m \in LostIn(list1)
  <2>1. CASE NamedIn(list1, m)
    <3>1. PICK i \in DOMAIN list1 : NameOf(list1[i]) = m
      BY <2>1 DEF NamedIn
    <3>2. PICK j \in DOMAIN list2 : list2[j] = list1[i]
      BY <3>1, <1>1
    <3> QED BY <3>1, <3>2, ThereIs
  <2>2. CASE ~NamedIn(list1, m)
    <3>1. ~NamedIn(list2, m)
      BY <1>1, <2>2 DEF NamedIn
    <3> QED BY <2>2, <3>1, ThereIsNone
  <2> QED BY <2>1, <2>2
<1>2. HeldIn(list2) = [HeldIn(list1) EXCEPT ![n] = HeldIn(list2)[n]]
  <2> DEFINE f == HeldIn(list1)
             g == HeldIn(list2)
  <2>1. f = [m \in Names |-> f[m]] /\ g = [m \in Names |-> g[m]]
    BY DEF HeldIn
  <2>2. \A m \in Names : m # n => g[m] = f[m]
    BY <1>1
  <2> HIDE DEF f, g
  <2>3. g = [f EXCEPT ![n] = g[n]]
    BY <2>1, <2>2
  <2> QED BY <2>3 DEF f, g
<1>3. LostIn(list1) \subseteq Names /\ LostIn(list2) \subseteq Names
    BY DEF LostIn
<1> QED BY <1>1, <1>2, <1>3

-----------------------------------------------------------------------------
(* The operations on a list. *)

(* getAttributeByName finds it. *)
LEMMA ByName ==
    ASSUME NEW list \in Seq(Attribute), Unique(list), NEW s \in Spellings, Has(list, s)
    PROVE  /\ AttributeByName(list, s) \in DOMAIN list
           /\ NameOf(list[AttributeByName(list, s)]) = Fold[s]
<1>1. PICK i \in DOMAIN list : IsNamed(list, i, s)
    BY DEF Has
<1>2. \A j \in 1..(i - 1) : ~IsNamed(list, j, s)
    BY <1>1 DEF IsNamed, Unique, NameOf
<1> QED BY <1>1, <1>2 DEF AttributeByName, IsNamed, NameOf

LEMMA HasIsNamedIn ==
    ASSUME NEW list, NEW s PROVE Has(list, s) <=> NamedIn(list, Fold[s])
BY DEF Has, IsNamed, NamedIn, NameOf

LEMMA Appended ==
    ASSUME NEW list \in Seq(Attribute), Unique(list), NEW attr \in Attribute,
           ~NamedIn(list, NameOf(attr))
    PROVE  LET n == NameOf(attr)
               new == Append(list, attr)
           IN  /\ new \in Seq(Attribute) /\ Unique(new)
               /\ HeldIn(new) = [HeldIn(list) EXCEPT ![n] = attr.values]
               /\ LostIn(new) = LostIn(list) \union (IF attr.hexData = <<>> THEN {} ELSE {n})
<1> DEFINE n == NameOf(attr)
           new == Append(list, attr)
           k == Len(list) + 1
<1>1. n \in Names
    BY NameOfAttribute
<1>2. /\ new \in Seq(Attribute) /\ k \in DOMAIN new /\ new[k] = attr
      /\ DOMAIN new = DOMAIN list \union {k}
      /\ \A i \in DOMAIN list : new[i] = list[i]
    OBVIOUS
<1>3. Unique(new)
    BY <1>2 DEF Unique, NamedIn
<1>4. HeldIn(new)[n] = attr.values /\ (n \in LostIn(new) <=> attr.hexData # <<>>)
    BY <1>2, <1>3, ThereIs
<1>5. n \notin LostIn(list)
    BY <1>1, ThereIsNone
<1> HIDE DEF new, k
<1>6. /\ \A i \in DOMAIN list : NameOf(list[i]) # n => \E j \in DOMAIN new : new[j] = list[i]
      /\ \A j \in DOMAIN new : NameOf(new[j]) # n => \E i \in DOMAIN list : list[i] = new[j]
    BY <1>2
<1> HIDE DEF n
<1>7. /\ HeldIn(new) = [HeldIn(list) EXCEPT ![n] = HeldIn(new)[n]]
      /\ LostIn(new) \ {n} = LostIn(list) \ {n}
    BY <1>1, <1>2, <1>3, <1>6, SameButFor
<1>8. LostIn(new) = LostIn(list) \union (IF attr.hexData = <<>> THEN {} ELSE {n})
    BY <1>4, <1>5, <1>7
<1> QED BY <1>2, <1>3, <1>4, <1>7, <1>8 DEF new, n

LEMMA Replaced ==
    ASSUME NEW list \in Seq(Attribute), Unique(list), NEW i \in DOMAIN list,
           NEW vs \in Seq(Values)
    PROVE  LET n == NameOf(list[i])
               new == [list EXCEPT ![i].values = vs]
           IN  /\ new \in Seq(Attribute) /\ Unique(new)
               /\ HeldIn(new) = [HeldIn(list) EXCEPT ![n] = vs]
               /\ LostIn(new) = LostIn(list)
<1> DEFINE n == NameOf(list[i])
           attr == [list[i] EXCEPT !.values = vs]
           new == [list EXCEPT ![i] = attr]
<1>1. n \in Names
    BY NameOfAttribute
<1>2. /\ attr \in Attribute /\ attr.values = vs /\ attr.hexData = list[i].hexData
      /\ attr.name = list[i].name
  <2>1. list[i] \in Attribute
    OBVIOUS
  <2> QED BY <2>1 DEF Attribute
<1>3. NameOf(attr) = n
    BY <1>2 DEF NameOf
<1> HIDE DEF attr
<1>4. /\ new \in Seq(Attribute) /\ DOMAIN new = DOMAIN list /\ new[i] = attr
      /\ \A j \in DOMAIN list : j # i => new[j] = list[j]
    BY <1>2
<1>5. Unique(new)
    BY <1>3, <1>4 DEF Unique
<1>6. HeldIn(new)[n] = vs /\ (n \in LostIn(new) <=> n \in LostIn(list))
    BY <1>2, <1>3, <1>4, <1>5, ThereIs
<1> HIDE DEF new
<1>7. /\ \A k \in DOMAIN list : NameOf(list[k]) # n => \E j \in DOMAIN new : new[j] = list[k]
      /\ \A j \in DOMAIN new : NameOf(new[j]) # n => \E k \in DOMAIN list : list[k] = new[j]
    BY <1>3, <1>4
<1> HIDE DEF n
<1>8. /\ HeldIn(new) = [HeldIn(list) EXCEPT ![n] = HeldIn(new)[n]]
      /\ LostIn(new) \ {n} = LostIn(list) \ {n}
    BY <1>1, <1>4, <1>5, <1>7, SameButFor
<1>9. LostIn(new) = LostIn(list)
  <2> DEFINE old == LostIn(list)
             left == LostIn(new)
  <2>1. (n \in left <=> n \in old) /\ left \ {n} = old \ {n}
    BY <1>6, <1>8
  <2> HIDE DEF old, left
  <2>2. \A m : m \in left <=> m \in old
    BY <2>1
  <2>3. left = old
    BY <2>2
  <2> QED BY <2>3 DEF old, left
<1>10. new = [list EXCEPT ![i].values = vs]
    BY DEF new, attr
<1> QED BY <1>4, <1>5, <1>6, <1>8, <1>9, <1>10 DEF n

LEMMA RemoveAtElements ==
    ASSUME NEW S, NEW list \in Seq(S), NEW i \in DOMAIN list
    PROVE  /\ RemoveAt(list, i) \in Seq(S)
           /\ Len(RemoveAt(list, i)) = Len(list) - 1
           /\ \A j \in DOMAIN RemoveAt(list, i) :
                 RemoveAt(list, i)[j] = IF j < i THEN list[j] ELSE list[j + 1]
<1>1. i \in 1..Len(list) /\ Len(list) \in Nat
    OBVIOUS
<1> DEFINE s1 == SubSeq(list, 1, i - 1)
           s2 == SubSeq(list, i + 1, Len(list))
<1>2. /\ s1 \in Seq(S) /\ Len(s1) = i - 1
      /\ \A j \in 1..(i - 1) : s1[j] = list[j]
    BY <1>1
<1>3. /\ s2 \in Seq(S) /\ Len(s2) = Len(list) - i
      /\ \A j \in 1..(Len(list) - i) : s2[j] = list[i + j]
    BY <1>1
<1>4. RemoveAt(list, i) = s1 \o s2
    BY DEF RemoveAt
<1> HIDE DEF s1, s2
<1>5. s1 \o s2 \in Seq(S) /\ Len(s1 \o s2) = Len(list) - 1
    BY <1>1, <1>2, <1>3
<1>6. ASSUME NEW j \in 1..(Len(list) - 1)
      PROVE  (s1 \o s2)[j] = IF j < i THEN list[j] ELSE list[j + 1]
  <2>1. CASE j < i
    BY <1>1, <1>2, <1>3, <2>1
  <2>2. CASE ~(j < i)
    <3> DEFINE a == Len(s1)
               b == Len(s2)
    <3>0. a = i - 1 /\ b = Len(list) - i /\ j \in (a + 1)..(a + b) /\ j - a = j - i + 1
      BY <1>1, <1>2, <1>3, <2>2
    <3>1. \A k \in 1..(a + b) : (s1 \o s2)[k] = IF k <= a THEN s1[k] ELSE s2[k - a]
      BY <1>2, <1>3, ConcatProperties
    <3>2. a \in Nat /\ b \in Nat
      BY <1>1, <3>0
    <3> HIDE DEF a, b
    <3>3. j \in 1..(a + b) /\ ~(j <= a)
      BY <3>0, <3>2
    <3>4. (s1 \o s2)[j] = s2[j - i + 1]
      BY <3>0, <3>1, <3>3
    <3>5. j - i + 1 \in 1..(Len(list) - i) /\ i + (j - i + 1) = j + 1
      BY <1>1, <2>2
    <3> QED BY <1>3, <2>2, <3>4, <3>5
  <2> QED BY <2>1, <2>2
<1>7. DOMAIN (s1 \o s2) = 1..(Len(list) - 1)
    BY <1>1, <1>5
<1> QED BY <1>4, <1>5, <1>6, <1>7

LEMMA Removed ==
    ASSUME NEW list \in Seq(Attribute), Unique(list), NEW i \in DOMAIN list
    PROVE  LET n == NameOf(list[i])
               new == RemoveAt(list, i)
           IN  /\ new \in Seq(Attribute) /\ Unique(new) /\ ~NamedIn(new, n)
               /\ HeldIn(new) = [HeldIn(list) EXCEPT ![n] = <<>>]
               /\ LostIn(new) = LostIn(list) \ {n}
<1> DEFINE n == NameOf(list[i])
           new == RemoveAt(list, i)
           From(j) == IF j < i THEN j ELSE j + 1
<1>1. n \in Names
    BY NameOfAttribute
<1>2. /\ new \in Seq(Attribute) /\ Len(new) = Len(list) - 1
      /\ \A j \in DOMAIN new : new[j] = IF j < i THEN list[j] ELSE list[j + 1]
    BY RemoveAtElements
<1>3. i \in 1..Len(list) /\ Len(list) \in Nat
      /\ DOMAIN list = 1..Len(list) /\ DOMAIN new = 1..(Len(list) - 1)
    BY <1>2
<1>4. \A j \in DOMAIN new : From(j) \in DOMAIN list /\ From(j) # i /\ new[j] = list[From(j)]
    BY <1>2, <1>3
<1>5. \A j, k \in DOMAIN new : From(j) = From(k) => j = k
    BY <1>3
<1>6. \A k \in DOMAIN list : k # i => \E j \in DOMAIN new : From(j) = k
  <2> SUFFICES ASSUME NEW k \in DOMAIN list, k # i
               PROVE  \E j \in DOMAIN new : From(j) = k
      OBVIOUS
  <2>1. CASE k < i
    BY <1>3, <2>1
  <2>2. CASE ~(k < i)
    <3>1. k - 1 \in DOMAIN new /\ From(k - 1) = k
      BY <1>3, <2>2
    <3> QED BY <3>1
  <2> QED BY <2>1, <2>2
<1> HIDE DEF new, From
<1>7. Unique(new)
    BY <1>4, <1>5 DEF Unique
<1>8. ~NamedIn(new, n)
    BY <1>4 DEF Unique, NamedIn
<1>9. /\ \A k \in DOMAIN list : NameOf(list[k]) # n => \E j \in DOMAIN new : new[j] = list[k]
      /\ \A j \in DOMAIN new : NameOf(new[j]) # n => \E k \in DOMAIN list : list[k] = new[j]
    BY <1>4, <1>6
<1> HIDE DEF n
<1>10. /\ HeldIn(new) = [HeldIn(list) EXCEPT ![n] = HeldIn(new)[n]]
       /\ LostIn(new) \ {n} = LostIn(list) \ {n}
    BY <1>1, <1>2, <1>7, <1>9, SameButFor
<1>11. HeldIn(new)[n] = <<>> /\ n \notin LostIn(new)
    BY <1>1, <1>8, ThereIsNone
<1> QED BY <1>2, <1>7, <1>8, <1>10, <1>11 DEF new, n

(* delAttribute, addAttribute, replaceAttribute and setValues. *)
LEMMA DelAttributeMaps ==
    ASSUME NEW list \in Seq(Attribute), Unique(list), NEW s \in Spellings
    PROVE  LET new == DelAttribute(list, s)
           IN  /\ new \in Seq(Attribute) /\ Unique(new) /\ ~NamedIn(new, Fold[s])
               /\ HeldIn(new) = [HeldIn(list) EXCEPT ![Fold[s]] = <<>>]
               /\ LostIn(new) = LostIn(list) \ {Fold[s]}
<1>1. CASE Has(list, s)
  <2>1. DelAttribute(list, s) = RemoveAt(list, AttributeByName(list, s))
    BY <1>1 DEF DelAttribute
  <2> QED BY <1>1, <2>1, ByName, Removed
<1>2. CASE ~Has(list, s)
  <2>1. DelAttribute(list, s) = list /\ ~NamedIn(list, Fold[s]) /\ Fold[s] \in Names
    BY <1>2, HasIsNamedIn, NamesAssumption DEF DelAttribute
  <2>2. HeldIn(list)[Fold[s]] = <<>> /\ Fold[s] \notin LostIn(list)
    BY <2>1, ThereIsNone
  <2>3. HeldIn(list) = [HeldIn(list) EXCEPT ![Fold[s]] = <<>>]
    BY <2>2 DEF HeldIn
  <2>4. LostIn(list) = LostIn(list) \ {Fold[s]}
    BY <2>2
  <2> QED BY <2>1, <2>3, <2>4
<1> QED BY <1>1, <1>2

LEMMA AddAttributeMaps ==
    ASSUME NEW list \in Seq(Attribute), Unique(list), NEW attr \in Attribute,
           attr.hexData = <<>>
    PROVE  LET new == AddAttribute(list, attr)
               n == NameOf(attr)
           IN  /\ new \in Seq(Attribute) /\ Unique(new)
               /\ HeldIn(new) = [HeldIn(list) EXCEPT ![n] = @ \o attr.values]
               /\ LostIn(new) = LostIn(list)
<1> DEFINE n == NameOf(attr)
<1>1. /\ attr.name \in Spellings /\ attr.values \in Seq(Values) /\ n = Fold[attr.name]
      /\ n \in Names
    BY NameOfAttribute DEF Attribute, NameOf
<1>2. CASE Has(list, attr.name)
  <2> DEFINE i == AttributeByName(list, attr.name)
             vs == list[i].values \o attr.values
  <2>1. i \in DOMAIN list /\ NameOf(list[i]) = n
    BY <1>1, <1>2, ByName
  <2>2. HeldIn(list)[n] = list[i].values
    BY <2>1, ThereIs
  <2>3. AddAttribute(list, attr) = [list EXCEPT ![i].values = vs]
    BY <1>2 DEF AddAttribute
  <2> HIDE DEF i
  <2>4. list[i] \in Attribute
    BY <2>1
  <2>5. vs \in Seq(Values) /\ vs = HeldIn(list)[n] \o attr.values
    BY <1>1, <2>2, <2>4 DEF Attribute
  <2> HIDE DEF vs
  <2>6. /\ AddAttribute(list, attr) \in Seq(Attribute) /\ Unique(AddAttribute(list, attr))
        /\ HeldIn(AddAttribute(list, attr)) = [HeldIn(list) EXCEPT ![n] = vs]
        /\ LostIn(AddAttribute(list, attr)) = LostIn(list)
    <3> DEFINE new == [list EXCEPT ![i].values = vs]
    <3>1. vs \in Seq(Values) /\ i \in DOMAIN list
      BY <2>1, <2>5
    <3>2. /\ new \in Seq(Attribute) /\ Unique(new)
          /\ HeldIn(new) = [HeldIn(list) EXCEPT ![NameOf(list[i])] = vs]
          /\ LostIn(new) = LostIn(list)
      BY <3>1, Replaced
    <3>3. AddAttribute(list, attr) = new
      BY <2>3
    <3> HIDE DEF new, n
    <3> QED BY <2>1, <3>2, <3>3
  <2> QED BY <2>5, <2>6
<1>3. CASE ~Has(list, attr.name)
  <2>1. AddAttribute(list, attr) = Append(list, attr)
    BY <1>3 DEF AddAttribute
  <2>0. ~NamedIn(list, NameOf(attr))
    BY <1>1, <1>3, HasIsNamedIn
  <2>2. HeldIn(list)[n] = <<>>
    BY <1>1, <2>0, ThereIsNone
  <2>3. <<>> \o attr.values = attr.values
    BY <1>1
  <2>4. /\ Append(list, attr) \in Seq(Attribute) /\ Unique(Append(list, attr))
        /\ HeldIn(Append(list, attr)) = [HeldIn(list) EXCEPT ![n] = attr.values]
        /\ LostIn(Append(list, attr)) = LostIn(list)
    BY <2>0, Appended, ZenonT(30)
  <2> QED BY <2>1, <2>2, <2>3, <2>4
<1> QED BY <1>2, <1>3

LEMMA ReplaceAttributeMaps ==
    ASSUME NEW list \in Seq(Attribute), Unique(list), NEW attr \in Attribute,
           attr.hexData = <<>>
    PROVE  LET new == ReplaceAttribute(list, attr)
               n == NameOf(attr)
           IN  /\ new \in Seq(Attribute) /\ Unique(new)
               /\ HeldIn(new) = [HeldIn(list) EXCEPT ![n] = attr.values]
               /\ LostIn(new) = LostIn(list) \ {n}
<1> DEFINE n == NameOf(attr)
           old == DelAttribute(list, attr.name)
<1>1. attr.name \in Spellings /\ n = Fold[attr.name]
    BY DEF Attribute, NameOf
<1>2. /\ old \in Seq(Attribute) /\ Unique(old) /\ ~NamedIn(old, n)
      /\ HeldIn(old) = [HeldIn(list) EXCEPT ![n] = <<>>]
      /\ LostIn(old) = LostIn(list) \ {n}
    BY <1>1, DelAttributeMaps, ZenonT(30)
<1>3. ReplaceAttribute(list, attr) = Append(old, attr)
    BY DEF ReplaceAttribute
<1> HIDE DEF old
<1>4. /\ Append(old, attr) \in Seq(Attribute) /\ Unique(Append(old, attr))
      /\ HeldIn(Append(old, attr)) = [HeldIn(old) EXCEPT ![n] = attr.values]
      /\ LostIn(Append(old, attr)) = LostIn(old)
    BY <1>2, Appended
<1>5. [[HeldIn(list) EXCEPT ![n] = <<>>] EXCEPT ![n] = attr.values]
        = [HeldIn(list) EXCEPT ![n] = attr.values]
    OBVIOUS
<1> QED BY <1>2, <1>3, <1>4, <1>5

-----------------------------------------------------------------------------
(* Reading an entry.  What has come of the attribute being read is either  *)
(* all there, each value once, or given up for a binary one.               *)

AllRead(vs, set) ==
    /\ set \subseteq Plain /\ IsFiniteSet(set)
    /\ Len(vs) = Cardinality(set) /\ Range(vs) = set

(* The attribute attr of name n, of whose values on the server, the set    *)
(* all, those in rest are still to come.                                   *)
HalfRead(attr, all, rest) ==
    /\ rest \subseteq all
    /\ attr.hexData = <<>> => AllRead(attr.values, all \ rest)
    /\ attr.hexData # <<>> => attr.values = <<>> /\ ~(all \subseteq Plain)

NoneUnread(list, names) == \A i \in DOMAIN list : NameOf(list[i]) \notin names

ReadInv ==
    /\ NoneUnread(attrs, unread)
    /\ current # None =>
          /\ NameOf(current) \notin unread /\ ~NamedIn(attrs, NameOf(current))
          /\ HalfRead(current, server[NameOf(current)], coming)

IInv == TypeOK /\ OneOfEachName /\ ReadInv

LEMMA NothingRead ==
    ASSUME NEW s \in Spellings, NEW all \in SUBSET Values
    PROVE  HalfRead(NewAttribute(s, <<>>), all, all)
<1>1. all \ all = {}
    OBVIOUS
<1>2. IsFiniteSet({}) /\ Cardinality({}) = 0
    BY FS_EmptySet
<1>3. Len(<<>>) = 0 /\ Range(<<>>) = {}
    BY DEF Range
<1> QED BY <1>1, <1>2, <1>3 DEF HalfRead, AllRead, NewAttribute

LEMMA RangeOfAppend ==
    ASSUME NEW vs \in Seq(Values), NEW v
    PROVE  Range(Append(vs, v)) = Range(vs) \union {v}
<1> DEFINE new == Append(vs, v)
           k == Len(vs) + 1
<1>1. /\ DOMAIN new = DOMAIN vs \union {k} /\ new[k] = v
      /\ \A i \in DOMAIN vs : new[i] = vs[i]
    OBVIOUS
<1> HIDE DEF new, k
<1>2. Range(new) = Range(vs) \union {v}
    BY <1>1 DEF Range
<1> QED BY <1>2 DEF new

LEMMA LongerIsNotEmpty ==
    ASSUME NEW vs \in Seq(Values), NEW w, Len(w) = Len(vs) + 1
    PROVE  w # <<>>
OBVIOUS

LEMMA OneMoreRead ==
    ASSUME NEW attr \in Attribute, NEW all \in SUBSET Values, NEW rest, NEW v \in rest,
           HalfRead(attr, all, rest)
    PROVE  /\ AddBerValue(attr, v) \in Attribute
           /\ AddBerValue(attr, v).name = attr.name
           /\ HalfRead(AddBerValue(attr, v), all, rest \ {v})
<1>1. /\ attr.name \in Spellings /\ attr.values \in Seq(Values) /\ attr.hexData \in Seq(Values)
      /\ v \in Values /\ v \in all /\ rest \subseteq all
    BY DEF Attribute, HalfRead
<1>2. all \ (rest \ {v}) = (all \ rest) \union {v} /\ v \notin all \ rest
    BY <1>1
<1>3. CASE attr.hexData # <<>>
  <2>1. AddBerValue(attr, v) = [attr EXCEPT !.hexData = Append(@, v)]
    BY <1>3 DEF AddBerValue
  <2>2. /\ Append(attr.hexData, v) \in Seq(Values)
        /\ Len(Append(attr.hexData, v)) = Len(attr.hexData) + 1
    BY <1>1
  <2>3. Append(attr.hexData, v) # <<>>
    BY <1>1, <2>2, LongerIsNotEmpty
  <2> QED BY <1>1, <1>3, <2>1, <2>2, <2>3 DEF Attribute, HalfRead
<1>4. CASE attr.hexData = <<>> /\ v \in Binary
  <2>1. AddBerValue(attr, v) = [attr EXCEPT !.hexData = attr.values \o <<v>>, !.values = <<>>]
    BY <1>4 DEF AddBerValue
  <2>2. attr.values \o <<v>> \in Seq(Values) /\ Len(attr.values \o <<v>>) = Len(attr.values) + 1
    BY <1>1
  <2>4. attr.values \o <<v>> # <<>>
    BY <1>1, <2>2, LongerIsNotEmpty
  <2>3. ~(all \subseteq Plain)
    BY <1>1, <1>4, ValuesAssumption
  <2> QED BY <1>1, <2>1, <2>2, <2>3, <2>4 DEF Attribute, HalfRead
<1>5. CASE attr.hexData = <<>> /\ v \notin Binary
  <2>1. AddBerValue(attr, v) = [attr EXCEPT !.values = Append(@, v)]
    BY <1>5 DEF AddBerValue, AddString
  <2>2. AllRead(attr.values, all \ rest)
    BY <1>5 DEF HalfRead
  <2>3. v \in Plain
    BY <1>1, <1>5 DEF Values
  <2>4. /\ IsFiniteSet((all \ rest) \union {v})
        /\ Cardinality((all \ rest) \union {v}) = Cardinality(all \ rest) + 1
    BY <1>2, <2>2, FS_AddElement DEF AllRead
  <2>5. /\ Append(attr.values, v) \in Seq(Values)
        /\ Len(Append(attr.values, v)) = Len(attr.values) + 1
        /\ Range(Append(attr.values, v)) = Range(attr.values) \union {v}
    BY <1>1, RangeOfAppend
  <2>6. AllRead(Append(attr.values, v), all \ (rest \ {v}))
    BY <1>2, <2>2, <2>3, <2>4, <2>5 DEF AllRead
  <2> QED BY <1>1, <1>5, <2>1, <2>5, <2>6 DEF Attribute, HalfRead
<1> QED BY <1>3, <1>4, <1>5

LEMMA Views ==
    /\ Held = HeldIn(attrs) /\ Lost = LostIn(attrs)
    /\ Held' = HeldIn(attrs') /\ Lost' = LostIn(attrs')
    /\ OneOfEachName <=> Unique(attrs)
    /\ OneOfEachName' <=> Unique(attrs')
BY DEF Held, HeldIn, Lost, LostIn, OneOfEachName, Unique, NameOf

LEMMA SameCardinality == \A S : Promise!Cardinality(S) = Cardinality(S)
BY DEF Cardinality, Promise!Cardinality, IsFiniteSet, Promise!IsFiniteSet

(* The invariant afterwards, from facts about the new values. *)
LEMMA After ==
    ASSUME server' \in [Names -> SUBSET Values], attrs' \in Seq(Attribute),
           unread' \subseteq Names, coming' \subseteq Values,
           current' \in Attribute \union {None},
           Unique(attrs'), NoneUnread(attrs', unread'),
           current' # None =>
               /\ NameOf(current') \notin unread' /\ ~NamedIn(attrs', NameOf(current'))
               /\ HalfRead(current', server'[NameOf(current')], coming')
    PROVE  IInv'
BY DEF IInv, TypeOK, OneOfEachName, ReadInv, Unique, NoneUnread, NamedIn, NameOf,
       HalfRead, AllRead, Range

LEMMA InitIInv == Init => IInv /\ Promise!Init
<1> SUFFICES ASSUME Init PROVE IInv /\ Promise!Init
    OBVIOUS
<1>1. TypeOK /\ OneOfEachName /\ ReadInv
    BY DEF Init, TypeOK, OneOfEachName, ReadInv, NoneUnread
<1>2. Held = [n \in Names |-> <<>>] /\ Lost = {}
    BY DEF Init, Held, Lost
<1> QED BY <1>1, <1>2 DEF IInv, Promise!Init, Init, Values, Promise!Values

(* What the operations make of the list, while no entry is being read.     *)
LEMMA ListChanges ==
    ASSUME IInv, NEW list \in Seq(Attribute), Changed(list), Unique(list)
    PROVE  IInv'
<1>1. /\ attrs' = list /\ unread' = {} /\ current' = None
      /\ server' = server /\ coming' = coming
    BY DEF Changed, Reading
<1>2. NoneUnread(attrs', unread')
    BY <1>1 DEF NoneUnread
<1>3. server' \in [Names -> SUBSET Values] /\ coming' \subseteq Values
    BY <1>1 DEF IInv, TypeOK
<1> QED BY <1>1, <1>2, <1>3, After

LEMMA ServerChanges ==
    ASSUME IInv, ~Reading, server' \in [Names -> SUBSET Values],
           UNCHANGED <<attrs, unread, current, coming>>
    PROVE  IInv' /\ Held' = Held /\ Lost' = Lost
<1>1. attrs' = attrs /\ unread' = {} /\ current' = None /\ coming' = coming
    BY DEF Reading
<1>2. attrs' \in Seq(Attribute) /\ Unique(attrs') /\ coming' \subseteq Values
    BY <1>1, Views DEF IInv, TypeOK
<1>3. NoneUnread(attrs', unread')
    BY <1>1 DEF NoneUnread
<1>4. IInv'
    BY <1>1, <1>2, <1>3, After
<1> QED BY <1>1, <1>4, Views

(* Every step keeps the invariant, and is a step of EntryPromise or none.  *)
LEMMA NextIInv == IInv /\ [Next]_vars => IInv' /\ [Promise!Next]_(Promise!vars)
<1> SUFFICES ASSUME IInv, [Next]_vars
             PROVE  IInv' /\ [Promise!Next]_(Promise!vars)
    OBVIOUS
<1>1. /\ server \in [Names -> SUBSET Values] /\ attrs \in Seq(Attribute)
      /\ unread \subseteq Names /\ coming \subseteq Values
      /\ current \in Attribute \union {None}
      /\ Unique(attrs) /\ ReadInv
    BY Views DEF IInv, TypeOK
<1>2. Held = HeldIn(attrs) /\ Lost = LostIn(attrs) /\ Held' = HeldIn(attrs') /\ Lost' = LostIn(attrs')
    BY Views
<1>3. Values = Promise!Values
    BY DEF Values, Promise!Values
<1>4. \A s \in Spellings : Fold[s] \in Names
    BY NamesAssumption
<1> DEFINE Step == IInv' /\ [Promise!Next]_(Promise!vars)
<1>5. ASSUME BeginRead PROVE Step
  <2>1. /\ attrs' = <<>> /\ unread' \subseteq Names /\ server' = server
        /\ current' = None /\ coming' = coming
    BY <1>5 DEF BeginRead, Reading
  <2>2. /\ Unique(attrs') /\ NoneUnread(attrs', unread') /\ attrs' \in Seq(Attribute)
        /\ HeldIn(attrs') = [n \in Names |-> <<>>] /\ LostIn(attrs') = {}
    BY <2>1 DEF Unique, NoneUnread, HeldIn, LostIn
  <2>3. IInv'
    BY <1>1, <2>1, <2>2, After
  <2>4. Promise!Clear
    BY <1>2, <2>1, <2>2 DEF Promise!Clear
  <2> QED BY <2>3, <2>4 DEF Promise!Next
<1>6. ASSUME NEW s \in Spellings, NextAttribute(s) PROVE Step
  <2> DEFINE n == Fold[s]
             attr == NewAttribute(s, <<>>)
  <2>1. /\ n \in unread /\ current' = attr /\ coming' = server[n] /\ unread' = unread \ {n}
        /\ server' = server /\ attrs' = attrs
    BY <1>6 DEF NextAttribute
  <2>2. attr \in Attribute /\ NameOf(attr) = n
    <3>1. <<>> \in Seq(Values)
      OBVIOUS
    <3> QED BY <3>1, NewIsAttribute DEF NameOf
  <2>3. ~NamedIn(attrs, n) /\ NoneUnread(attrs, unread \ {n})
    BY <1>1, <2>1 DEF ReadInv, NoneUnread, NamedIn
  <2>4. server[n] \in SUBSET Values
    BY <1>1, <1>4
  <2>5. HalfRead(attr, server[n], server[n])
    BY <2>4, NothingRead
  <2> HIDE DEF attr, n
  <2>6. IInv'
    BY <1>1, <2>1, <2>2, <2>3, <2>4, <2>5, After
  <2> QED BY <1>2, <2>1, <2>6 DEF Promise!vars
<1>7. ASSUME NEW v \in Values, NextValue(v) PROVE Step
  <2>1. /\ current # None /\ v \in coming
        /\ current' = AddBerValue(current, v) /\ coming' = coming \ {v}
        /\ server' = server /\ attrs' = attrs /\ unread' = unread
    BY <1>7 DEF NextValue
  <2>2. PICK attr \in Attribute : attr = current
    BY <1>1, <2>1
  <2>3. PICK rest : rest = coming
    OBVIOUS
  <2>4. PICK all : all = server[NameOf(attr)]
    OBVIOUS
  <2>5. all \in SUBSET Values
    BY <1>1, <2>4, NameOfAttribute
  <2>6. /\ NameOf(attr) \notin unread /\ ~NamedIn(attrs, NameOf(attr))
        /\ HalfRead(attr, all, rest) /\ NoneUnread(attrs, unread)
    BY <1>1, <2>1, <2>2, <2>3, <2>4 DEF ReadInv
  <2>7. /\ AddBerValue(attr, v) \in Attribute
        /\ AddBerValue(attr, v).name = attr.name
        /\ HalfRead(AddBerValue(attr, v), all, rest \ {v})
    BY <2>1, <2>3, <2>5, <2>6, OneMoreRead
  <2>8. NameOf(AddBerValue(attr, v)) = NameOf(attr)
    BY <2>7 DEF NameOf
  <2>9. /\ current' \in Attribute /\ NameOf(current') = NameOf(attr)
        /\ HalfRead(current', server'[NameOf(current')], coming')
    BY <2>1, <2>2, <2>3, <2>4, <2>7, <2>8
  <2>10. IInv'
    BY <1>1, <2>1, <2>6, <2>9, After
  <2> QED BY <1>2, <2>1, <2>10 DEF Promise!vars
<1>8. ASSUME EndAttribute PROVE Step
  <2>1. /\ current # None /\ coming = {} /\ attrs' = AddAttribute(attrs, current)
        /\ current' = None /\ server' = server /\ unread' = unread /\ coming' = coming
    BY <1>8 DEF EndAttribute
  <2>2. PICK attr \in Attribute : attr = current
    BY <1>1, <2>1
  <2>3. PICK list \in Seq(Attribute) : list = attrs
    BY <1>1
  <2> DEFINE n == NameOf(attr)
             new == Append(list, attr)
  <2>4. /\ n \notin unread /\ ~NamedIn(list, n) /\ Unique(list)
        /\ HalfRead(attr, server[n], {}) /\ NoneUnread(list, unread)
    BY <1>1, <2>1, <2>2, <2>3 DEF ReadInv
  <2>5. n \in Names
    BY NameOfAttribute
  <2>6. AddAttribute(list, attr) = new
    BY <2>4, HasIsNamedIn DEF AddAttribute, NameOf
  <2>7. /\ new \in Seq(Attribute) /\ Unique(new)
        /\ HeldIn(new) = [HeldIn(list) EXCEPT ![n] = attr.values]
        /\ LostIn(new) = LostIn(list) \union (IF attr.hexData = <<>> THEN {} ELSE {n})
    BY <2>4, Appended
  <2>8. attrs' = new
    BY <2>1, <2>2, <2>3, <2>6
  <2>9. NoneUnread(new, unread)
    BY <2>4 DEF NoneUnread
  <2>10. HeldIn(list)[n] = <<>>
    BY <2>4, <2>5, ThereIsNone
  <2>11. Held = HeldIn(list) /\ Lost = LostIn(list)
    BY <1>2, <2>3
  <2>12. server[n] \ {} = server[n]
    OBVIOUS
  <2>13. attr.values \in Seq(Values)
    BY DEF Attribute
  <2> HIDE DEF n, new
  <2>14. IInv'
    BY <1>1, <2>1, <2>7, <2>8, <2>9, After
  <2>15. CASE attr.hexData = <<>>
    <3>1. AllRead(attr.values, server[n])
      BY <2>4, <2>12, <2>15 DEF HalfRead
    <3>2. /\ server[n] \subseteq Plain /\ Promise!Listed(attr.values) = server[n]
          /\ attr.values \in [1..Cardinality(server[n]) -> server[n]]
      BY <2>13, <3>1 DEF AllRead, Range, Promise!Listed
    <3>3. Held' = [Held EXCEPT ![n] = attr.values] /\ Lost' = Lost
      BY <1>2, <2>7, <2>8, <2>11, <2>15
    <3>4. \E s \in [1..Promise!Cardinality(server[n]) -> server[n]] :
             Promise!Listed(s) = server[n] /\ Held' = [Held EXCEPT ![n] = s]
      BY <3>2, <3>3, SameCardinality
    <3>5. Held[n] = <<>>
      BY <2>10, <2>11
    <3>6. Promise!Receive(n)
      BY <2>1, <3>2, <3>3, <3>4, <3>5 DEF Promise!Receive
    <3> QED BY <2>5, <2>14, <3>6 DEF Promise!Next
  <2>16. CASE attr.hexData # <<>>
    <3>1. attr.values = <<>> /\ ~(server[n] \subseteq Plain)
      BY <2>4, <2>16 DEF HalfRead
    <3>2. [HeldIn(list) EXCEPT ![n] = <<>>] = HeldIn(list)
      BY <2>10 DEF HeldIn
    <3>3. Held' = Held /\ Lost' = Lost \union {n}
      BY <1>2, <2>7, <2>8, <2>11, <2>16, <3>1, <3>2
    <3>4. Promise!Receive(n)
      BY <2>1, <2>10, <2>11, <3>1, <3>3 DEF Promise!Receive
    <3> QED BY <2>5, <2>14, <3>4 DEF Promise!Next
  <2> QED BY <2>15, <2>16
<1>9. ASSUME NEW s \in Spellings, Delete(s) PROVE Step
  <2>1. PICK list \in Seq(Attribute) : list = attrs /\ Unique(list)
    BY <1>1
  <2>2. PICK new : new = DelAttribute(list, s)
    OBVIOUS
  <2>3. /\ new \in Seq(Attribute) /\ Unique(new)
        /\ HeldIn(new) = [HeldIn(list) EXCEPT ![Fold[s]] = <<>>]
        /\ LostIn(new) = LostIn(list) \ {Fold[s]}
    BY <2>1, <2>2, DelAttributeMaps
  <2>4. Changed(new)
    BY <1>9, <2>1, <2>2 DEF Delete
  <2>5. IInv'
    BY <2>3, <2>4, ListChanges
  <2>6. Promise!Forget(Fold[s])
    BY <1>2, <2>1, <2>3, <2>4 DEF Promise!Forget, Changed
  <2> QED BY <1>4, <2>5, <2>6 DEF Promise!Next
<1>10. ASSUME NEW s \in Spellings, NEW v \in Values, Add(s, v) PROVE Step
  <2>1. PICK list \in Seq(Attribute) : list = attrs /\ Unique(list)
    BY <1>1
  <2>2. PICK attr : attr = NewAttribute(s, <<v>>)
    OBVIOUS
  <2>3. <<v>> \in Seq(Values)
    OBVIOUS
  <2>4. /\ attr \in Attribute /\ attr.values = <<v>> /\ attr.hexData = <<>>
        /\ NameOf(attr) = Fold[s]
    BY <2>2, <2>3, NewIsAttribute DEF NameOf
  <2>5. PICK new : new = AddAttribute(list, attr)
    OBVIOUS
  <2>6. /\ new \in Seq(Attribute) /\ Unique(new)
        /\ HeldIn(new) = [HeldIn(list) EXCEPT ![Fold[s]] = @ \o <<v>>]
        /\ LostIn(new) = LostIn(list)
    BY <2>1, <2>4, <2>5, AddAttributeMaps
  <2>7. Changed(new)
    BY <1>10, <2>1, <2>2, <2>5 DEF Add
  <2>8. IInv'
    BY <2>6, <2>7, ListChanges
  <2>9. HeldIn(list)[Fold[s]] \o <<v>> = Append(HeldIn(list)[Fold[s]], v)
    <3>1. HeldIn(list)[Fold[s]] \in Seq(Values)
      <4>1. CASE NamedIn(list, Fold[s])
        <5>1. PICK i \in DOMAIN list : NameOf(list[i]) = Fold[s]
          BY <4>1 DEF NamedIn
        <5>2. HeldIn(list)[Fold[s]] = list[i].values
          BY <2>1, <5>1, ThereIs
        <5>3. list[i] \in Attribute
          OBVIOUS
        <5> QED BY <5>2, <5>3 DEF Attribute
      <4>2. CASE ~NamedIn(list, Fold[s])
        <5>1. HeldIn(list)[Fold[s]] = <<>>
          BY <1>4, <4>2, ThereIsNone
        <5>2. <<>> \in Seq(Values)
          OBVIOUS
        <5> QED BY <5>1, <5>2
      <4> QED BY <4>1, <4>2
    <3> QED BY <3>1, AppendIsConcat
  <2>10. Promise!Put(Fold[s], v)
    BY <1>2, <2>1, <2>6, <2>7, <2>9 DEF Promise!Put, Changed
  <2> QED BY <1>3, <1>4, <2>8, <2>10 DEF Promise!Next
<1>11. ASSUME NEW s \in Spellings, NEW vs \in Lists, Replace(s, vs) PROVE Step
  <2>1. PICK list \in Seq(Attribute) : list = attrs /\ Unique(list)
    BY <1>1
  <2>2. PICK attr : attr = NewAttribute(s, vs)
    OBVIOUS
  <2>3. vs \in Seq(Values)
    BY ValuesAssumption
  <2>4. /\ attr \in Attribute /\ attr.values = vs /\ attr.hexData = <<>>
        /\ NameOf(attr) = Fold[s]
    BY <2>2, <2>3, NewIsAttribute DEF NameOf
  <2>5. PICK new : new = ReplaceAttribute(list, attr)
    OBVIOUS
  <2>6. /\ new \in Seq(Attribute) /\ Unique(new)
        /\ HeldIn(new) = [HeldIn(list) EXCEPT ![Fold[s]] = vs]
        /\ LostIn(new) = LostIn(list) \ {Fold[s]}
    BY <2>1, <2>4, <2>5, ReplaceAttributeMaps
  <2>7. Changed(new)
    BY <1>11, <2>1, <2>2, <2>5 DEF Replace
  <2>8. IInv'
    BY <2>6, <2>7, ListChanges
  <2>9. Promise!Renew(Fold[s], vs)
    BY <1>2, <2>1, <2>6, <2>7 DEF Promise!Renew, Changed
  <2> QED BY <1>4, <2>8, <2>9 DEF Promise!Next
<1>12. ASSUME NEW s \in Spellings, NEW vs \in Lists, Set(s, vs) PROVE Step
  <2>1. PICK list \in Seq(Attribute) : list = attrs /\ Unique(list)
    BY <1>1
  <2>2. PICK i : i = AttributeByName(list, s)
    OBVIOUS
  <2>3. i \in DOMAIN list /\ NameOf(list[i]) = Fold[s]
    BY <1>12, <2>1, <2>2, ByName DEF Set
  <2>4. vs \in Seq(Values)
    BY ValuesAssumption
  <2>5. PICK new : new = [list EXCEPT ![i].values = vs]
    OBVIOUS
  <2>6. /\ new \in Seq(Attribute) /\ Unique(new)
        /\ HeldIn(new) = [HeldIn(list) EXCEPT ![NameOf(list[i])] = vs]
        /\ LostIn(new) = LostIn(list)
    <3> DEFINE set == [list EXCEPT ![i].values = vs]
    <3>1. /\ set \in Seq(Attribute) /\ Unique(set)
          /\ HeldIn(set) = [HeldIn(list) EXCEPT ![NameOf(list[i])] = vs]
          /\ LostIn(set) = LostIn(list)
      <4>1. Unique(list) /\ i \in DOMAIN list
        BY <2>1, <2>3
      <4> QED BY <2>4, <4>1, Replaced
    <3> QED BY <2>5, <3>1
  <2>7. Changed(new)
    BY <1>12, <2>1, <2>2, <2>5 DEF Set, SetValues
  <2>8. IInv'
    BY <2>6, <2>7, ListChanges
  <2>9. Promise!Set(Fold[s], vs)
    BY <1>2, <2>1, <2>3, <2>6, <2>7 DEF Promise!Set, Changed
  <2> QED BY <1>4, <2>8, <2>9 DEF Promise!Next
<1>13. ASSUME NEW s \in Spellings, SendReplace(s) PROVE Step
  <2>1. PICK list \in Seq(Attribute) : list = attrs /\ Unique(list)
    BY <1>1
  <2>2. PICK i : i = AttributeByName(list, s)
    OBVIOUS
  <2>3. i \in DOMAIN list /\ NameOf(list[i]) = Fold[s]
    BY <1>13, <2>1, <2>2, ByName DEF SendReplace
  <2>4. list[i] \in Attribute
    BY <2>3
  <2>5. list[i].values \in Seq(Values) /\ Fold[list[i].name] = Fold[s]
    BY <2>3, <2>4 DEF Attribute, NameOf
  <2>6. Held[Fold[s]] = list[i].values
    BY <1>2, <2>1, <2>3, ThereIs
  <2>7. server' = [server EXCEPT ![Fold[s]] = Range(list[i].values)]
    BY <1>13, <2>1, <2>2, <2>5 DEF SendReplace, Sent, Mod, Executed
  <2>8. /\ Range(list[i].values) = Promise!Listed(Held[Fold[s]])
        /\ Range(list[i].values) \in SUBSET Values
    BY <2>5, <2>6 DEF Range, Promise!Listed
  <2>9. server' \in [Names -> SUBSET Values]
    BY <1>1, <2>7, <2>8
  <2>10. IInv' /\ Held' = Held /\ Lost' = Lost
    BY <1>13, <2>9, ServerChanges DEF SendReplace, Sent
  <2>11. Promise!Store(Fold[s])
    BY <2>7, <2>8 DEF Promise!Store
  <2> QED BY <1>4, <2>10, <2>11 DEF Promise!Next
<1>14. ASSUME NEW s \in Spellings, NEW v \in Values, SendAdd(s, v) PROVE Step
  <2>1. AddString(NewAttribute(s, <<>>), v).name = s /\ AddString(NewAttribute(s, <<>>), v).values = <<v>>
    BY DEF AddString, NewAttribute
  <2>2. Range(<<v>>) = {v}
    BY DEF Range
  <2>3. server' = [server EXCEPT ![Fold[s]] = @ \union {v}]
    BY <1>14, <2>1, <2>2 DEF SendAdd, Sent, Mod, Executed
  <2>4. server' \in [Names -> SUBSET Values]
    BY <1>1, <1>4, <2>3
  <2>5. IInv' /\ Held' = Held /\ Lost' = Lost
    BY <1>14, <2>4, ServerChanges DEF SendAdd, Sent
  <2>6. Promise!Insert(Fold[s], v)
    BY <2>3 DEF Promise!Insert
  <2> QED BY <1>3, <1>4, <2>5, <2>6 DEF Promise!Next
<1>15. ASSUME NEW s \in Spellings, SendDelete(s) PROVE Step
  <2>1. Range(<<>>) = {}
    BY DEF Range
  <2>2. server' = [server EXCEPT ![Fold[s]] = {}]
    BY <1>15, <2>1 DEF SendDelete, Sent, Mod, Executed, NewAttribute
  <2>3. server' \in [Names -> SUBSET Values]
    BY <1>1, <1>4, <2>2
  <2>4. IInv' /\ Held' = Held /\ Lost' = Lost
    BY <1>15, <2>3, ServerChanges DEF SendDelete, Sent
  <2>5. Promise!Remove(Fold[s])
    BY <2>2 DEF Promise!Remove
  <2> QED BY <1>4, <2>4, <2>5 DEF Promise!Next
<1>16. CASE UNCHANGED vars
  <2>1. IInv'
    BY <1>1, <1>16, After DEF vars, ReadInv
  <2> QED BY <1>2, <1>16, <2>1 DEF vars, Promise!vars
<1> QED BY <1>5, <1>6, <1>7, <1>8, <1>9, <1>10, <1>11, <1>12, <1>13, <1>14, <1>15, <1>16 DEF Next

THEOREM Inductive == Spec => []IInv
<1> QED BY InitIInv, NextIInv, PTL DEF Spec

(***************************************************************************)
(* The entry is well formed: values of the attributes, read or given, are  *)
(* values, and an attribute is either shown or given up.                   *)
(***************************************************************************)
THEOREM TypeCorrect == Spec => []TypeOK
<1>1. IInv => TypeOK
    BY DEF IInv
<1> QED BY <1>1, Inductive, PTL

(***************************************************************************)
(* However it is read, changed and spelled, the list of attributes never   *)
(* has two of one name (LDAPAttributeList::addAttribute, delAttribute).    *)
(***************************************************************************)
THEOREM NamesAreUnique == Spec => []OneOfEachName
<1>1. IInv => OneOfEachName
    BY DEF IInv
<1> QED BY <1>1, Inductive, PTL

(***************************************************************************)
(* The list implements the map of EntryPromise: what is read, changed and  *)
(* sent under one spelling is what is held under another, and a binary     *)
(* value gives up its attribute and no other (LDAPAttribute::addValue,     *)
(* LDAPAttributeList, LDAPModification).                                   *)
(***************************************************************************)
THEOREM ContentsAreMap == Spec => IsMap
<1>1. Spec => Promise!Init /\ [][Promise!Next]_(Promise!vars)
    BY InitIInv, NextIInv, Inductive, PTL DEF Spec
<1> QED BY <1>1 DEF IsMap, Promise!Spec
=============================================================================
