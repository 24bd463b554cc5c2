--------------------------- MODULE EntryEditProofs ---------------------------
(***************************************************************************)
(* Editing an entry, for every schema and every set of values.  First its  *)
(* values: the editor has no locking, yet a save never goes over another   *)
(* client's writes, since the outdated system attributes have the server   *)
(* refuse it.  Then its object classes: the two lists of the dialogs, the  *)
(* form of a new entry, and the structural class that stays.               *)
(***************************************************************************)
EXTENDS EntryUpdate, SchemaClasses, ListLemmas

\* A pair of searches with no write in between reads the time too, ...
StampWasRead ==
    paired /\ phase \in {"idle", "saving"} => stamp # "absent"

\* ... so that rows with the current time show the current entry, ...
StampTells ==
    paired /\ phase \in {"idle", "saving"} /\ stamp = "current" => dir = cache

\* ... and a modification without any outdated row was made from it.
SaveTells ==
    phase = "saving" /\ paired /\ ~outdated /\ ~raced => dir = cache

IInv == TypeOK /\ StampWasRead /\ StampTells /\ SaveTells

----------------------------------------------------------------------------
\* What the server makes of an acceptable modification is an entry again.
LEMMA UpdatedIsEntry ==
    ASSUME TypeOK, SchemaAssumption
    PROVE  Updated \in Entries
<1> USE DEF TypeOK, SchemaAssumption, Entries
<1>1. \A n \in Names : (dir.values[n] \ Deletes(n)) \union Adds(n) \subseteq Syntax[n]
  <2> TAKE n \in Names
  <2>1. dir.values[n] \subseteq Syntax[n]
    OBVIOUS
  <2>2. Adds(n) \subseteq Syntax[n]
    BY DEF Adds
  <2> QED
    BY <2>1, <2>2
<1>2. \A n \in Names : Syntax[n] \subseteq Values
  OBVIOUS
<1>3. [n \in Names |-> (dir.values[n] \ Deletes(n)) \union Adds(n)]
          \in [Names -> SUBSET Values]
  BY <1>1, <1>2
<1> QED
  BY <1>1, <1>3 DEF Updated

\* The state stays well formed.
LEMMA TypeStep ==
    ASSUME TypeOK, SchemaAssumption, [Next]_vars
    PROVE  TypeOK'
<1> USE DEF TypeOK
<1>1. ASSUME NEW new \in SUBSET Aux, EditEntry(new)
      PROVE  TypeOK'
  <2>1. \A n \in Names : table'[n] \subseteq Syntax[n] \union {Empty}
    <3> TAKE n \in Names
    <3>1. CASE n \in Allowed(classes) \ Allowed(new)
      BY <1>1, <3>1 DEF EditEntry, Shrunk
    <3>2. CASE n \in Allowed(new) \ Allowed(classes)
      BY <1>1, <3>2 DEF EditEntry
    <3>3. CASE /\ n \notin Allowed(classes) \ Allowed(new)
               /\ n \notin Allowed(new) \ Allowed(classes)
      BY <1>1, <3>3 DEF EditEntry
    <3> QED
      BY <3>1, <3>2, <3>3
  <2> QED
    BY <1>1, <2>1 DEF EditEntry
<1>2. ASSUME NEW n \in Names, NEW shown \in SUBSET (Syntax[n] \union {Empty}),
             Edited(n, shown)
      PROVE  TypeOK'
  <2>1. shown \subseteq Values \union {Empty}
    BY DEF SchemaAssumption
  <2>2. table' \in [Names -> SUBSET (Values \union {Empty})]
    BY <1>2, <2>1 DEF Edited
  <2>3. \A k \in Names : table'[k] \subseteq Syntax[k] \union {Empty}
    BY <1>2 DEF Edited
  <2> QED
    BY <1>2, <2>2, <2>3 DEF Edited
<1>3. ASSUME NEW n \in Names, NEW old \in Syntax[n] \union {Empty},
             NEW new \in Syntax[n] \union {Empty}, SetValue(n, old, new)
      PROVE  TypeOK'
  BY <1>2, <1>3 DEF SetValue
<1>4. ASSUME NEW n \in Names, AddAttribute(n)
      PROVE  TypeOK'
  BY <1>2, <1>4 DEF AddAttribute
<1>5. ASSUME NEW n \in Names, NEW v \in Syntax[n] \union {Empty}, DeleteAttribute(n, v)
      PROVE  TypeOK'
  BY <1>2, <1>5 DEF DeleteAttribute
<1>6. CASE GiveUp
  BY <1>6 DEF GiveUp
<1>7. CASE Reselect
  BY <1>7 DEF Reselect
<1>8. CASE ChangePassword
  BY <1>8 DEF ChangePassword
<1>9. ASSUME NEW leave \in BOOLEAN, NEW found \in BOOLEAN, BeginSave(leave, found)
      PROVE  TypeOK'
  BY <1>9 DEF BeginSave
<1>10. CASE Accepted
  BY <1>10, UpdatedIsEntry DEF Accepted, EndSave
<1>11. CASE Refused
  BY <1>11 DEF Refused, EndSave
<1>12. ASSUME NEW ok \in BOOLEAN, Read(ok)
       PROVE  TypeOK'
  <2>1. cache' \in Entries
    BY <1>12 DEF Read
  <2>2. cache'.values \in [Names -> SUBSET Values] /\ cache'.classes \subseteq Aux
    BY <2>1 DEF Entries
  <2>3. \A n \in Names : cache'.values[n] \subseteq Syntax[n]
    BY <2>1 DEF Entries
  <2>4. table' = cache'.values
    BY <1>12 DEF Read
  <2>5. table' \in [Names -> SUBSET (Values \union {Empty})]
    BY <2>2, <2>4
  <2>6. \A n \in Names : table'[n] \subseteq Syntax[n] \union {Empty}
    BY <2>3, <2>4
  <2> QED
    BY <1>12, <2>1, <2>2, <2>5, <2>6 DEF Read
<1>13. ASSUME NEW ok \in BOOLEAN, ReadStamp(ok)
       PROVE  TypeOK'
  <2>1. paired' \in BOOLEAN
    BY <1>13 DEF ReadStamp
  <2>2. stamp' \in {"current", "old", "absent"}
    BY <1>13 DEF ReadStamp
  <2> QED
    BY <1>13, <2>1, <2>2 DEF ReadStamp
<1>14. ASSUME NEW e \in Entries, OtherClient(e)
       PROVE  TypeOK'
  <2>1. raced' \in BOOLEAN
    BY <1>14 DEF OtherClient
  <2>2. raced' => phase = "saving"
    BY <1>14 DEF OtherClient
  <2> QED
    BY <1>14, <2>1, <2>2 DEF OtherClient
<1>15. CASE UNCHANGED vars
  BY <1>15 DEF vars
<1> QED
  BY <1>1, <1>3, <1>4, <1>5, <1>6, <1>7, <1>8, <1>9, <1>10, <1>11, <1>12, <1>13,
     <1>14, <1>15 DEF Next, User, Requests

\* What the system rows tell stays true.
LEMMA StampStep ==
    ASSUME IInv, [Next]_vars
    PROVE  (StampWasRead /\ StampTells /\ SaveTells)'
<1> USE DEF IInv, TypeOK, StampWasRead, StampTells, SaveTells
<1>1. ASSUME NEW new \in SUBSET Aux, EditEntry(new)
      PROVE  (StampWasRead /\ StampTells /\ SaveTells)'
  BY <1>1 DEF EditEntry
<1>2. ASSUME NEW n \in Names, NEW shown, Edited(n, shown)
      PROVE  (StampWasRead /\ StampTells /\ SaveTells)'
  BY <1>2 DEF Edited
<1>3. CASE GiveUp
  BY <1>3 DEF GiveUp
<1>4. CASE Reselect
  BY <1>4 DEF Reselect
<1>5. CASE ChangePassword
  BY <1>5 DEF ChangePassword
<1>6. ASSUME NEW leave \in BOOLEAN, NEW found \in BOOLEAN, BeginSave(leave, found)
      PROVE  (StampWasRead /\ StampTells /\ SaveTells)'
  <2>1. paired /\ ~outdated' => stamp = "current"
    BY <1>6 DEF BeginSave
  <2> QED
    BY <1>6, <2>1 DEF BeginSave
<1>7. CASE Accepted
  BY <1>7 DEF Accepted
<1>8. CASE Refused
  BY <1>8 DEF Refused
<1>9. ASSUME NEW ok \in BOOLEAN, Read(ok)
      PROVE  (StampWasRead /\ StampTells /\ SaveTells)'
  BY <1>9 DEF Read
<1>10. ASSUME NEW ok \in BOOLEAN, ReadStamp(ok)
       PROVE  (StampWasRead /\ StampTells /\ SaveTells)'
  BY <1>10 DEF ReadStamp
<1>11. ASSUME NEW e \in Entries, OtherClient(e)
       PROVE  (StampWasRead /\ StampTells /\ SaveTells)'
  BY <1>11 DEF OtherClient
<1>12. CASE UNCHANGED vars
  BY <1>12 DEF vars
<1> QED
  BY <1>1, <1>2, <1>3, <1>4, <1>5, <1>6, <1>7, <1>8, <1>9, <1>10, <1>11, <1>12
     DEF Next, User, Requests, SetValue, AddAttribute, DeleteAttribute

(* The rows are of the entry as it is on the server exactly as long as the *)
(* time they show is current.                                              *)
THEOREM Inductive == Spec => []IInv
<1>1. Init => IInv
  <2> SUFFICES ASSUME Init PROVE IInv
    OBVIOUS
  <2>1. TypeOK
    <3>1. dir.values \in [Names -> SUBSET Values] /\ dir.classes \subseteq Aux
      BY DEF Init, Entries
    <3>2. \A n \in Names : dir.values[n] \subseteq Syntax[n]
      BY DEF Init, Entries
    <3> QED
      BY <3>1, <3>2 DEF Init, TypeOK
  <2> QED
    BY <2>1 DEF Init, IInv, StampWasRead, StampTells, SaveTells
<1>2. IInv /\ [Next]_vars => IInv'
  BY TypeStep, StampStep, SchemaAssumption DEF IInv
<1> QED
  BY <1>1, <1>2, PTL DEF Spec

(* The editing state is well formed whatever the schema.                   *)
THEOREM TypeCorrect == Spec => []TypeOK
<1>1. IInv => TypeOK
  BY DEF IInv
<1> QED
  BY <1>1, Inductive, PTL

(* CLdapServer::update overwrites nobody: a save that the server accepts   *)
(* was made on the very entry the user saw, unless another client wrote    *)
(* between the two searches of a read or the two requests of the save.     *)
THEOREM SavedAsSeen == Spec => SavesWhatWasSeen
<1>1. IInv => (Accepted /\ paired /\ ~raced => dir = cache)
  BY DEF IInv, SaveTells, Accepted, Acceptable
<1>2. IInv /\ [Next]_vars => [Accepted /\ paired /\ ~raced => dir = cache]_vars
  BY <1>1
<1> QED
  BY <1>2, Inductive, PTL DEF SavesWhatWasSeen, Spec

(* update deletes value by value, so that nothing goes that was not read    *)
(* before, whoever wrote what in between.                                   *)
THEOREM NothingUnreadIsDeleted == Spec => DeletesOnlyWhatWasRead
<1>1. ASSUME Accepted, NEW n \in Names
      PROVE  dir.values[n] \ dir'.values[n] \subseteq cache.values[n]
  <2>1. dir'.values[n] = (dir.values[n] \ Deletes(n)) \union Adds(n)
    BY <1>1 DEF Accepted, Updated
  <2>2. Deletes(n) \subseteq cache.values[n]
    BY DEF Deletes
  <2> QED
    BY <2>1, <2>2
<1>2. [Next]_vars => [Accepted => \A n \in Names :
           dir.values[n] \ dir'.values[n] \subseteq cache.values[n]]_vars
  BY <1>1
<1> QED
  BY <1>2, PTL DEF DeletesOnlyWhatWasRead, Spec

\* What update makes of one attribute when the cached entry is the server's.
LEMMA UpdatedAsShown ==
    ASSUME TypeOK, SchemaAssumption, dir = cache, NEW n \in Names
    PROVE  /\ Shown[n] \subseteq (dir.values[n] \ Deletes(n)) \union Adds(n)
           /\ ((dir.values[n] \ Deletes(n)) \union Adds(n)) \ Shown[n] = Replaced(n)
<1>1. Empty \notin cache.values[n]
  BY DEF TypeOK, Entries, SchemaAssumption
<1>2. CASE table[n] = {}
  BY <1>2 DEF Deletes, Adds, Shown, Replaced
<1>3. CASE table[n] # {}
  BY <1>1, <1>3 DEF Deletes, Adds, Shown, Replaced
<1> QED
  BY <1>2, <1>3

(* A save that nobody disturbed leaves on the server what the table and the *)
(* classes said and, of what they did not say, exactly the values changed   *)
(* in place or deleted beside others of their attribute: the rows' time     *)
(* shows that the modification was computed from the very entry it is       *)
(* applied to.                                                              *)
THEOREM OnlyReplacedValuesEverStay == Spec => OnlyReplacedValuesStay
<1>1. ASSUME IInv, Accepted, paired, ~raced
      PROVE  /\ dir'.classes = classes
             /\ \A n \in Names : /\ Shown[n] \subseteq dir'.values[n]
                                 /\ dir'.values[n] \ Shown[n] = Replaced(n)
  <2>1. dir = cache
    BY <1>1 DEF IInv, SaveTells, Accepted, Acceptable
  <2>2. dir' = Updated
    BY <1>1 DEF Accepted
  <2>3. ASSUME NEW n \in Names
        PROVE  /\ Shown[n] \subseteq dir'.values[n]
               /\ dir'.values[n] \ Shown[n] = Replaced(n)
    <3>1. dir'.values[n] = (dir.values[n] \ Deletes(n)) \union Adds(n)
      BY <2>2 DEF Updated
    <3>2. /\ Shown[n] \subseteq (dir.values[n] \ Deletes(n)) \union Adds(n)
          /\ ((dir.values[n] \ Deletes(n)) \union Adds(n)) \ Shown[n] = Replaced(n)
      BY <1>1, <2>1, UpdatedAsShown, SchemaAssumption DEF IInv
    <3> QED
      BY <3>1, <3>2, Zenon
  <2> QED
    BY <2>2, <2>3 DEF Updated
<1>2. IInv /\ [Next]_vars => [Accepted /\ paired /\ ~raced =>
           /\ dir'.classes = classes
           /\ \A n \in Names : /\ Shown[n] \subseteq dir'.values[n]
                               /\ dir'.values[n] \ Shown[n] = Replaced(n)]_vars
  BY <1>1
<1> QED
  BY <1>2, Inductive, PTL DEF OnlyReplacedValuesStay, Spec

(***************************************************************************)
(* Chains of superiors.                                                    *)
(***************************************************************************)

\* The chain ends at a class.
Topmost(s, c) == SupByClass(s, c) \in {NoName, c}

\* Every name has a superior, and none a circle of them.
Tree(s) ==
    /\ \A c \in ClassNames : SupByClass(s, c) \in ClassNames
    /\ \A T \in SUBSET ClassNames : T # {} => \E c \in T : SupByClass(s, c) \notin T \ {c}

\* What is true of a name when it is true of its superior is true of all.
LEMMA ByTheSuperior ==
    ASSUME NEW s, Tree(s), NEW Good \in SUBSET ClassNames,
           \A c \in ClassNames : (Topmost(s, c) \/ SupByClass(s, c) \in Good) => c \in Good
    PROVE  Good = ClassNames
<1>1. CASE ClassNames \ Good = {}
  BY <1>1
<1>2. CASE ClassNames \ Good # {}
  <2>1. PICK c \in ClassNames \ Good : SupByClass(s, c) \notin (ClassNames \ Good) \ {c}
    BY <1>2 DEF Tree
  <2>2. SupByClass(s, c) \in ClassNames
    BY DEF Tree
  <2> QED
    BY <2>1, <2>2 DEF Topmost
<1> QED
  BY <1>1, <1>2

\* A class and its superiors, step by step.
Walk(s, c, p) ==
    /\ p \in Seq(ClassNames) /\ p # <<>> /\ p[1] = c
    /\ \A i \in 1 .. Len(p) - 1 : ~Topmost(s, p[i]) /\ p[i + 1] = SupByClass(s, p[i])
    /\ Topmost(s, p[Len(p)])

LEMMA WalkOfOne ==
    ASSUME NEW s, NEW c \in ClassNames, Topmost(s, c)
    PROVE  Walk(s, c, <<c>>)
BY DEF Walk

LEMMA WalkLonger ==
    ASSUME NEW s, NEW c \in ClassNames, ~Topmost(s, c), NEW q, Walk(s, SupByClass(s, c), q)
    PROVE  Walk(s, c, <<c>> \o q)
<1> DEFINE p == <<c>> \o q
<1>1. q \in Seq(ClassNames) /\ Len(q) \in Nat \ {0} /\ <<c>> \in Seq(ClassNames) /\ Len(<<c>>) = 1
  BY EmptySeq DEF Walk
<1>2. /\ p \in Seq(ClassNames) /\ Len(p) = 1 + Len(q)
      /\ \A i \in 1 .. 1 + Len(q) : p[i] = IF i <= 1 THEN <<c>>[i] ELSE q[i - 1]
  BY <1>1, ConcatProperties, Zenon
<1>3. p[1] = c /\ \A i \in 1 .. Len(q) : p[i + 1] = q[i]
  BY <1>1, <1>2
<1>4. p # <<>>
  BY <1>1, <1>2
<1> HIDE DEF p
<1>5. ASSUME NEW i \in 1 .. Len(p) - 1
      PROVE  ~Topmost(s, p[i]) /\ p[i + 1] = SupByClass(s, p[i])
  <2>1. CASE i = 1
    BY <1>1, <1>3, <2>1 DEF Walk
  <2>2. CASE i # 1
    <3>1. i - 1 \in 1 .. Len(q) - 1 /\ i \in 1 .. Len(q)
      BY <1>1, <1>2, <2>2
    <3>2. ~Topmost(s, q[i - 1]) /\ q[i - 1 + 1] = SupByClass(s, q[i - 1])
      BY <3>1 DEF Walk
    <3>3. p[i] = q[i - 1] /\ p[i + 1] = q[i] /\ i - 1 + 1 = i
      BY <1>1, <1>3, <3>1
    <3> QED
      BY <3>2, <3>3
  <2> QED
    BY <2>1, <2>2
<1>6. Topmost(s, p[Len(p)])
  <2>1. p[Len(q) + 1] = q[Len(q)] /\ Len(p) = Len(q) + 1
    BY <1>1, <1>2, <1>3
  <2> QED
    BY <2>1 DEF Walk
<1>7. Walk(s, c, p)
  BY <1>2, <1>3, <1>4, <1>5, <1>6 DEF Walk
<1> QED
  BY <1>7 DEF p

\* A walk from a class that is not topmost goes on from its superior.
LEMMA WalkShorter ==
    ASSUME NEW s, NEW c \in ClassNames, ~Topmost(s, c), NEW p, Walk(s, c, p)
    PROVE  Walk(s, SupByClass(s, c), Tail(p)) /\ p = <<c>> \o Tail(p)
<1> DEFINE q == Tail(p)
<1>1. p \in Seq(ClassNames) /\ p # <<>> /\ Len(p) \in Nat \ {0}
  BY EmptySeq DEF Walk
<1>2. q \in Seq(ClassNames) /\ Len(q) = Len(p) - 1 /\ \A i \in 1 .. Len(q) : q[i] = p[i + 1]
  BY <1>1, HeadTailProperties, Zenon
<1>3. Len(p) # 1
  BY DEF Walk
<1>4. p = <<c>> \o q
  BY <1>1 DEF Walk
<1> HIDE DEF q
<1>5. q # <<>>
  BY <1>1, <1>2, <1>3
<1>6. q[1] = SupByClass(s, c)
  <2>1. 1 \in 1 .. Len(q) /\ 1 \in 1 .. Len(p) - 1
    BY <1>1, <1>2, <1>3
  <2> QED
    BY <1>2, <2>1 DEF Walk
<1>7. ASSUME NEW i \in 1 .. Len(q) - 1
      PROVE  ~Topmost(s, q[i]) /\ q[i + 1] = SupByClass(s, q[i])
  <2>1. i + 1 \in 1 .. Len(p) - 1 /\ i \in 1 .. Len(q) /\ i + 1 \in 1 .. Len(q)
    BY <1>1, <1>2
  <2>2. ~Topmost(s, p[i + 1]) /\ p[i + 1 + 1] = SupByClass(s, p[i + 1])
    BY <2>1 DEF Walk
  <2> QED
    BY <1>2, <2>1, <2>2
<1>8. Topmost(s, q[Len(q)])
  <2>1. q[Len(q)] = p[Len(p)]
    <3>1. Len(q) \in 1 .. Len(q) /\ Len(q) + 1 = Len(p)
      BY <1>1, <1>2, <1>3
    <3> QED
      BY <1>2, <3>1
  <2> QED
    BY <2>1 DEF Walk
<1>9. Walk(s, SupByClass(s, c), q)
  BY <1>2, <1>5, <1>6, <1>7, <1>8 DEF Walk
<1> QED
  BY <1>4, <1>9 DEF q

\* There is one walk from every class, and no other.
LEMMA OneWalk ==
    ASSUME NEW s, Tree(s), NEW c \in ClassNames
    PROVE  (\E p : Walk(s, c, p)) /\ \A p, q : Walk(s, c, p) /\ Walk(s, c, q) => p = q
<1> DEFINE Good == {x \in ClassNames :
                (\E p : Walk(s, x, p)) /\ \A p, q : Walk(s, x, p) /\ Walk(s, x, q) => p = q}
<1>1. ASSUME NEW x \in ClassNames, Topmost(s, x)
      PROVE  x \in Good
  <2>1. ASSUME NEW p, Walk(s, x, p)
        PROVE  p = <<x>>
    <3>1. p \in Seq(ClassNames) /\ Len(p) \in Nat \ {0} /\ p[1] = x
      BY <2>1, EmptySeq DEF Walk
    <3>2. ~(1 \in 1 .. Len(p) - 1)
      BY <1>1, <2>1 DEF Walk
    <3>3. \A n \in Nat \ {0} : 1 \notin 1 .. n - 1 => n = 1
      OBVIOUS
    <3>4. Len(p) = 1
      BY <3>1, <3>2, <3>3, Zenon
    <3> QED
      BY <3>1, <3>4
  <2>2. Walk(s, x, <<x>>)
    BY <1>1, WalkOfOne
  <2> QED
    BY <2>1, <2>2
<1>2. ASSUME NEW x \in ClassNames, ~Topmost(s, x), SupByClass(s, x) \in Good
      PROVE  x \in Good
  <2>1. PICK q : Walk(s, SupByClass(s, x), q)
    BY <1>2
  <2>2. Walk(s, x, <<x>> \o q)
    BY <1>2, <2>1, WalkLonger
  <2>3. ASSUME NEW p, NEW r, Walk(s, x, p), Walk(s, x, r)
        PROVE  p = r
    <3>1. Walk(s, SupByClass(s, x), Tail(p)) /\ p = <<x>> \o Tail(p)
      BY <1>2, <2>3, WalkShorter
    <3>2. Walk(s, SupByClass(s, x), Tail(r)) /\ r = <<x>> \o Tail(r)
      BY <1>2, <2>3, WalkShorter
    <3> QED
      BY <1>2, <3>1, <3>2
  <2> QED
    BY <2>2, <2>3
<1>3. Good = ClassNames
  <2> HIDE DEF Good
  <2>1. Good \in SUBSET ClassNames
    BY DEF Good
  <2> QED
    BY <1>1, <1>2, <2>1, ByTheSuperior
<1> QED
  BY <1>3

\* Chain is a class and, unless it is topmost, the chain of its superior.
LEMMA ChainUnfolds ==
    ASSUME NEW s, Tree(s), NEW c \in ClassNames
    PROVE  Chain(s, c) = <<c>> \o (IF Topmost(s, c) THEN <<>> ELSE Chain(s, SupByClass(s, c)))
<1> DEFINE Unfolds(g) == g = [x \in ClassNames |->
                <<x>> \o (IF SupByClass(s, x) \in {NoName, x} THEN <<>> ELSE g[SupByClass(s, x)])]
           chain[x \in ClassNames] ==
               <<x>> \o (IF SupByClass(s, x) \in {NoName, x} THEN <<>> ELSE chain[SupByClass(s, x)])
           walk == [x \in ClassNames |-> CHOOSE p : Walk(s, x, p)]
<1>1. Unfolds(walk)
  <2>1. \A x \in ClassNames : Walk(s, x, walk[x])
    BY OneWalk
  <2>2. ASSUME NEW x \in ClassNames
        PROVE  walk[x] = <<x>> \o (IF SupByClass(s, x) \in {NoName, x} THEN <<>>
                                   ELSE walk[SupByClass(s, x)])
    <3> HIDE DEF walk
    <3>1. CASE Topmost(s, x)
      <4>1. Walk(s, x, <<x>>) /\ <<x>> = <<x>> \o <<>>
        BY <3>1, WalkOfOne
      <4> QED
        BY <2>1, <3>1, <4>1, OneWalk DEF Topmost
    <3>2. CASE ~Topmost(s, x)
      <4>1. SupByClass(s, x) \in ClassNames
        BY DEF Tree
      <4>2. Walk(s, x, <<x>> \o walk[SupByClass(s, x)])
        BY <2>1, <3>2, <4>1, WalkLonger
      <4> QED
        BY <2>1, <3>2, <4>2, OneWalk DEF Topmost
    <3> QED
      BY <3>1, <3>2
  <2>3. walk = [x \in ClassNames |-> walk[x]]
    OBVIOUS
  <2> HIDE DEF walk
  <2>4. [x \in ClassNames |-> walk[x]] = [x \in ClassNames |->
            <<x>> \o (IF SupByClass(s, x) \in {NoName, x} THEN <<>> ELSE walk[SupByClass(s, x)])]
    BY <2>2
  <2> QED
    BY <2>3, <2>4
<1>2. chain = CHOOSE g : Unfolds(g)
  BY DEF chain
<1>3. Unfolds(chain)
  <2> HIDE DEF Unfolds, walk, chain
  <2> QED
    BY <1>1, <1>2
<1>4. \A x \in ClassNames : Chain(s, x) = chain[x]
  BY DEF Chain
<1> HIDE DEF chain, walk
<1>5. SupByClass(s, c) \in ClassNames
  BY DEF Tree
<1> QED
  BY <1>3, <1>4, <1>5 DEF Topmost

\* A chain is not empty, and its tail is the chain of the superior.
LEMMA ChainType ==
    ASSUME NEW s, Tree(s), NEW c \in ClassNames
    PROVE  /\ Chain(s, c) \in Seq(ClassNames) /\ Chain(s, c) # <<>> /\ Len(Chain(s, c)) \in Nat
           /\ Topmost(s, c) => Chain(s, c) = <<c>>
           /\ ~Topmost(s, c) => /\ Chain(s, c) = <<c>> \o Chain(s, SupByClass(s, c))
                               /\ Tail(Chain(s, c)) = Chain(s, SupByClass(s, c))
                               /\ Len(Chain(s, c)) = 1 + Len(Chain(s, SupByClass(s, c)))
<1> DEFINE Good == {x \in ClassNames : Chain(s, x) \in Seq(ClassNames)}
<1>1. ASSUME NEW x \in ClassNames, Topmost(s, x)
      PROVE  Chain(s, x) = <<x>>
  <2>1. <<x>> \o <<>> = <<x>>
    OBVIOUS
  <2>2. Chain(s, x) = <<x>> \o <<>>
    BY <1>1, ChainUnfolds, Zenon
  <2> QED
    BY <2>1, <2>2, Zenon
<1>2. ASSUME NEW x \in ClassNames, ~Topmost(s, x)
      PROVE  Chain(s, x) = <<x>> \o Chain(s, SupByClass(s, x))
  BY <1>2, ChainUnfolds
<1>3. Good = ClassNames
  <2>1. Good \in SUBSET ClassNames
    OBVIOUS
  <2>2. ASSUME NEW x \in ClassNames, Topmost(s, x) \/ SupByClass(s, x) \in Good
        PROVE  x \in Good
    <3>1. CASE Topmost(s, x)
      <4>1. <<x>> \in Seq(ClassNames)
        OBVIOUS
      <4> QED
        BY <1>1, <3>1, <4>1, Zenon
    <3>2. CASE ~Topmost(s, x)
      <4>1. Chain(s, SupByClass(s, x)) \in Seq(ClassNames)
        BY <2>2, <3>2
      <4>2. <<x>> \in Seq(ClassNames)
        OBVIOUS
      <4>3. <<x>> \o Chain(s, SupByClass(s, x)) \in Seq(ClassNames)
        BY <4>1, <4>2, ConcatProperties, Zenon
      <4> QED
        BY <1>2, <3>2, <4>3
    <3> QED
      BY <3>1, <3>2
  <2> HIDE DEF Good
  <2> QED
    BY <2>1, <2>2, ByTheSuperior
<1>4. \A x \in ClassNames : Chain(s, x) \in Seq(ClassNames)
  BY <1>3
<1>5. SupByClass(s, c) \in ClassNames
  BY DEF Tree
<1>6. CASE Topmost(s, c)
  <2>1. <<c>> \in Seq(ClassNames) /\ <<c>> # <<>> /\ Len(<<c>>) \in Nat
    OBVIOUS
  <2>2. Chain(s, c) = <<c>>
    BY <1>1, <1>6, Zenon
  <2> QED
    BY <1>6, <2>1, <2>2, Zenon
<1>7. CASE ~Topmost(s, c)
  <2> DEFINE above == Chain(s, SupByClass(s, c))
  <2>1. above \in Seq(ClassNames) /\ Chain(s, c) = <<c>> \o above
    BY <1>2, <1>4, <1>5, <1>7
  <2> HIDE DEF above
  <2>2. /\ <<c>> \o above \in Seq(ClassNames) /\ Tail(<<c>> \o above) = above
        /\ <<c>> \o above # <<>> /\ Len(<<c>> \o above) = 1 + Len(above)
        /\ Len(<<c>> \o above) \in Nat
    BY <2>1
  <2> QED
    BY <1>7, <2>1, <2>2 DEF above
<1> QED
  BY <1>6, <1>7

\* The classes of a chain, and those of its tail.
LEMMA ChainRange ==
    ASSUME NEW s, Tree(s), NEW c \in ClassNames
    PROVE  /\ Range(Chain(s, c)) \subseteq ClassNames
           /\ Topmost(s, c) => Range(Chain(s, c)) = {c}
           /\ ~Topmost(s, c) =>
                 /\ Range(Chain(s, c)) = {c} \union Range(Chain(s, SupByClass(s, c)))
                 /\ Range(Tail(Chain(s, c))) = Range(Chain(s, SupByClass(s, c)))
<1>1. Chain(s, c) \in Seq(ClassNames)
  BY ChainType
<1>2. Range(Chain(s, c)) \subseteq ClassNames
  BY <1>1, RangeOfSeq
<1>3. Range(<<c>>) = {c} /\ <<c>> \in Seq(ClassNames)
  BY DEF Range
<1>4. CASE Topmost(s, c)
  BY <1>2, <1>3, <1>4, ChainType
<1>5. CASE ~Topmost(s, c)
  <2>1. SupByClass(s, c) \in ClassNames
    BY DEF Tree
  <2>2. Chain(s, SupByClass(s, c)) \in Seq(ClassNames)
    BY <2>1, ChainType
  <2>3. Range(<<c>> \o Chain(s, SupByClass(s, c))) = {c} \union Range(Chain(s, SupByClass(s, c)))
    <3>1. \A p, q \in Seq(ClassNames) : Range(p \o q) = Range(p) \union Range(q)
      BY RangeConcatenation
    <3> QED
      BY <1>3, <2>2, <3>1, Zenon
  <2> QED
    BY <1>2, <1>5, <2>3, ChainType
<1> QED
  BY <1>4, <1>5

\* A class is in its chain.
LEMMA ChainStarts ==
    ASSUME NEW s, Tree(s), NEW c \in ClassNames
    PROVE  c \in Range(Chain(s, c))
BY ChainRange

\* The superior of a class of a chain is in the chain as well, and not only
\* where the chain starts.
LEMMA ChainIsClosed ==
    ASSUME NEW s, Tree(s), NEW c \in ClassNames, NEW x \in Range(Chain(s, c)), ~Topmost(s, x)
    PROVE  ~Topmost(s, c) /\ SupByClass(s, x) \in Range(Chain(s, SupByClass(s, c)))
<1> DEFINE Good == {y \in ClassNames : \A z \in Range(Chain(s, y)) : ~Topmost(s, z) =>
                        ~Topmost(s, y) /\ SupByClass(s, z) \in Range(Chain(s, SupByClass(s, y)))}
<1>1. Good \in SUBSET ClassNames
  OBVIOUS
<1>2. ASSUME NEW y \in ClassNames, Topmost(s, y) \/ SupByClass(s, y) \in Good
      PROVE  y \in Good
  <2>1. CASE Topmost(s, y)
    BY <2>1, ChainRange
  <2>2. CASE ~Topmost(s, y)
    <3>1. SupByClass(s, y) \in ClassNames
      BY DEF Tree
    <3>2. /\ Range(Chain(s, y)) = {y} \union Range(Chain(s, SupByClass(s, y)))
          /\ SupByClass(s, y) \in Range(Chain(s, SupByClass(s, y)))
      BY <2>2, <3>1, ChainRange, ChainStarts
    <3>3. ASSUME NEW z \in Range(Chain(s, SupByClass(s, y))), ~Topmost(s, z)
          PROVE  SupByClass(s, z) \in Range(Chain(s, SupByClass(s, y)))
      <4>1. /\ ~Topmost(s, SupByClass(s, y))
            /\ SupByClass(s, z) \in Range(Chain(s, SupByClass(s, SupByClass(s, y))))
        BY <1>2, <2>2, <3>3
      <4> QED
        BY <3>1, <4>1, ChainRange
    <3> QED
      BY <2>2, <3>2, <3>3
  <2> QED
    BY <2>1, <2>2
<1> HIDE DEF Good
<1>3. Good = ClassNames
  BY <1>1, <1>2, ByTheSuperior
<1> QED
  BY <1>3 DEF Good

\* A class above another one has fewer superiors than it.
LEMMA HigherIsShorter ==
    ASSUME NEW s, Tree(s), NEW c \in ClassNames, NEW x \in Range(Chain(s, c)) \ {c}
    PROVE  Len(Chain(s, x)) < Len(Chain(s, c))
<1> DEFINE Good == {y \in ClassNames : \A z \in Range(Chain(s, y)) \ {y} :
                        Len(Chain(s, z)) < Len(Chain(s, y))}
<1>1. Good \in SUBSET ClassNames
  OBVIOUS
<1>2. ASSUME NEW y \in ClassNames, Topmost(s, y) \/ SupByClass(s, y) \in Good
      PROVE  y \in Good
  <2>1. CASE Topmost(s, y)
    BY <2>1, ChainRange
  <2>2. CASE ~Topmost(s, y)
    <3>1. SupByClass(s, y) \in ClassNames
      BY DEF Tree
    <3>2. Range(Chain(s, y)) = {y} \union Range(Chain(s, SupByClass(s, y)))
      BY <2>2, ChainRange
    <3>3. /\ Len(Chain(s, SupByClass(s, y))) \in Nat
          /\ Len(Chain(s, y)) = 1 + Len(Chain(s, SupByClass(s, y)))
      BY <2>2, <3>1, ChainType
    <3>4. ASSUME NEW z \in Range(Chain(s, y)) \ {y}
          PROVE  Len(Chain(s, z)) < Len(Chain(s, y))
      <4>1. CASE z = SupByClass(s, y)
        BY <3>3, <4>1
      <4>2. CASE z # SupByClass(s, y)
        <5>1. Len(Chain(s, z)) < Len(Chain(s, SupByClass(s, y)))
          BY <1>2, <2>2, <3>2, <4>2
        <5>2. z \in ClassNames
          BY ChainRange
        <5>3. Len(Chain(s, z)) \in Nat
          BY <5>2, ChainType
        <5> QED
          BY <3>3, <5>1, <5>3
      <4> QED
        BY <4>1, <4>2
    <3> QED
      BY <3>4
  <2> QED
    BY <2>1, <2>2
<1> HIDE DEF Good
<1>3. Good = ClassNames
  BY <1>1, <1>2, ByTheSuperior
<1> QED
  BY <1>3 DEF Good

\* The empty name is nobody's superior.
LEMMA ChainIsNamed ==
    ASSUME NEW s, Tree(s), NEW c \in ClassNames \ {NoName}
    PROVE  NoName \notin Range(Chain(s, c))
<1> DEFINE Good == {y \in ClassNames : y # NoName => NoName \notin Range(Chain(s, y))}
<1>1. Good \in SUBSET ClassNames
  OBVIOUS
<1>2. ASSUME NEW y \in ClassNames, Topmost(s, y) \/ SupByClass(s, y) \in Good
      PROVE  y \in Good
  BY <1>2, ChainRange DEF Topmost
<1> HIDE DEF Good
<1>3. Good = ClassNames
  BY <1>1, <1>2, ByTheSuperior
<1> QED
  BY <1>3 DEF Good

\* Chains follow from the superiors alone.
LEMMA SameChains ==
    ASSUME NEW s, Tree(s), NEW t, \A c \in ClassNames : SupByClass(t, c) = SupByClass(s, c)
    PROVE  \A c \in ClassNames : Chain(t, c) = Chain(s, c)
<1> DEFINE Good == {y \in ClassNames : Chain(t, y) = Chain(s, y)}
<1>1. Tree(t) /\ \A c \in ClassNames : Topmost(t, c) <=> Topmost(s, c)
  BY DEF Tree, Topmost
<1>2. Good \in SUBSET ClassNames
  OBVIOUS
<1>3. ASSUME NEW y \in ClassNames, Topmost(s, y) \/ SupByClass(s, y) \in Good
      PROVE  y \in Good
  <2>1. /\ Chain(s, y) = <<y>> \o (IF Topmost(s, y) THEN <<>> ELSE Chain(s, SupByClass(s, y)))
        /\ Chain(t, y) = <<y>> \o (IF Topmost(t, y) THEN <<>> ELSE Chain(t, SupByClass(t, y)))
    BY <1>1, ChainUnfolds
  <2> QED
    BY <1>1, <1>3, <2>1
<1> HIDE DEF Good
<1>4. Good = ClassNames
  BY <1>2, <1>3, ByTheSuperior
<1> QED
  BY <1>4 DEF Good

(***************************************************************************)
(* Schemas.                                                                *)
(***************************************************************************)

\* The schema t is s, as published, and the names looked up in it.
FromServer(t, s) ==
    /\ DOMAIN s \subseteq DOMAIN t /\ DOMAIN t \subseteq ClassNames
    /\ \A k \in DOMAIN s : t[k] = s[k]
    /\ \A k \in DOMAIN t \ DOMAIN s : \E kind \in Kinds : t[k] = Nameless(kind)

LEMMA Superiors ==
    ASSUME NEW s \in Schemas, NEW c \in ClassNames
    PROVE  /\ ClassOf(s, c).sups \in Seq(ClassNames)
           /\ NoName \notin Range(ClassOf(s, c).sups)
           /\ SupByClass(s, c) \in ClassNames
<1>1. CASE Known(s, c)
  <2>1. s[Key[c]] \in Class /\ NoName \notin Range(s[Key[c]].sups)
    BY <1>1, SchemasAssumption DEF Known
  <2>2. s[Key[c]].sups \in Seq(ClassNames)
    BY <2>1 DEF Class
  <2>3. ClassOf(s, c) = s[Key[c]]
    BY <1>1 DEF ClassOf
  <2> QED
    BY <2>1, <2>2, <2>3, NamesAssumption DEF SupByClass
<1>2. CASE ~Known(s, c)
  <2>1. ClassOf(s, c).sups = <<>>
    BY <1>2 DEF ClassOf, Nameless
  <2> QED
    BY <2>1, NamesAssumption DEF SupByClass, Range
<1> QED
  BY <1>1, <1>2

LEMMA PublishedIsTree ==
    ASSUME NEW s \in Schemas
    PROVE  Tree(s)
BY Superiors, SchemasAssumption DEF Tree

\* The empty name is a class of its own.
LEMMA NoNameAlone ==
    ASSUME NEW s \in Schemas
    PROVE  /\ ClassOf(s, NoName).kind = Abstract
           /\ SupByClass(s, NoName) = NoName
           /\ Chain(s, NoName) = <<NoName>>
<1>1. ClassOf(s, NoName) = Nameless(Abstract)
  BY NamesAssumption, SchemasAssumption DEF ClassOf, Known
<1>2. SupByClass(s, NoName) = NoName /\ ClassOf(s, NoName).kind = Abstract
  BY <1>1 DEF SupByClass, Nameless
<1>3. Topmost(s, NoName) /\ NoName \in ClassNames
  BY <1>2, NamesAssumption DEF Topmost
<1>4. Chain(s, NoName) = <<NoName>>
  BY <1>3, PublishedIsTree, ChainType
<1> QED
  BY <1>2, <1>4

\* A name looked up adds nothing to what is said of a class, but a kind.
LEMMA SameMeaning ==
    ASSUME NEW s \in Schemas, NEW t, FromServer(t, s), NEW c \in ClassNames
    PROVE  /\ ClassOf(t, c).sups = ClassOf(s, c).sups
           /\ ClassOf(t, c).must = ClassOf(s, c).must
           /\ ClassOf(t, c).may = ClassOf(s, c).may
           /\ SupByClass(t, c) = SupByClass(s, c)
           /\ Known(s, c) => ClassOf(t, c) = ClassOf(s, c)
           /\ ~Known(s, c) => ClassOf(t, c).name = NoName
<1>1. CASE Known(s, c)
  <2>1. ClassOf(t, c) = ClassOf(s, c)
    BY <1>1 DEF ClassOf, Known, FromServer
  <2> QED
    BY <1>1, <2>1 DEF SupByClass
<1>2. CASE ~Known(s, c)
  <2>1. ClassOf(s, c) = Nameless(Abstract)
    BY <1>2 DEF ClassOf
  <2>2. PICK kind \in Kinds : ClassOf(t, c) = Nameless(kind)
    <3>1. CASE Known(t, c)
      <4>1. Key[c] \in DOMAIN t \ DOMAIN s
        BY <1>2, <3>1 DEF Known
      <4>2. \E kind \in Kinds : t[Key[c]] = Nameless(kind)
        BY <4>1 DEF FromServer
      <4> QED
        BY <3>1, <4>2 DEF ClassOf
    <3>2. CASE ~Known(t, c)
      BY <3>2 DEF ClassOf, Kinds
    <3> QED
      BY <3>1, <3>2
  <2> QED
    BY <1>2, <2>1, <2>2 DEF SupByClass, Nameless
<1> QED
  BY <1>1, <1>2

LEMMA SameChain ==
    ASSUME NEW s \in Schemas, NEW t, FromServer(t, s)
    PROVE  \A c \in ClassNames : Chain(t, c) = Chain(s, c)
<1>1. \A c \in ClassNames : SupByClass(t, c) = SupByClass(s, c)
  BY SameMeaning
<1> QED
  BY <1>1, PublishedIsTree, SameChains

\* The classes of a kind, by their names.
LEMMA NamedByKind ==
    ASSUME NEW s \in Schemas, NEW kind, NEW c \in NamesOfKind(s, kind)
    PROVE  /\ c \in ClassNames \ {NoName} /\ Known(s, c)
           /\ ClassOf(s, c).kind = kind /\ ClassOf(s, c).name = c
<1>1. PICK k \in DOMAIN s : s[k].kind = kind /\ s[k].name = c
  BY DEF NamesOfKind
<1>2. s[k] \in Class /\ Known(s, s[k].name) /\ ClassOf(s, s[k].name) = s[k]
  BY <1>1, SchemasAssumption
<1>3. c \in ClassNames
  BY <1>1, <1>2 DEF Class
<1>4. c # NoName
  BY <1>1, <1>2, NamesAssumption, SchemasAssumption DEF Known
<1> QED
  BY <1>1, <1>2, <1>3, <1>4

\* Of the names looked up only the empty one joins the classes of a kind.
LEMMA SameKinds ==
    ASSUME NEW s \in Schemas, NEW t, FromServer(t, s), NEW kind
    PROVE  /\ NamesOfKind(s, kind) \subseteq NamesOfKind(t, kind)
           /\ NamesOfKind(t, kind) \subseteq NamesOfKind(s, kind) \union {NoName}
<1>1. NamesOfKind(s, kind) \subseteq NamesOfKind(t, kind)
  BY DEF NamesOfKind, FromServer
<1>2. ASSUME NEW c \in NamesOfKind(t, kind), c # NoName
      PROVE  c \in NamesOfKind(s, kind)
  <2>1. PICK k \in DOMAIN t : t[k].kind = kind /\ t[k].name = c
    BY DEF NamesOfKind
  <2>2. k \in DOMAIN s
    BY <1>2, <2>1 DEF FromServer, Nameless
  <2> QED
    BY <2>1, <2>2 DEF NamesOfKind, FromServer
<1> QED
  BY <1>1, <1>2

\* An auxiliary class is told by its name.
LEMMA AuxiliaryByName ==
    ASSUME NEW s \in Schemas, NEW t, FromServer(t, s), NEW c \in ClassNames \ {NoName},
           ClassOf(t, c).kind = Auxiliary, ClassOf(t, c).name = c
    PROVE  c \in AuxiliaryClasses(s)
<1>1. Known(s, c) /\ ClassOf(t, c) = ClassOf(s, c)
  BY SameMeaning
<1>2. Key[c] \in DOMAIN s /\ s[Key[c]].kind = Auxiliary /\ s[Key[c]].name = c
  BY <1>1 DEF Known, ClassOf
<1> QED
  BY <1>2 DEF AuxiliaryClasses, NamesOfKind

\* Every class offered has a superior above the structural class.
LEMMA OfferedFits ==
    ASSUME NEW s \in Schemas, NEW t, FromServer(t, s), NEW c \in ClassNames,
           ClassOf(s, c).kind = Structural \/ c = NoName, NEW a \in Offered(t, c)
    PROVE  /\ a \in AuxiliaryClasses(s)
           /\ \E x \in Range(Tail(Chain(s, c))) : x \in Range(ClassOf(s, a).sups)
<1> Tree(s)
  BY PublishedIsTree
<1>1. PICK x \in Range(Chain(s, c)) : a \in AuxiliaryClassesBySup(t, SupByClass(t, x))
  BY SameChain DEF Offered
<1>2. x \in ClassNames
  BY <1>1, ChainRange
<1>3. PICK k \in DOMAIN t : /\ t[k].kind = Auxiliary /\ t[k].name = a
                           /\ SupByClass(s, x) \in Range(t[k].sups)
  BY <1>1, <1>2, SameMeaning DEF AuxiliaryClassesBySup
<1>4. k \in DOMAIN s /\ t[k] = s[k]
  <2>1. \A kind : Range(Nameless(kind).sups) = {}
    BY DEF Nameless, Range
  <2> QED
    BY <1>3, <2>1 DEF FromServer
<1>5. ClassOf(s, a) = s[k] /\ NoName \notin Range(s[k].sups)
  BY <1>3, <1>4, SchemasAssumption
<1>6. a \in AuxiliaryClasses(s)
  BY <1>3, <1>4 DEF AuxiliaryClasses, NamesOfKind
<1>7. SupByClass(s, x) # NoName
  BY <1>3, <1>4, <1>5
<1>8. SupByClass(s, c) # c
  BY <1>1, <1>7, SchemasAssumption, NoNameAlone, ChainRange DEF Topmost
<1>9. SupByClass(s, x) \in Range(Tail(Chain(s, c)))
  <2>1. CASE Topmost(s, x)
    <3>1. SupByClass(s, x) = x
      BY <1>7, <2>1 DEF Topmost
    <3>2. x # c /\ x \in Range(Chain(s, c))
      BY <1>1, <1>8, <3>1
    <3> QED
      BY <3>1, <3>2, ChainRange
  <2>2. CASE ~Topmost(s, x)
    <3>1. ~Topmost(s, c) /\ SupByClass(s, x) \in Range(Chain(s, SupByClass(s, c)))
      BY <1>1, <2>2, ChainIsClosed
    <3> QED
      BY <3>1, ChainRange
  <2> QED
    BY <2>1, <2>2
<1> QED
  BY <1>3, <1>4, <1>5, <1>6, <1>9

\* A lookup leaves the schema as published, and names looked up in it.
LEMMA LookedUp ==
    ASSUME NEW s \in Schemas, FromServer(schema, s),
           NEW names \in SUBSET ClassNames, LooksUp(names)
    PROVE  FromServer(schema', s)
<1> DEFINE found == UNION {Range(Chain(schema, c)) : c \in names}
           missing == {Key[c] : c \in found} \ DOMAIN schema
<1>1. PICK kind \in [missing -> Kinds] :
          schema' = [k \in missing \union DOMAIN schema |->
                        IF k \in missing THEN Nameless(kind[k]) ELSE schema[k]]
  BY DEF LooksUp
<1>2. missing \subseteq ClassNames
  <2>1. \A c \in names : Range(Chain(schema, c)) \subseteq ClassNames
    BY SameChain, PublishedIsTree, ChainRange
  <2>2. found \subseteq ClassNames
    BY <2>1
  <2> QED
    BY <2>2, NamesAssumption
<1> HIDE DEF missing
<1>3. missing \intersect DOMAIN schema = {}
  BY DEF missing
<1> QED
  BY <1>1, <1>2, <1>3 DEF FromServer

(***************************************************************************)
(* The invariant.                                                          *)
(***************************************************************************)

\* The entry has its structural class with all superiors, and no class as
\* high as that one that may be structural.
EntryInv(s) ==
    /\ entry \in Seq(ClassNames) /\ chosen \in ClassNames
    /\ \/ entry = <<>>
       \/ chosen = NoName /\ Range(entry) = {NoName}
       \/ /\ ClassOf(s, chosen).kind = Structural
          /\ NoName \notin Range(entry)
          /\ Range(Chain(s, chosen)) \subseteq Range(entry)
          /\ \A c \in Range(entry) \ {chosen} :
                 ClassOf(s, c).kind = Auxiliary \/ Len(Chain(s, c)) < Len(Chain(s, chosen))

\* The lists have auxiliary classes only, fit for the structural class.
DialogInv(s) ==
    /\ all \intersect needed = {}
    /\ all \union needed \subseteq AuxiliaryClasses(s)
    /\ dialog = "new" =>
          /\ combo \in ClassNames
          /\ ClassOf(s, combo).kind = Structural \/ combo = NoName
          /\ \A c \in all \union needed : \E x \in Range(Tail(Chain(s, combo))) :
                 x \in Range(ClassOf(s, c).sups)
    /\ dialog = "edit" =>
          /\ entry # <<>> /\ combo = chosen /\ combo # NoName
          /\ Range(entry) \intersect AuxiliaryClasses(s) \subseteq all \union needed

FormInv == form.classes \in Seq(ClassNames) /\ FormIsSufficient

Consistent(s) == FromServer(schema, s) /\ EntryInv(s) /\ DialogInv(s) /\ FormInv

ClassesInv == \E s \in Schemas : Consistent(s)

LEMMA ClassesInitially == ClassesInit => ClassesInv
<1> SUFFICES ASSUME ClassesInit PROVE ClassesInv
  OBVIOUS
<1> DEFINE s == schema
<1>1. s \in Schemas
  BY DEF ClassesInit
<1>2. FromServer(schema, s)
  BY SchemasAssumption DEF ClassesInit, FromServer
<1>3. EntryInv(s)
  <2>1. CASE entry = <<>> /\ chosen = NoName
    <3>1. <<>> \in Seq(ClassNames)
      BY EmptySeq
    <3> QED
      BY <2>1, <3>1, NamesAssumption DEF EntryInv
  <2>2. ASSUME NEW f \in Found, entry = f.classes, chosen = f.structural
        PROVE  EntryInv(s)
    <3> HIDE DEF s
    <3>1. /\ f.classes \in Seq(ClassNames) /\ NoName \notin Range(f.classes)
          /\ f.structural \in ClassNames /\ ClassOf(s, f.structural).kind = Structural
          /\ Range(Chain(s, f.structural)) \subseteq Range(f.classes)
          /\ \A c \in Range(f.classes) \ {f.structural} :
                 \/ ClassOf(s, c).kind = Auxiliary
                 \/ Len(Chain(s, c)) < Len(Chain(s, f.structural))
      BY <1>1, FoundAssumption, Zenon
    <3> QED
      BY <2>2, <3>1 DEF EntryInv
  <2> QED
    BY <2>1, <2>2 DEF ClassesInit
<1>4. DialogInv(s)
  BY DEF ClassesInit, DialogInv
<1>5. FormInv
  BY DEF ClassesInit, FormInv, FormIsSufficient, NoForm
<1> QED
  BY <1>1, <1>2, <1>3, <1>4, <1>5 DEF ClassesInv, Consistent

\* The form stays sufficient, whatever names are looked up.
LEMMA SameForm ==
    ASSUME NEW s \in Schemas, FromServer(schema, s), FromServer(schema', s), FormInv, form' = form
    PROVE  FormInv'
<1>1. \A c \in ClassNames : /\ ClassOf(schema', c).must = ClassOf(schema, c).must
                            /\ ClassOf(schema', c).may = ClassOf(schema, c).may
  BY SameMeaning
<1>2. form.classes \in Seq(ClassNames)
  BY DEF FormInv
<1>3. Range(form.classes) \subseteq ClassNames
  BY <1>2, RangeOfSeq
<1>4. \A i \in DOMAIN form.classes : form.classes[i] \in ClassNames
           /\ \A j \in 1 .. i : j \in DOMAIN form.classes
  BY <1>2
<1>5. \A c \in Range(form.classes) : Mentions(schema', c) = Mentions(schema, c)
  BY <1>1, <1>3 DEF Mentions
<1> QED
  BY <1>1, <1>2, <1>4, <1>5 DEF FormInv, FormIsSufficient

\* The structural class of the entry is told, or none is.
LEMMA Deduced ==
    ASSUME NEW s \in Schemas, NEW t, FromServer(t, s), EntryInv(s), entry # <<>>
    PROVE  DeductStructuralClass(t, entry) \in {chosen, NoName}
<1> DEFINE candidates == Candidates(t, entry)
           height(i)  == Len(Chain(t, entry[i]))
           Best(i) == \A j \in candidates :
                         height(j) < height(i) \/ (height(j) = height(i) /\ i <= j)
<1>1. entry \in Seq(ClassNames) /\ DOMAIN entry \subseteq Nat
  BY DEF EntryInv
<1>2. \A i \in DOMAIN entry : entry[i] \in ClassNames
  BY <1>1
<1>3. \A i \in DOMAIN entry : height(i) = Len(Chain(s, entry[i])) /\ height(i) \in Nat
  BY <1>2, SameChain, PublishedIsTree, ChainType
<1>4. CASE candidates = {}
  BY <1>4 DEF DeductStructuralClass
<1>5. CASE Range(entry) = {NoName}
  <2>1. \A i \in candidates : entry[i] = NoName
    BY <1>5 DEF Candidates, Range
  <2>2. ASSUME candidates # {}
        PROVE  \E i \in candidates : Best(i)
    <3>1. candidates \in SUBSET Nat
      BY <1>1 DEF Candidates
    <3>2. PICK i \in candidates : \A j \in candidates : i <= j
      <4> HIDE DEF candidates
      <4> QED
        BY <2>2, <3>1, LeastOf
    <3> QED
      BY <2>1, <3>2
  <2>3. CASE candidates # {}
    <3>1. (CHOOSE i \in candidates : Best(i)) \in candidates
      BY <2>2, <2>3
    <3> QED
      BY <2>1, <2>3, <3>1 DEF DeductStructuralClass
  <2> QED
    BY <1>4, <2>3
<1>6. CASE /\ ClassOf(s, chosen).kind = Structural
           /\ Range(Chain(s, chosen)) \subseteq Range(entry)
           /\ \A c \in Range(entry) \ {chosen} :
                  ClassOf(s, c).kind = Auxiliary \/ Len(Chain(s, c)) < Len(Chain(s, chosen))
  <2> DEFINE places == {i \in DOMAIN entry : entry[i] = chosen}
  <2>1. chosen \in ClassNames /\ ClassOf(t, chosen).kind = Structural
    <3>1. chosen \in ClassNames
      BY DEF EntryInv
    <3>2. Known(s, chosen)
      BY <1>6 DEF ClassOf, Nameless, Structural, Abstract
    <3> QED
      BY <1>6, <3>1, <3>2, SameMeaning
  <2>2. places \subseteq candidates
    BY <2>1 DEF Candidates, Structural, Auxiliary
  <2>3. places # {} /\ places \in SUBSET Nat
    <3>1. chosen \in Range(entry)
      BY <1>6, <2>1, PublishedIsTree, ChainStarts
    <3> QED
      BY <1>1, <3>1 DEF Range
  <2>4. PICK first \in places : \A j \in places : first <= j
    <3> HIDE DEF places
    <3> QED
      BY <2>3, LeastOf
  <2>5. ASSUME NEW i \in candidates, i \notin places
        PROVE  height(i) < height(first)
    <3>1. i \in DOMAIN entry /\ entry[i] \in Range(entry) \ {chosen}
      BY <2>5 DEF Candidates, Range
    <3>2. ClassOf(s, entry[i]).kind # Auxiliary
      <4>1. CASE Known(s, entry[i])
        BY <1>2, <3>1, <4>1, SameMeaning DEF Candidates
      <4>2. CASE ~Known(s, entry[i])
        BY <4>2 DEF ClassOf, Nameless, Abstract, Auxiliary
      <4> QED
        BY <4>1, <4>2
    <3>3. Len(Chain(s, entry[i])) < Len(Chain(s, chosen))
      BY <1>6, <3>1, <3>2
    <3> QED
      BY <1>3, <3>1, <3>3
  <2>6. Best(first)
    BY <2>4, <2>5
  <2>7. ASSUME NEW i \in candidates, Best(i)
        PROVE  entry[i] = chosen
    <3>1. CASE i \in places
      BY <3>1
    <3>2. CASE i \notin places
      <4>1. height(i) < height(first) /\ first \in candidates
        BY <2>2, <2>5, <3>2
      <4>2. height(i) \in Nat /\ height(first) \in Nat
        BY <1>3, <2>7, <4>1 DEF Candidates
      <4> QED
        BY <2>7, <4>1, <4>2
    <3> QED
      BY <3>1, <3>2
  <2>8. candidates # {}
    BY <2>2, <2>4
  <2>9. entry[CHOOSE i \in candidates : Best(i)] = chosen
    <3> HIDE DEF candidates, Best
    <3> QED
      BY <2>2, <2>4, <2>6, <2>7
  <2> QED
    BY <2>8, <2>9 DEF DeductStructuralClass
<1> QED
  BY <1>5, <1>6 DEF EntryInv

\* What editing leaves is an entry with its structural class.
LEMMA EntryKept ==
    ASSUME NEW s \in Schemas, EntryInv(s), entry' = entry, chosen' = chosen
    PROVE  EntryInv(s)'
BY DEF EntryInv

\* Choosing a structural class.
LEMMA ChooseStep ==
    ASSUME NEW s \in Schemas, Consistent(s), NEW c \in ClassNames, ChooseStructural(c)
    PROVE  Consistent(s)'
<1>1. FromServer(schema, s) /\ c \in StructuralClasses(schema)
  BY DEF Consistent, ChooseStructural
<1>2. FromServer(schema', s)
  BY <1>1, LookedUp DEF ChooseStructural
<1>3. ClassOf(s, c).kind = Structural \/ c = NoName
  BY <1>1, SameKinds, NamedByKind DEF StructuralClasses
<1>4. EntryInv(s)'
  BY EntryKept DEF ChooseStructural, Consistent
<1>5. DialogInv(s)'
  <2>1. all' = Offered(schema', c) /\ needed' = {} /\ dialog' = "new" /\ combo' = c
    BY DEF ChooseStructural, FillListAll
  <2>2. \A a \in all' : /\ a \in AuxiliaryClasses(s)
                        /\ \E x \in Range(Tail(Chain(s, c))) : x \in Range(ClassOf(s, a).sups)
    BY <1>2, <1>3, <2>1, OfferedFits
  <2> QED
    BY <1>3, <2>1, <2>2 DEF DialogInv
<1>6. FormInv'
  BY <1>1, <1>2, SameForm DEF ChooseStructural, Consistent
<1> QED
  BY <1>2, <1>4, <1>5, <1>6 DEF Consistent

\* Moving classes from one list to the other.
LEMMA MoveStep ==
    ASSUME NEW s \in Schemas, Consistent(s),
           UNCHANGED <<schema, entry, chosen, form, dialog, combo>>,
           all' \union needed' = all \union needed, all' \intersect needed' = {}
    PROVE  Consistent(s)'
<1>1. EntryInv(s)' /\ FromServer(schema', s)
  BY EntryKept DEF Consistent
<1>2. DialogInv(s)'
  BY DEF Consistent, DialogInv
<1>3. FormInv'
  BY SameForm DEF Consistent
<1> QED
  BY <1>1, <1>2, <1>3 DEF Consistent

\* The dialog is closed, and the entry is one again.
LEMMA CloseStep ==
    ASSUME NEW s \in Schemas, Closes, FromServer(schema', s), EntryInv(s)', FormInv'
    PROVE  Consistent(s)'
BY DEF Consistent, Closes, DialogInv

\* The classes a new entry gets.
LEMMA ConsistentRange ==
    ASSUME NEW s \in Schemas, NEW t, FromServer(t, s), NEW c \in ClassNames,
           NEW list \in Seq(ClassNames)
    PROVE  /\ ConsistentClasses(t, c, list) \in Seq(ClassNames)
           /\ Range(ConsistentClasses(t, c, list)) = Range(Chain(s, c)) \union Range(list)
<1> DEFINE chain  == Chain(s, c)
           others == Only(list, ClassNames \ Range(chain))
<1>1. ConsistentClasses(t, c, list) = chain \o others
  BY SameChain DEF ConsistentClasses
<1>2. chain \in Seq(ClassNames)
  BY PublishedIsTree, ChainType
<1>3. others \in Seq(ClassNames) /\ Range(others) = Range(list) \intersect (ClassNames \ Range(chain))
  BY OnlyKeeps
<1>4. Range(list) \subseteq ClassNames
  BY RangeOfSeq
<1> HIDE DEF chain, others
<1>5. chain \o others \in Seq(ClassNames)
  BY <1>2, <1>3, ConcatProperties, Zenon
<1>6. Range(chain \o others) = Range(chain) \union Range(others)
  <2>1. \A p, q \in Seq(ClassNames) : Range(p \o q) = Range(p) \union Range(q)
    BY RangeConcatenation
  <2> QED
    BY <1>2, <1>3, <2>1, Zenon
<1> QED
  BY <1>1, <1>3, <1>4, <1>5, <1>6 DEF chain

\* The form OkNew makes of the classes.
FormOf(list, rdn) ==
    LET attributes == AttributeByClasses(schema, list)
        required   == {a \in DOMAIN attributes : attributes[a]}
    IN  [classes |-> list, required |-> required,
         rows |-> required \union ({rdn} \intersect DOMAIN attributes)]

\* It has what the classes require.
LEMMA FormMade ==
    ASSUME NEW list \in Seq(ClassNames), NEW rdn, form' = FormOf(list, rdn),
           \A c \in ClassNames : /\ ClassOf(schema', c).must = ClassOf(schema, c).must
                                /\ ClassOf(schema', c).may = ClassOf(schema, c).may
    PROVE  FormInv'
<1> DEFINE attributes == AttributeByClasses(schema, list)
           required   == {a \in DOMAIN attributes : attributes[a]}
<1>1. /\ DOMAIN list \subseteq Nat /\ Range(list) \subseteq ClassNames
      /\ \A i \in DOMAIN list : list[i] \in ClassNames /\ list[i] \in Range(list)
      /\ \A i \in DOMAIN list : 1 .. i \subseteq DOMAIN list
  BY DEF Range
<1>2. /\ form'.classes = list /\ form'.required = required
      /\ form'.rows = required \union ({rdn} \intersect DOMAIN attributes)
  BY DEF FormOf
<1>3. DOMAIN attributes = UNION {Mentions(schema, c) : c \in Range(list)}
  BY DEF AttributeByClasses
<1>4. ASSUME NEW i \in DOMAIN list, NEW a \in ClassOf(schema, list[i]).must,
             \A j \in 1 .. i : a \notin ClassOf(schema, list[j]).may
      PROVE  a \in required
  <2> DEFINE having == {j \in DOMAIN list : a \in Mentions(schema, list[j])}
  <2>1. i \in having /\ having \in SUBSET Nat
    BY <1>1 DEF Mentions
  <2>2. PICK first \in having : \A j \in having : first <= j
    <3> HIDE DEF having
    <3> QED
      BY <2>1, LeastOf
  <2>3. first \in 1 .. i
    <3>1. first <= i /\ first \in DOMAIN list /\ DOMAIN list = 1 .. Len(list) /\ Len(list) \in Nat
      BY <2>1, <2>2
    <3> QED
      BY <1>1, <3>1
  <2>4. a \notin ClassOf(schema, list[first]).may
    BY <1>4, <2>3
  <2>5. \A j \in 1 .. first - 1 : a \notin Mentions(schema, list[j])
    <3> TAKE j \in 1 .. first - 1
    <3>1. j \in DOMAIN list /\ ~(first <= j)
      BY <2>2, <2>3
    <3> QED
      BY <2>2, <3>1
  <2>6. a \in DOMAIN attributes
    BY <1>1, <1>3, <2>2
  <2>7. attributes[a]
    BY <1>3, <2>2, <2>4, <2>5, <2>6 DEF AttributeByClasses
  <2> QED
    BY <2>6, <2>7
<1>5. \A a \in form'.rows : \E c \in Range(list) : a \in Mentions(schema, c)
  BY <1>2, <1>3
<1>6. \A c \in Range(list) : Mentions(schema', c) = Mentions(schema, c)
  BY <1>1 DEF Mentions
<1>7. \A i \in DOMAIN list : \A a \in ClassOf(schema', list[i]).must :
          (\A j \in 1 .. i : a \notin ClassOf(schema', list[j]).may) => a \in required
  BY <1>1, <1>4
<1>8. \A a \in form'.rows : \E c \in Range(list) : a \in Mentions(schema', c)
  BY <1>5, <1>6
<1> QED
  BY <1>2, <1>7, <1>8 DEF FormInv, FormIsSufficient

\* Creating an entry.
LEMMA OkNewStep ==
    ASSUME NEW s \in Schemas, Consistent(s), NEW rdn \in Attrs, OkNew(rdn)
    PROVE  Consistent(s)'
<1> DEFINE list == ConsistentClasses(schema, combo, SetToSeq(needed))
<1> Tree(s)
  BY PublishedIsTree
<1>1. /\ FromServer(schema, s) /\ combo \in ClassNames
      /\ needed \subseteq AuxiliaryClasses(s)
      /\ ClassOf(s, combo).kind = Structural \/ combo = NoName
      /\ \A c \in needed : Range(Tail(Chain(s, combo))) # {}
  BY DEF Consistent, DialogInv, OkNew
<1>2. \A c \in needed : c \in ClassNames \ {NoName} /\ ClassOf(s, c).kind = Auxiliary
  BY <1>1, NamedByKind DEF AuxiliaryClasses
<1>3. SetToSeq(needed) \in Seq(ClassNames) /\ Range(SetToSeq(needed)) = needed
  <2>1. needed \subseteq ClassNames
    BY <1>2
  <2>2. IsFiniteSet(needed)
    BY <2>1, FS_Subset, NamesAssumption
  <2>3. SetToSeq(needed) \in Seq(needed) /\ Range(SetToSeq(needed)) = needed
    BY <2>2, SetAsList
  <2> QED
    BY <2>1, <2>3, SeqMonotonic
<1>4. /\ list \in Seq(ClassNames)
      /\ Range(list) = Range(Chain(s, combo)) \union needed
  BY <1>1, <1>3, ConsistentRange
<1>5. /\ LooksUp(Range(list)) /\ Closes /\ entry' = list /\ chosen' = combo
      /\ form' = FormOf(list, rdn)
  BY DEF OkNew, FormOf
<1> HIDE DEF list
<1>6. FromServer(schema', s)
  <2>1. Range(list) \in SUBSET ClassNames
    BY <1>4, RangeOfSeq
  <2> QED
    BY <1>1, <1>5, <2>1, LookedUp
<1>7. FormInv'
  <2>1. \A c \in ClassNames : /\ ClassOf(schema', c).must = ClassOf(schema, c).must
                              /\ ClassOf(schema', c).may = ClassOf(schema, c).may
    BY <1>1, <1>6, SameMeaning
  <2> QED
    BY <1>4, <1>5, <2>1, FormMade
<1>8. EntryInv(s)'
  <2>1. CASE combo = NoName
    <3>1. Range(Chain(s, combo)) = {NoName} /\ Tail(Chain(s, combo)) = <<>>
      <4>1. Range(<<NoName>>) = {NoName}
        BY DEF Range
      <4>2. Tail(<<NoName>>) = <<>>
        OBVIOUS
      <4> QED
        BY <2>1, <4>1, <4>2, NoNameAlone
    <3>2. needed = {}
      BY <1>1, <3>1 DEF Range
    <3> QED
      BY <1>1, <1>4, <1>5, <2>1, <3>1, <3>2 DEF EntryInv
  <2>2. CASE combo # NoName
    <3>1. NoName \notin Range(Chain(s, combo))
      BY <1>1, <2>2, ChainIsNamed
    <3>2. \A c \in Range(Chain(s, combo)) \ {combo} : Len(Chain(s, c)) < Len(Chain(s, combo))
      BY <1>1, HigherIsShorter
    <3>3. /\ NoName \notin Range(list) /\ Range(Chain(s, combo)) \subseteq Range(list)
          /\ \A c \in Range(list) \ {combo} :
                 ClassOf(s, c).kind = Auxiliary \/ Len(Chain(s, c)) < Len(Chain(s, combo))
      BY <1>2, <1>4, <3>1, <3>2
    <3> QED
      BY <1>1, <1>4, <1>5, <2>2, <3>3 DEF EntryInv
  <2> QED
    BY <2>1, <2>2
<1> QED
  BY <1>5, <1>6, <1>7, <1>8, CloseStep

\* Editing begins, or no structural class was told.
LEMMA OpenEditStep ==
    ASSUME NEW s \in Schemas, Consistent(s), OpenEdit
    PROVE  Consistent(s)'
<1> DEFINE structural == DeductStructuralClass(schema', entry)
           auxiliary  == Range(AuxiliaryOf(schema', entry))
<1>1. /\ FromServer(schema, s) /\ entry \in Seq(ClassNames) /\ entry # <<>> /\ EntryInv(s)
      /\ dialog = "closed"
  BY DEF Consistent, EntryInv, OpenEdit
<1>2. Range(entry) \in SUBSET ClassNames
  BY <1>1, RangeOfSeq
<1>3. FromServer(schema', s)
  BY <1>1, <1>2, LookedUp DEF OpenEdit
<1>4. EntryInv(s)'
  BY EntryKept DEF OpenEdit, Consistent
<1>5. FormInv'
  BY <1>1, <1>3, SameForm DEF OpenEdit, Consistent
<1>6. DialogInv(s)'
  <2>1. CASE structural = NoName
    BY <1>1, <2>1 DEF OpenEdit, Consistent, DialogInv
  <2>2. CASE structural # NoName
    <3>1. structural = chosen
      BY <1>1, <1>3, <2>2, Deduced
    <3>2. /\ dialog' = "edit" /\ combo' = structural /\ needed' = auxiliary
          /\ all' = Offered(schema', structural) \ (auxiliary \union {structural})
          /\ entry' = entry /\ chosen' = chosen
      BY <2>2 DEF OpenEdit
    <3>3. auxiliary = Range(entry) \intersect AuxiliaryClasses(schema')
      BY <1>1, OnlyKeeps DEF AuxiliaryOf
    <3> HIDE DEF structural, auxiliary
    <3>4. /\ chosen \in ClassNames /\ ClassOf(s, chosen).kind = Structural
          /\ NoName \notin Range(entry)
      BY <1>1, <2>2, <3>1 DEF EntryInv
    <3>5. auxiliary = Range(entry) \intersect AuxiliaryClasses(s)
      BY <1>3, <3>3, <3>4, SameKinds DEF AuxiliaryClasses
    <3>6. Offered(schema', structural) \subseteq AuxiliaryClasses(s)
      BY <1>3, <3>1, <3>4, OfferedFits
    <3> QED
      BY <1>1, <2>2, <3>1, <3>2, <3>5, <3>6 DEF DialogInv
  <2> QED
    BY <2>1, <2>2
<1> QED
  BY <1>3, <1>4, <1>5, <1>6 DEF Consistent

\* Editing ends: no class of the structural one's chain is taken away.
LEMMA OkEditStep ==
    ASSUME NEW s \in Schemas, Consistent(s), OkEdit
    PROVE  Consistent(s)'
<1> DEFINE others == OthersOf(schema, entry)
           picked == SetToSeq(needed)
<1> Tree(s)
  BY PublishedIsTree
<1>1. /\ FromServer(schema, s) /\ entry \in Seq(ClassNames)
      /\ chosen \in ClassNames /\ chosen # NoName
      /\ ClassOf(s, chosen).kind = Structural
      /\ NoName \notin Range(entry)
      /\ Range(Chain(s, chosen)) \subseteq Range(entry)
      /\ \A c \in Range(entry) \ {chosen} :
             ClassOf(s, c).kind = Auxiliary \/ Len(Chain(s, c)) < Len(Chain(s, chosen))
      /\ needed \subseteq AuxiliaryClasses(s)
  BY DEF Consistent, DialogInv, EntryInv, OkEdit
<1>2. \A c \in AuxiliaryClasses(s) : c \in ClassNames \ {NoName} /\ ClassOf(s, c).kind = Auxiliary
  BY NamedByKind DEF AuxiliaryClasses
<1>3. picked \in Seq(ClassNames) /\ Range(picked) = needed
  <2>1. needed \subseteq ClassNames
    BY <1>1, <1>2
  <2>2. IsFiniteSet(needed)
    BY <2>1, FS_Subset, NamesAssumption
  <2>3. SetToSeq(needed) \in Seq(needed) /\ Range(SetToSeq(needed)) = needed
    BY <2>2, SetAsList
  <2> QED
    BY <2>1, <2>3, SeqMonotonic
<1>4. /\ others \in Seq(ClassNames)
      /\ Range(others) = Range(entry) \intersect (ClassNames \ AuxiliaryClasses(schema))
  BY <1>1, OnlyKeeps DEF OthersOf
<1>5. entry' = others \o picked
  BY DEF OkEdit
<1> HIDE DEF others, picked
<1>6. entry' \in Seq(ClassNames) /\ Range(entry') = Range(others) \union needed
  <2>1. \A p, q \in Seq(ClassNames) : Range(p \o q) = Range(p) \union Range(q)
    BY RangeConcatenation
  <2>2. others \o picked \in Seq(ClassNames)
    BY <1>3, <1>4, ConcatProperties, Zenon
  <2>3. Range(others \o picked) = Range(others) \union Range(picked)
    BY <1>3, <1>4, <2>1, Zenon
  <2> QED
    BY <1>3, <1>5, <2>2, <2>3, Zenon
<1>7. Range(Chain(s, chosen)) \subseteq Range(others)
  <2>1. ASSUME NEW c \in Range(Chain(s, chosen))
        PROVE  c \in ClassNames \ AuxiliaryClasses(schema)
    <3>1. c \in ClassNames /\ c # NoName
      BY <1>1, ChainRange, ChainIsNamed
    <3>2. ClassOf(s, c).kind # Auxiliary
      BY <1>1, SchemasAssumption
    <3>3. c \notin AuxiliaryClasses(s)
      BY <1>2, <3>2
    <3> QED
      BY <1>1, <3>1, <3>3, SameKinds DEF AuxiliaryClasses
  <2> QED
    BY <1>1, <1>4, <2>1
<1>8. EntryInv(s)'
  <2>1. chosen' = chosen
    BY DEF OkEdit
  <2>2. /\ NoName \notin Range(entry') /\ Range(Chain(s, chosen)) \subseteq Range(entry')
        /\ \A c \in Range(entry') \ {chosen} :
               ClassOf(s, c).kind = Auxiliary \/ Len(Chain(s, c)) < Len(Chain(s, chosen))
    BY <1>1, <1>2, <1>4, <1>6, <1>7
  <2> QED
    BY <1>1, <1>6, <2>1, <2>2 DEF EntryInv
<1>9. FromServer(schema', s) /\ FormInv' /\ Closes
  BY <1>1, SameForm DEF OkEdit, Consistent
<1> QED
  BY <1>8, <1>9, CloseStep

LEMMA ClassesStep == ClassesInv /\ [ClassesNext]_classesVars => ClassesInv'
<1> SUFFICES ASSUME NEW s \in Schemas, Consistent(s), [ClassesNext]_classesVars
             PROVE  Consistent(s)'
  BY DEF ClassesInv
<1>1. ASSUME NEW c \in ClassNames, ChooseStructural(c)
      PROVE  Consistent(s)'
  BY <1>1, ChooseStep
<1>2. ASSUME NEW picked \in SUBSET all, AddClasses(picked)
      PROVE  Consistent(s)'
  <2>1. all' \union needed' = all \union needed /\ all' \intersect needed' = {}
    BY <1>2 DEF AddClasses, Consistent, DialogInv
  <2> QED
    BY <1>2, <2>1, MoveStep DEF AddClasses
<1>3. ASSUME NEW picked \in SUBSET needed, RemoveClasses(picked)
      PROVE  Consistent(s)'
  <2>1. all' \union needed' = all \union needed /\ all' \intersect needed' = {}
    BY <1>3 DEF RemoveClasses, Consistent, DialogInv
  <2> QED
    BY <1>3, <2>1, MoveStep DEF RemoveClasses
<1>4. ASSUME NEW rdn \in Attrs, OkNew(rdn)
      PROVE  Consistent(s)'
  BY <1>4, OkNewStep
<1>5. CASE OpenEdit
  BY <1>5, OpenEditStep
<1>6. CASE OkEdit
  BY <1>6, OkEditStep
<1>7. CASE Cancel
  <2>1. EntryInv(s)' /\ FromServer(schema', s) /\ FormInv'
    BY <1>7, EntryKept, SameForm DEF Cancel, Consistent
  <2> QED
    BY <1>7, <2>1, CloseStep DEF Cancel
<1>8. CASE UNCHANGED classesVars
  <2>1. all' \union needed' = all \union needed /\ all' \intersect needed' = {}
    BY <1>8 DEF classesVars, Consistent, DialogInv
  <2> QED
    BY <1>8, <2>1, MoveStep DEF classesVars
<1> QED
  BY <1>1, <1>2, <1>3, <1>4, <1>5, <1>6, <1>7, <1>8 DEF ClassesNext

LEMMA ClassesAlways == ClassesSpec => []ClassesInv
BY ClassesInitially, ClassesStep, PTL DEF ClassesSpec

\* However often the classes of an entry are edited, and whatever names are
\* looked up meanwhile, it keeps its structural class with all superiors,
\* and onEditEntry takes no other class for it.
THEOREM StructuralClassAlwaysKept == ClassesSpec => []StructuralClassKept
<1>1. ClassesInv => StructuralClassKept
  <2> SUFFICES ASSUME NEW s \in Schemas, Consistent(s)
               PROVE  StructuralClassKept
    BY DEF ClassesInv
  <2>1. chosen \in ClassNames /\ FromServer(schema, s)
    BY DEF Consistent, EntryInv
  <2>2. Chain(schema, chosen) = Chain(s, chosen)
    BY <2>1, SameChain
  <2>3. chosen = NoName => Range(Chain(s, chosen)) = {NoName}
    BY NoNameAlone DEF Range
  <2>4. entry # <<>> => Range(Chain(s, chosen)) \subseteq Range(entry)
    BY <2>3 DEF Consistent, EntryInv
  <2> QED
    BY <2>2, <2>4 DEF Consistent, DialogInv, StructuralClassKept
<1> QED
  BY <1>1, ClassesAlways, PTL

\* The two lists of the dialog always fit the structural class and each
\* other, and show every auxiliary class of the entry that is edited.
THEOREM ListsAlwaysFit == ClassesSpec => []ListsFit
<1>1. ClassesInv => ListsFit
  <2> SUFFICES ASSUME NEW s \in Schemas, Consistent(s)
               PROVE  ListsFit
    BY DEF ClassesInv
  <2>1. all \intersect needed = {} /\ FromServer(schema, s)
    BY DEF Consistent, DialogInv
  <2>2. ASSUME dialog = "new", NEW c \in needed
        PROVE  \E n \in Range(Tail(Chain(schema, combo))) : n \in Range(ClassOf(schema, c).sups)
    <3>1. /\ combo \in ClassNames /\ c \in AuxiliaryClasses(s)
          /\ \E n \in Range(Tail(Chain(s, combo))) : n \in Range(ClassOf(s, c).sups)
      BY <2>2 DEF Consistent, DialogInv
    <3>2. c \in ClassNames
      BY <3>1, NamedByKind DEF AuxiliaryClasses
    <3> QED
      BY <2>1, <3>1, <3>2, SameChain, SameMeaning
  <2>3. ASSUME dialog = "edit", NEW c \in Range(entry),
               ClassOf(schema, c).kind = Auxiliary, ClassOf(schema, c).name = c
        PROVE  c \in all \union needed
    <3>1. /\ entry \in Seq(ClassNames) /\ NoName \notin Range(entry)
          /\ Range(entry) \intersect AuxiliaryClasses(s) \subseteq all \union needed
      BY <2>3 DEF Consistent, DialogInv, EntryInv
    <3>2. c \in ClassNames \ {NoName}
      BY <3>1, RangeOfSeq
    <3> QED
      BY <2>1, <2>3, <3>1, <3>2, AuxiliaryByName
  <2> QED
    BY <2>1, <2>2, <2>3 DEF ListsFit
<1> QED
  BY <1>1, ClassesAlways, PTL

\* The form of a new entry always has every attribute its classes require
\* (unless one before allows it) and none that they do not know.
THEOREM FormAlwaysSufficient == ClassesSpec => []FormIsSufficient
<1>1. ClassesInv => FormIsSufficient
  BY DEF ClassesInv, Consistent, FormInv
<1> QED
  BY <1>1, ClassesAlways, PTL
==============================================================================
