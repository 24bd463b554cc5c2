---------------------------- MODULE SchemaClasses ----------------------------
(***************************************************************************)
(* The object classes of an entry: how the editor chooses them with the    *)
(* New entry and Edit entry dialogs, and what it makes of the schema the   *)
(* server published.                                                       *)
(*                                                                         *)
(* The schema is LDAPSchema::object_classes, a std::map from lower-case    *)
(* names to classes.  A class is looked up with operator[], so a name that *)
(* no class has (a superior the server does not publish, a class of an     *)
(* entry from another server) is inserted on its first use, as a class     *)
(* without names, superiors and attributes whose kind is never written.    *)
(*                                                                         *)
(* A name is one spelling of a class; Key lower-cases it.  Only lookups    *)
(* ignore the case, comparisons of names do not.  The text of the RDN, the *)
(* descriptions and the order of sorted lists are left out.                *)
(***************************************************************************)
EXTENDS FiniteSets, Lists, SequencesExt

CONSTANTS
    ClassNames,  \* spellings of classes
    NoName,      \* the empty string
    Key,         \* the lower-case form of each
    Attrs,       \* names of attributes
    Schemas,     \* the schemas a server may publish
    Found        \* entries a server may hold: their classes and the structural one

Abstract   == 0
Structural == 1
Auxiliary  == 2
Kinds == {Abstract, Structural, Auxiliary}
Class == [name : ClassNames, kind : Kinds, sups : Seq(ClassNames),
          must : SUBSET Attrs, may : SUBSET Attrs]

ASSUME NamesAssumption ==
    /\ IsFiniteSet(ClassNames) /\ NoName \in ClassNames
    /\ Key \in [ClassNames -> ClassNames] /\ Key[NoName] = NoName

VARIABLES
    schema,  \* object_classes
    entry,   \* m_classes of the entry, <<>> while there is none
    chosen,  \* history: the structural class it was created with
    form,    \* history: what the form of a new entry was made of
    dialog,  \* "closed", "new" or "edit"
    combo,   \* structuralCombo
    all,     \* listAll: auxiliary classes to choose from
    needed   \* listNeeded: those chosen

classesVars == <<schema, entry, chosen, form, dialog, combo, all, needed>>

-----------------------------------------------------------------------------
(* CLdapSchema.                                                            *)

(* LDAPObjClass(), as operator[] inserts it: kind is not initialised.      *)
Nameless(kind) == [name |-> NoName, kind |-> kind, sups |-> <<>>, must |-> {}, may |-> {}]

(* getObjectClassByName, of a name that may be unknown.                    *)
Known(s, n) == Key[n] \in DOMAIN s
ClassOf(s, n) == IF Known(s, n) THEN s[Key[n]] ELSE Nameless(Abstract)

(* supByClass: the first superior only.                                    *)
SupByClass(s, n) == LET sups == ClassOf(s, n).sups
                    IN  IF sups = <<>> THEN NoName ELSE Head(sups)

(* A class and its superiors, upwards.                                     *)
Chain(s, n) ==
    LET chain[c \in ClassNames] ==
            <<c>> \o (IF SupByClass(s, c) \in {NoName, c} THEN <<>> ELSE chain[SupByClass(s, c)])
    IN  chain[n]

(* The names of a list that lookups insert, with whatever kind the memory  *)
(* happens to hold.                                                        *)
LooksUp(names) ==
    LET found   == UNION {Range(Chain(schema, n)) : n \in names}
        missing == {Key[n] : n \in found} \ DOMAIN schema
    IN  \E kind \in [missing -> Kinds] :
            schema' = [k \in missing \union DOMAIN schema |->
                          IF k \in missing THEN Nameless(kind[k]) ELSE schema[k]]

NamesOfKind(s, kind) == {s[k].name : k \in {j \in DOMAIN s : s[j].kind = kind}}
StructuralClasses(s) == NamesOfKind(s, Structural)
AuxiliaryClasses(s)  == NamesOfKind(s, Auxiliary)

AuxiliaryClassesBySup(s, sup) ==
    {s[k].name : k \in {j \in DOMAIN s : s[j].kind = Auxiliary /\ sup \in Range(s[j].sups)}}

(* consistentClassesByStructuralAndOther                                   *)
ConsistentClasses(s, structural, others) ==
    LET chain == Chain(s, structural)
    IN  chain \o Only(others, ClassNames \ Range(chain))

(* Where the classes are that may be structural.                           *)
Candidates(s, classes) == {i \in DOMAIN classes : ClassOf(s, classes[i]).kind # Auxiliary}

\* Mutant: the last of them.
DeductLast(s, classes) ==
    LET candidates == Candidates(s, classes)
    IN  IF candidates = {} THEN NoName
        ELSE classes[CHOOSE i \in candidates : \A j \in candidates : j <= i]

(* The first of the classes with the longest chain of superiors.           *)
DeductStructuralClass(s, classes) ==
    LET candidates == Candidates(s, classes)
        height(i)  == Len(Chain(s, classes[i]))
    IN  IF candidates = {} THEN NoName
        ELSE classes[CHOOSE i \in candidates : \A j \in candidates :
                         height(j) < height(i) \/ (height(j) = height(i) /\ i <= j)]

Mentions(s, c) == ClassOf(s, c).may \union ClassOf(s, c).must

\* Mutant: an attribute a later class allows is not required.
AttributeByLastClass(s, classes) ==
    [a \in UNION {Mentions(s, c) : c \in Range(classes)} |->
        \E i \in DOMAIN classes :
            /\ a \in Mentions(s, classes[i])
            /\ \A j \in DOMAIN classes : j > i => a \notin Mentions(s, classes[j])
            /\ a \notin ClassOf(s, classes[i]).may]

(* attributeByClasses: each attribute once, for the first class that has   *)
(* it; it is required unless that class allows it.                         *)
AttributeByClasses(s, classes) ==
    [a \in UNION {Mentions(s, c) : c \in Range(classes)} |->
        \E i \in DOMAIN classes :
            /\ a \in Mentions(s, classes[i])
            /\ \A j \in 1 .. i - 1 : a \notin Mentions(s, classes[j])
            /\ a \notin ClassOf(s, classes[i]).may]

-----------------------------------------------------------------------------
(* CLdapEntry.                                                             *)

(* auxiliaryClasses: compared with the classes' own first names.           *)
AuxiliaryOf(s, classes) == Only(classes, AuxiliaryClasses(s))
OthersOf(s, classes)    == Only(classes, ClassNames \ AuxiliaryClasses(s))

-----------------------------------------------------------------------------
(* What servers publish and hold, by the rules for classes (RFC 4512, 2.4).*)

(* A class is published under all its names.  Superiors form no circle (in *)
(* any set of names one has its superior outside), and those of a          *)
(* structural class are other classes and not auxiliary.                   *)
ASSUME SchemasAssumption == \A s \in Schemas :
    /\ DOMAIN s \subseteq ClassNames \ {NoName}
    /\ \A k \in DOMAIN s : /\ s[k] \in Class /\ NoName \notin Range(s[k].sups)
                          /\ Known(s, s[k].name) /\ ClassOf(s, s[k].name) = s[k]
    /\ \A T \in SUBSET ClassNames : T # {} => \E c \in T : SupByClass(s, c) \notin T \ {c}
    /\ \A n \in ClassNames : ClassOf(s, n).kind = Structural =>
           /\ SupByClass(s, n) # n
           /\ \A c \in Range(Chain(s, n)) : ClassOf(s, c).kind # Auxiliary

(* An entry has one structural class with all its superiors; other classes *)
(* are auxiliary, or have fewer superiors.                                 *)
ASSUME FoundAssumption == \A f \in Found, s \in Schemas :
    /\ f.classes \in Seq(ClassNames) /\ NoName \notin Range(f.classes)
    /\ f.structural \in ClassNames /\ ClassOf(s, f.structural).kind = Structural
    /\ Range(Chain(s, f.structural)) \subseteq Range(f.classes)
    /\ \A c \in Range(f.classes) \ {f.structural} :
           \/ ClassOf(s, c).kind = Auxiliary
           \/ Len(Chain(s, c)) < Len(Chain(s, f.structural))

-----------------------------------------------------------------------------
(* CLdapNewEntryDialog.                                                    *)

NoForm == [classes |-> <<>>, rows |-> {}, required |-> {}]

ClassesInit ==
    /\ schema \in Schemas
    /\ \/ entry = <<>> /\ chosen = NoName
       \/ \E f \in Found : entry = f.classes /\ chosen = f.structural
    /\ form = NoForm
    /\ dialog = "closed" /\ combo = NoName /\ all = {} /\ needed = {}

(* What fillListAll collects: auxiliary classes with a superior above the  *)
(* structural class (not those below the class itself).                    *)
Offered(s, structural) ==
    UNION {AuxiliaryClassesBySup(s, SupByClass(s, c)) : c \in Range(Chain(s, structural))}

\* Mutant: the classes chosen so far stay.
FillListAllOnly(structural) ==
    /\ all' = Offered(schema', structural) \ needed
    /\ UNCHANGED needed

FillListAll(structural) ==
    /\ all' = Offered(schema', structural)
    /\ needed' = {}

(* The first item added to the combo, or another one picked later.         *)
ChooseStructural(c) ==
    /\ \/ dialog = "closed" /\ entry = <<>>
       \/ dialog = "new" /\ c # combo
    /\ c \in StructuralClasses(schema)
    /\ dialog' = "new" /\ combo' = c
    /\ LooksUp({c})
    /\ FillListAll(c)
    /\ UNCHANGED <<entry, chosen, form>>

(* moveItemBettwenLists                                                    *)
AddClasses(picked) ==
    /\ dialog # "closed" /\ picked # {}
    /\ picked \subseteq all
    /\ all' = all \ picked /\ needed' = needed \union picked
    /\ UNCHANGED <<schema, entry, chosen, form, dialog, combo>>

(* When editing, the user is warned of values that would be lost, and may  *)
(* keep the classes after all.                                             *)
RemoveClasses(picked) ==
    /\ dialog # "closed" /\ picked # {}
    /\ picked \subseteq needed
    /\ needed' = needed \ picked /\ all' = all \union picked
    /\ UNCHANGED <<schema, entry, chosen, form, dialog, combo>>

Closes ==
    /\ dialog' = "closed" /\ combo' = NoName /\ all' = {} /\ needed' = {}

(* CLdapTreeView::onNewEntry.  The new entry's form has the attributes     *)
(* that are required, and the RDN's own.                                   *)
OkNew(rdn) ==
    LET classes    == ConsistentClasses(schema, combo, SetToSeq(needed))
        attributes == AttributeByClasses(schema, classes)
        required   == {a \in DOMAIN attributes : attributes[a]}
    IN  /\ dialog = "new"
        /\ LooksUp(Range(classes))
        /\ entry' = classes /\ chosen' = combo
        /\ form' = [classes |-> classes, required |-> required,
                    rows |-> required \union ({rdn} \intersect DOMAIN attributes)]
        /\ Closes

(* onEditEntry up to the dialog; it gives up if no structural class can be *)
(* told.                                                                   *)
OpenEdit ==
    /\ dialog = "closed" /\ entry # <<>>
    /\ LooksUp(Range(entry))
    /\ LET structural == DeductStructuralClass(schema', entry)
           auxiliary  == Range(AuxiliaryOf(schema', entry))
       IN  IF structural = NoName
           THEN UNCHANGED <<dialog, combo, all, needed>>
           ELSE /\ dialog' = "edit" /\ combo' = structural
                /\ needed' = auxiliary
                /\ all' = Offered(schema', structural) \ (auxiliary \union {structural})
    /\ UNCHANGED <<entry, chosen, form>>

(* The rest of onEditEntry: setClasses with the other classes and those    *)
(* selected.                                                               *)
OkEdit ==
    /\ dialog = "edit"
    /\ entry' = OthersOf(schema, entry) \o SetToSeq(needed)
    /\ Closes
    /\ UNCHANGED <<schema, chosen, form>>

Cancel ==
    /\ dialog # "closed"
    /\ Closes
    /\ UNCHANGED <<schema, entry, chosen, form>>

ClassesNext ==
    \/ \E c \in ClassNames : ChooseStructural(c)
    \/ \E picked \in SUBSET all : AddClasses(picked)
    \/ \E picked \in SUBSET needed : RemoveClasses(picked)
    \/ \E rdn \in Attrs : OkNew(rdn)
    \/ OpenEdit \/ OkEdit \/ Cancel

ClassesSpec == ClassesInit /\ [][ClassesNext]_classesVars

-----------------------------------------------------------------------------
(* Properties.                                                             *)

(* However often its classes are edited, an entry keeps its structural     *)
(* class and all superiors of it, and the dialog tells that class from the *)
(* entry's others, in whatever order they come and whatever classes among  *)
(* them the schema does not know.                                          *)
StructuralClassKept ==
    /\ entry # <<>> => Range(Chain(schema, chosen)) \subseteq Range(entry)
    /\ dialog = "edit" => combo = chosen

(* The two lists of the dialog never show a class twice, a class selected  *)
(* for one structural class does not stay selected for another, and        *)
(* editing shows every auxiliary class the entry has.                      *)
ListsFit ==
    /\ all \intersect needed = {}
    /\ dialog = "new" =>
           \A c \in needed : \E n \in Range(Tail(Chain(schema, combo))) :
               n \in Range(ClassOf(schema, c).sups)
    /\ dialog = "edit" =>
           {c \in Range(entry) : ClassOf(schema, c).kind = Auxiliary /\ ClassOf(schema, c).name = c}
               \subseteq all \union needed

(* The form of a new entry has every attribute that one of its classes     *)
(* requires and no class before it allows, and none that no class has.     *)
FormIsSufficient ==
    LET cs == form.classes
    IN  /\ \A i \in DOMAIN cs : \A a \in ClassOf(schema, cs[i]).must :
               (\A j \in 1 .. i : a \notin ClassOf(schema, cs[j]).may) => a \in form.required
        /\ \A a \in form.rows : \E c \in Range(cs) : a \in Mentions(schema, c)
=============================================================================
