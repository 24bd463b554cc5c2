-------------------------- MODULE MessageQueueProofs --------------------------
(***************************************************************************)
(* MessageQueue, for any servers, any names, entries and references and    *)
(* any hop limit: a search that succeeds is complete.                      *)
(*                                                                         *)
(* The invariant follows what is still to come through the stack: every    *)
(* entry and every reference of a place that was asked has arrived, was    *)
(* followed, or is left to some request of the stack.  A request at depth  *)
(* i of the stack has been referred i - 1 times at least, so that the only *)
(* request whose success ends the search is alone.                         *)
(***************************************************************************)
EXTENDS MessageQueue, SequenceTheorems, TLAPS

AnyScope == Scopes \union {"base"}
References == UNION {Refers[p] : p \in Place}
Keys == Asked \union {<<h>> : h \in Hosts}
Request == [place : Place, scope : AnyScope, from : Seq(Keys),
            left : SUBSET (Entries \union References)]

Of(req) == <<req.place, req.scope>>

(* The scope of a request that follows a reference, or else a referral.    *)
Onward(scope, byReference) == IF byReference /\ scope = "one" THEN "base" ELSE scope

(* What a request may still bring is of its place. *)
Proper(req) ==
    req.left \subseteq Holds[req.place]
                \union (IF req.scope = "base" THEN {} ELSE Refers[req.place])

(* The stack s of a call of kind k that was made with or without chasing.  *)
StackOK(k, c, s, as) ==
    /\ s \in Seq(Request)
    /\ \A i \in DOMAIN s :
          /\ Proper(s[i]) /\ Of(s[i]) \in as
          /\ Len(s[i].from) \in i - 1 .. HopLimit
          /\ k # "search" => i = 1 /\ s[i].left = {}
          /\ ~c => s[i].from = <<>>

Among(x, s) == \E i \in 1..Len(s) : s[i] = x

EntryLeft(s, a, e) == \E i \in DOMAIN s : Of(s[i]) = a /\ e \in s[i].left
ReferenceLeft(s, a, r) ==
    \E i \in DOMAIN s :
        /\ Of(s[i]) = a
        /\ r \in s[i].left \/ (Moved[s[i].place] # <<>> /\ r = Moved[s[i].place])

NothingLost(s, as, es, rs) ==
    \A a \in as :
        /\ \A e \in EntriesAt[a] : Among(e, es) \/ EntryLeft(s, a, e)
        /\ \A r \in ReferencesAt[a] :
              \/ Among(r, rs) \/ ReferenceLeft(s, a, r)
              \/ \E b \in as : <<a, r, b>> \in Leads

IInv ==
    /\ kind \in Kinds /\ chase \in BOOLEAN /\ once \in BOOLEAN /\ over \in BOOLEAN
    /\ told \in {"none", "ok", "referral", "error", "failed", "crashed"}
    /\ entries \in Seq(Entries) /\ refs \in Seq(References)
    /\ read \in 0..Len(entries)
    /\ asked \subseteq Asked
    /\ told = "none" => stack # <<>>
    /\ read > 0 \/ over => told = "ok"
    /\ StackOK(kind, chase, stack, asked)
    /\ kind = "search" /\ told = "none" => NothingLost(stack, asked, entries, refs)
    /\ UnchasedIsSafe /\ EntriesBeforeReferences

LEMMA InvImplies == IInv => TypeOK
<1> SUFFICES ASSUME IInv PROVE TypeOK
    OBVIOUS
<1>1. ASSUME NEW i \in DOMAIN stack
      PROVE  /\ stack[i].place \in Place
             /\ stack[i].scope \in Scopes \union {"base"}
             /\ stack[i].left \subseteq Holds[stack[i].place] \union Refers[stack[i].place]
             /\ Hops(stack[i]) \in i - 1 .. HopLimit
             /\ kind # "search" => i = 1
  <2>1. stack[i] \in Request
    BY DEF IInv, StackOK
  <2> QED BY <2>1 DEF IInv, StackOK, Request, AnyScope, Proper, Hops
<1> QED BY <1>1 DEF IInv, TypeOK, References

-----------------------------------------------------------------------------
(* Requests. *)

LEMMA WorldTypes ==
    ASSUME NEW p \in Place
    PROVE  /\ Holds[p] \subseteq Entries /\ Refers[p] \subseteq References
           /\ Moved[p] \in Seq(Place)
           /\ \A r \in Refers[p] : r \in Seq(Place) /\ r \notin Entries
           /\ Moved[p] # <<>> => Holds[p] = {} /\ Refers[p] = {}
BY WorldAssumption DEF References

LEMMA SentIsRequest ==
    ASSUME NEW p \in Place, NEW s \in AnyScope, NEW from \in Seq(Keys)
    PROVE  /\ Sent(p, s, from) \in Request /\ Proper(Sent(p, s, from))
           /\ Sent(p, s, from).place = p /\ Sent(p, s, from).scope = s
           /\ Sent(p, s, from).from = from
           /\ kind # "search" => Sent(p, s, from).left = {}
           /\ kind = "search" =>
                 Sent(p, s, from).left = Holds[p] \union (IF s = "base" THEN {} ELSE Refers[p])
BY WorldTypes DEF Sent, Request, Proper

LEMMA KeyIsKey ==
    ASSUME NEW p \in Place, NEW s \in AnyScope PROVE Key(p, s) \in Keys
BY DEF Key, Keys, Asked, AnyScope, Place

LEMMA FollowIsRequest ==
    ASSUME NEW req \in Request, NEW p \in Place, NEW byReference \in BOOLEAN
    PROVE  LET new == Follow(req, p, byReference)
           IN  /\ new \in Request /\ Proper(new)
               /\ Len(new.from) = Len(req.from) + 1
               /\ kind # "search" => new.left = {}
               /\ kind = "search" =>
                     /\ new.place = p
                     /\ new.scope = Onward(req.scope, byReference)
                     /\ new.left = Holds[p] \union (IF new.scope = "base" THEN {} ELSE Refers[p])
<1> DEFINE from == <<Key(req.place, req.scope)>> \o req.from
           scope == Onward(req.scope, byReference)
           there == <<p[1], req.place[2]>>
<1>1. req.place \in Place /\ req.scope \in AnyScope /\ req.from \in Seq(Keys)
    BY DEF Request
<1>2. from \in Seq(Keys) /\ Len(from) = Len(req.from) + 1
  <2>1. PICK key \in Keys : key = Key(req.place, req.scope)
    BY <1>1, KeyIsKey
  <2>2. <<key>> \in Seq(Keys) /\ Len(<<key>>) = 1
    OBVIOUS
  <2>3. <<key>> \o req.from \in Seq(Keys) /\ Len(<<key>> \o req.from) = 1 + Len(req.from)
    BY <1>1, <2>2
  <2>4. Len(req.from) \in Nat
    BY <1>1
  <2> QED BY <2>1, <2>3, <2>4
<1>3. scope \in AnyScope /\ there \in Place
    BY <1>1 DEF AnyScope, Place, Onward
<1>4. Follow(req, p, byReference) = IF kind = "search" THEN Sent(p, scope, from)
                                                       ELSE Sent(there, req.scope, from)
    BY DEF Follow, Onward
<1> HIDE DEF from, scope, there
<1>5. CASE kind = "search"
  <2>1. Follow(req, p, byReference) = Sent(p, scope, from)
    BY <1>4, <1>5
  <2> QED BY <1>2, <1>3, <1>5, <2>1, SentIsRequest DEF scope
<1>6. CASE kind # "search"
  <2>1. Follow(req, p, byReference) = Sent(there, req.scope, from)
    BY <1>4, <1>6
  <2> QED BY <1>1, <1>2, <1>3, <1>6, <2>1, SentIsRequest
<1> QED BY <1>5, <1>6

-----------------------------------------------------------------------------
(* The stack. *)

LEMMA BelowElements ==
    ASSUME NEW s \in Seq(Request), s # <<>>
    PROVE  LET b == SubSeq(s, 1, Len(s) - 1)
           IN  /\ b \in Seq(Request) /\ Len(b) = Len(s) - 1
               /\ Len(s) \in DOMAIN s /\ Len(s) \in Nat \ {0}
               /\ \A i \in DOMAIN b : i \in DOMAIN s /\ i # Len(s) /\ b[i] = s[i]
               /\ \A i \in DOMAIN s : i # Len(s) => i \in DOMAIN b
<1>1. Len(s) \in Nat \ {0}
    OBVIOUS
<1> DEFINE b == SubSeq(s, 1, Len(s) - 1)
<1>2. b \in Seq(Request) /\ Len(b) = Len(s) - 1 /\ \A i \in 1..(Len(s) - 1) : b[i] = s[i]
  <2>0. Len(s) - 1 \in Nat /\ Len(s) - 1 <= Len(s)
    BY <1>1
  <2>1. PICK m \in Nat : m = Len(s) - 1 /\ m <= Len(s)
    BY <2>0
  <2>2. /\ SubSeq(s, 1, m) \in Seq(Request) /\ Len(SubSeq(s, 1, m)) = m
        /\ \A i \in 1..m : SubSeq(s, 1, m)[i] = s[i]
    BY <2>1
  <2> QED BY <2>1, <2>2
<1> HIDE DEF b
<1>3. DOMAIN b = 1..(Len(s) - 1) /\ DOMAIN s = 1..Len(s)
    BY <1>2
<1> QED BY <1>1, <1>2, <1>3 DEF b

LEMMA SeenElements ==
    ASSUME NEW s \in Seq(Request), s # <<>>, NEW x
    PROVE  LET n == Len(s)
               new == [s EXCEPT ![n].left = @ \ {x}]
           IN  /\ new \in Seq(Request) /\ Len(new) = n /\ DOMAIN new = DOMAIN s
               /\ \A i \in DOMAIN s :
                     /\ new[i].place = s[i].place /\ new[i].scope = s[i].scope
                     /\ new[i].from = s[i].from
                     /\ new[i].left = IF i = n THEN s[i].left \ {x} ELSE s[i].left
<1> DEFINE n == Len(s)
           req == [s[n] EXCEPT !.left = @ \ {x}]
           new == [s EXCEPT ![n] = req]
<1>1. n \in DOMAIN s /\ s[n] \in Request
    OBVIOUS
<1>2. /\ req \in Request /\ req.place = s[n].place /\ req.scope = s[n].scope
      /\ req.from = s[n].from /\ req.left = s[n].left \ {x}
    BY <1>1 DEF Request
<1> HIDE DEF req
<1>3. /\ new \in Seq(Request) /\ Len(new) = n /\ DOMAIN new = DOMAIN s /\ new[n] = req
      /\ \A i \in DOMAIN s : i # n => new[i] = s[i]
    BY <1>1, <1>2
<1>4. new = [s EXCEPT ![n].left = @ \ {x}]
    BY <1>1 DEF req
<1> HIDE DEF new
<1>5. /\ new \in Seq(Request) /\ Len(new) = n /\ DOMAIN new = DOMAIN s
      /\ \A i \in DOMAIN s :
            /\ new[i].place = s[i].place /\ new[i].scope = s[i].scope
            /\ new[i].from = s[i].from
            /\ new[i].left = IF i = n THEN s[i].left \ {x} ELSE s[i].left
    BY <1>2, <1>3
<1> QED BY <1>4, <1>5 DEF n

LEMMA BelowOK ==
    ASSUME NEW k, NEW c, NEW s, NEW as, StackOK(k, c, s, as), s # <<>>
    PROVE  StackOK(k, c, SubSeq(s, 1, Len(s) - 1), as)
<1> DEFINE b == SubSeq(s, 1, Len(s) - 1)
<1>1. s \in Seq(Request)
    BY DEF StackOK
<1>2. b \in Seq(Request) /\ \A i \in DOMAIN b : i \in DOMAIN s /\ b[i] = s[i]
    BY <1>1, BelowElements
<1> HIDE DEF b
<1>3. StackOK(k, c, b, as)
    BY <1>2 DEF StackOK
<1> QED BY <1>3 DEF b

LEMMA SeenOK ==
    ASSUME NEW k, NEW c, NEW s, NEW as, StackOK(k, c, s, as), s # <<>>, NEW x
    PROVE  StackOK(k, c, [s EXCEPT ![Len(s)].left = @ \ {x}], as)
<1> DEFINE new == [s EXCEPT ![Len(s)].left = @ \ {x}]
<1>1. s \in Seq(Request)
    BY DEF StackOK
<1>2. /\ new \in Seq(Request) /\ DOMAIN new = DOMAIN s
      /\ \A i \in DOMAIN s :
            /\ new[i].place = s[i].place /\ new[i].scope = s[i].scope
            /\ new[i].from = s[i].from
            /\ new[i].left = IF i = Len(s) THEN s[i].left \ {x} ELSE s[i].left
    BY <1>1, SeenElements
<1> HIDE DEF new
<1>4. \A i \in DOMAIN s : new[i].left \subseteq s[i].left
    BY <1>2
<1>3. StackOK(k, c, new, as)
    BY <1>2, <1>4 DEF StackOK, Proper, Of
<1> QED BY <1>3 DEF new

(* A request on top of the stack that has been referred often enough.      *)
LEMMA AppendOK ==
    ASSUME NEW k, NEW c, NEW s, NEW as, StackOK(k, c, s, as),
           NEW req \in Request, Proper(req), NEW bs, as \subseteq bs, Of(req) \in bs,
           Len(req.from) \in Len(s) .. HopLimit,
           k # "search" => s = <<>> /\ req.left = {}, c
    PROVE  StackOK(k, c, Append(s, req), bs)
<1> DEFINE new == Append(s, req)
<1>1. s \in Seq(Request) /\ Len(s) \in Nat
    BY DEF StackOK
<1>2. /\ new \in Seq(Request) /\ DOMAIN new = DOMAIN s \union {Len(s) + 1}
      /\ new[Len(s) + 1] = req /\ \A i \in DOMAIN s : new[i] = s[i]
    BY <1>1
<1>3. s = <<>> => Len(s) + 1 = 1
    OBVIOUS
<1>4. (Len(s) + 1) - 1 = Len(s)
    BY <1>1
<1> HIDE DEF new
<1>5. ASSUME NEW i \in DOMAIN new
      PROVE  /\ Proper(new[i]) /\ Of(new[i]) \in bs
             /\ Len(new[i].from) \in i - 1 .. HopLimit
             /\ k # "search" => i = 1 /\ new[i].left = {}
             /\ ~c => new[i].from = <<>>
  <2>1. CASE i \in DOMAIN s
    BY <1>2, <2>1 DEF StackOK
  <2>2. CASE i = Len(s) + 1
    BY <1>2, <1>3, <1>4, <2>2
  <2> QED BY <1>2, <2>1, <2>2
<1> QED BY <1>2, <1>5 DEF StackOK, new

-----------------------------------------------------------------------------
(* What is still to come, as the stack changes. *)

LEMMA BelowLeft ==
    ASSUME NEW s \in Seq(Request), s # <<>>, NEW a, NEW x
    PROVE  LET b == SubSeq(s, 1, Len(s) - 1)
               req == s[Len(s)]
           IN  /\ EntryLeft(s, a, x) =>
                     EntryLeft(b, a, x) \/ (a = Of(req) /\ x \in req.left)
               /\ ReferenceLeft(s, a, x) =>
                     \/ ReferenceLeft(b, a, x)
                     \/ /\ a = Of(req)
                        /\ x \in req.left \/ (Moved[req.place] # <<>> /\ x = Moved[req.place])
<1> DEFINE b == SubSeq(s, 1, Len(s) - 1)
<1>1. \A i \in DOMAIN s : i # Len(s) => i \in DOMAIN b /\ b[i] = s[i]
    BY BelowElements
<1> HIDE DEF b
<1>2. /\ EntryLeft(s, a, x) =>
            EntryLeft(b, a, x) \/ (a = Of(s[Len(s)]) /\ x \in s[Len(s)].left)
      /\ ReferenceLeft(s, a, x) =>
            \/ ReferenceLeft(b, a, x)
            \/ /\ a = Of(s[Len(s)])
               /\ \/ x \in s[Len(s)].left
                  \/ Moved[s[Len(s)].place] # <<>> /\ x = Moved[s[Len(s)].place]
    BY <1>1 DEF EntryLeft, ReferenceLeft
<1> QED BY <1>2 DEF b

LEMMA SeenLeft ==
    ASSUME NEW s \in Seq(Request), s # <<>>, NEW seen, NEW a, NEW x
    PROVE  LET new == [s EXCEPT ![Len(s)].left = @ \ {seen}]
               done == a = Of(s[Len(s)]) /\ x = seen
           IN  /\ EntryLeft(s, a, x) => EntryLeft(new, a, x) \/ done
               /\ ReferenceLeft(s, a, x) => ReferenceLeft(new, a, x) \/ done
<1> DEFINE new == [s EXCEPT ![Len(s)].left = @ \ {seen}]
<1>1. /\ DOMAIN new = DOMAIN s
      /\ \A i \in DOMAIN s :
            /\ new[i].place = s[i].place /\ new[i].scope = s[i].scope
            /\ new[i].left = IF i = Len(s) THEN s[i].left \ {seen} ELSE s[i].left
    BY SeenElements
<1> HIDE DEF new
<1>2. \A i \in DOMAIN s : Of(new[i]) = Of(s[i])
    BY <1>1 DEF Of
<1>3. ASSUME NEW i \in DOMAIN s, Of(s[i]) = a, x \in s[i].left
      PROVE  x \in new[i].left \/ (a = Of(s[Len(s)]) /\ x = seen)
    BY <1>1, <1>3
<1>4. EntryLeft(s, a, x) => EntryLeft(new, a, x) \/ (a = Of(s[Len(s)]) /\ x = seen)
    BY <1>1, <1>2, <1>3 DEF EntryLeft
<1>5. ReferenceLeft(s, a, x) => ReferenceLeft(new, a, x) \/ (a = Of(s[Len(s)]) /\ x = seen)
    BY <1>1, <1>2, <1>3 DEF ReferenceLeft
<1> QED BY <1>4, <1>5 DEF new

LEMMA AppendLeft ==
    ASSUME NEW s \in Seq(Request), NEW req \in Request, NEW a, NEW x
    PROVE  /\ EntryLeft(s, a, x) => EntryLeft(Append(s, req), a, x)
           /\ ReferenceLeft(s, a, x) => ReferenceLeft(Append(s, req), a, x)
<1> DEFINE new == Append(s, req)
<1>1. \A i \in DOMAIN s : i \in DOMAIN new /\ new[i] = s[i]
    OBVIOUS
<1> HIDE DEF new
<1>2. /\ EntryLeft(s, a, x) => EntryLeft(new, a, x)
      /\ ReferenceLeft(s, a, x) => ReferenceLeft(new, a, x)
    BY <1>1 DEF EntryLeft, ReferenceLeft
<1> QED BY <1>2 DEF new

(* A request just sent has everything before it.                           *)
LEMMA FreshLeft ==
    ASSUME NEW s \in Seq(Request), NEW req \in Request,
           req.left = Holds[req.place]
                        \union (IF req.scope = "base" THEN {} ELSE Refers[req.place])
    PROVE  /\ Of(req) \in Asked
           /\ \A e \in EntriesAt[Of(req)] : EntryLeft(Append(s, req), Of(req), e)
           /\ \A r \in ReferencesAt[Of(req)] : ReferenceLeft(Append(s, req), Of(req), r)
<1> DEFINE new == Append(s, req)
           n == Len(s) + 1
<1>1. n \in DOMAIN new /\ new[n] = req
    OBVIOUS
<1>2. req.place \in Place /\ req.scope \in AnyScope
    BY DEF Request
<1>3. Of(req) \in Asked /\ Of(req)[1] = req.place /\ Of(req)[2] = req.scope
    BY <1>2 DEF Of, Asked, AnyScope
<1>4. EntriesAt[Of(req)] = Holds[req.place]
    BY <1>3 DEF EntriesAt
<1>5. ReferencesAt[Of(req)] = IF Moved[req.place] # <<>> THEN {Moved[req.place]}
                              ELSE IF req.scope = "base" THEN {} ELSE Refers[req.place]
    BY <1>3 DEF ReferencesAt
<1> HIDE DEF new, n
<1>6. \A e \in EntriesAt[Of(req)] : EntryLeft(new, Of(req), e)
    BY <1>1, <1>4 DEF EntryLeft
<1>7. \A r \in ReferencesAt[Of(req)] : ReferenceLeft(new, Of(req), r)
    BY <1>1, <1>5 DEF ReferenceLeft
<1> QED BY <1>3, <1>6, <1>7 DEF new

LEMMA AmongAppended ==
    ASSUME NEW S, NEW s \in Seq(S), NEW y \in S, NEW x
    PROVE  Among(x, Append(s, y)) <=> Among(x, s) \/ x = y
<1> DEFINE new == Append(s, y)
<1>1. /\ Len(new) = Len(s) + 1 /\ Len(s) \in Nat /\ new[Len(s) + 1] = y
      /\ \A i \in 1..Len(s) : new[i] = s[i]
    OBVIOUS
<1> HIDE DEF new
<1>2. 1..Len(new) = 1..Len(s) \union {Len(s) + 1}
    BY <1>1
<1>3. Among(x, new) <=> Among(x, s) \/ x = y
    BY <1>1, <1>2 DEF Among
<1> QED BY <1>3 DEF new

(* Nothing is lost when what was left is left, has arrived, or was         *)
(* followed to a place that is asked now.                                  *)
LEMMA NothingLostNow ==
    ASSUME NEW s, NEW as, NEW es, NEW rs, NothingLost(s, as, es, rs),
           NEW s2, NEW as2, NEW es2, NEW rs2, as \subseteq as2,
           \A x : Among(x, es) => Among(x, es2),
           \A x : Among(x, rs) => Among(x, rs2),
           \A a \in as : \A e \in EntriesAt[a] :
               EntryLeft(s, a, e) => EntryLeft(s2, a, e) \/ Among(e, es2),
           \A a \in as : \A r \in ReferencesAt[a] : ReferenceLeft(s, a, r) =>
               \/ ReferenceLeft(s2, a, r) \/ Among(r, rs2)
               \/ \E b \in as2 : <<a, r, b>> \in Leads,
           \A a \in as2 : a \notin as =>
               /\ \A e \in EntriesAt[a] : EntryLeft(s2, a, e)
               /\ \A r \in ReferencesAt[a] : ReferenceLeft(s2, a, r)
    PROVE  NothingLost(s2, as2, es2, rs2)
<1> SUFFICES ASSUME NEW a \in as2
             PROVE  /\ \A e \in EntriesAt[a] : Among(e, es2) \/ EntryLeft(s2, a, e)
                    /\ \A r \in ReferencesAt[a] :
                          \/ Among(r, rs2) \/ ReferenceLeft(s2, a, r)
                          \/ \E b \in as2 : <<a, r, b>> \in Leads
    BY DEF NothingLost
<1>1. CASE a \in as
    BY <1>1 DEF NothingLost
<1>2. CASE a \notin as
    BY <1>2
<1> QED BY <1>1, <1>2

-----------------------------------------------------------------------------
(* A request is sent after a referral. *)

(* Everything about a is still to come.                                    *)
FreshIn(t, a) == /\ \A e \in EntriesAt[a] : EntryLeft(t, a, e)
                 /\ \A r \in ReferencesAt[a] : ReferenceLeft(t, a, r)

(* What was to come with the stack s still is with the stack t.            *)
KeptBy(s, t) == \A a, x : /\ EntryLeft(s, a, x) => EntryLeft(t, a, x)
                          /\ ReferenceLeft(s, a, x) => ReferenceLeft(t, a, x)

(* The request sent to p after a referral of q, on top of rest.            *)
LEMMA SentOn ==
    ASSUME NEW q \in Request, NEW rest \in Seq(Request), NEW p \in Place,
           NEW byReference \in BOOLEAN, NEW req, req = Follow(q, p, byReference),
           NEW new, new = Append(rest, req)
    PROVE  /\ req \in Request /\ Proper(req) /\ Len(req.from) = Len(q.from) + 1
           /\ Of(req) \in Asked /\ new # <<>>
           /\ kind # "search" => req.left = {}
           /\ kind = "search" =>
                 /\ Of(req)[1] = p /\ Of(req)[2] = Onward(q.scope, byReference)
                 /\ FreshIn(new, Of(req)) /\ KeptBy(rest, new)
<1>1. /\ Follow(q, p, byReference) \in Request /\ Proper(Follow(q, p, byReference))
      /\ Len(Follow(q, p, byReference).from) = Len(q.from) + 1
      /\ kind # "search" => Follow(q, p, byReference).left = {}
      /\ kind = "search" =>
            /\ Follow(q, p, byReference).place = p
            /\ Follow(q, p, byReference).scope = Onward(q.scope, byReference)
            /\ Follow(q, p, byReference).left =
                  Holds[p] \union (IF Follow(q, p, byReference).scope = "base" THEN {}
                                   ELSE Refers[p])
    BY FollowIsRequest
<1>2. /\ req \in Request /\ Proper(req) /\ Len(req.from) = Len(q.from) + 1
      /\ kind # "search" => req.left = {}
      /\ kind = "search" =>
            /\ req.place = p /\ req.scope = Onward(q.scope, byReference)
            /\ req.left = Holds[p] \union (IF req.scope = "base" THEN {} ELSE Refers[p])
    BY <1>1
<1>3. Of(req) \in Asked /\ Of(req)[1] = req.place /\ Of(req)[2] = req.scope
    BY <1>2 DEF Of, Request, Asked, AnyScope
<1>4. new # <<>>
    BY <1>2
<1>5. ASSUME kind = "search"
      PROVE  FreshIn(new, Of(req))
  <2>1. req.left = Holds[req.place] \union (IF req.scope = "base" THEN {} ELSE Refers[req.place])
    BY <1>2, <1>5
  <2> QED BY <1>2, <2>1, FreshLeft DEF FreshIn
<1>6. KeptBy(rest, new)
    BY <1>2, AppendLeft DEF KeptBy
<1> QED BY <1>2, <1>3, <1>4, <1>5, <1>6

-----------------------------------------------------------------------------
(* Nothing is lost. *)

LEMMA LeftAt ==
    ASSUME NEW req \in Request, Proper(req)
    PROVE  /\ Moved[req.place] # <<>> => req.left = {}
           /\ \A x \in req.left : x \in Entries =>
                 Moved[req.place] = <<>> /\ x \in EntriesAt[Of(req)] /\ x \notin ReferencesAt[Of(req)]
           /\ \A x \in req.left : x \notin Entries =>
                 /\ Moved[req.place] = <<>> /\ req.scope # "base"
                 /\ x \in ReferencesAt[Of(req)] /\ x \in References /\ x \notin EntriesAt[Of(req)]
           /\ Moved[req.place] # <<>> => ReferencesAt[Of(req)] = {Moved[req.place]}
<1>1. req.place \in Place /\ req.scope \in AnyScope
    BY DEF Request
<1>2. Of(req) \in Asked /\ Of(req)[1] = req.place /\ Of(req)[2] = req.scope
    BY <1>1 DEF Of, Asked, AnyScope
<1>3. EntriesAt[Of(req)] = Holds[req.place]
    BY <1>2 DEF EntriesAt
<1>4. ReferencesAt[Of(req)] = IF Moved[req.place] # <<>> THEN {Moved[req.place]}
                              ELSE IF req.scope = "base" THEN {} ELSE Refers[req.place]
    BY <1>2 DEF ReferencesAt
<1>5. /\ Holds[req.place] \subseteq Entries /\ Refers[req.place] \subseteq References
      /\ \A r \in Refers[req.place] : r \notin Entries
      /\ Moved[req.place] # <<>> => Holds[req.place] = {} /\ Refers[req.place] = {}
    BY <1>1, WorldTypes
<1>6. /\ req.left \subseteq Holds[req.place] \union Refers[req.place]
      /\ req.scope = "base" => req.left \subseteq Holds[req.place]
    BY DEF Proper
<1>7. Moved[req.place] # <<>> => req.left = {}
    BY <1>5, <1>6
<1>8. \A x \in req.left : x \in Entries =>
         Moved[req.place] = <<>> /\ x \in EntriesAt[Of(req)] /\ x \notin ReferencesAt[Of(req)]
    BY <1>3, <1>4, <1>5, <1>6, <1>7
<1>9. \A x \in req.left : x \notin Entries =>
         /\ Moved[req.place] = <<>> /\ req.scope # "base"
         /\ x \in ReferencesAt[Of(req)] /\ x \in References /\ x \notin EntriesAt[Of(req)]
    BY <1>3, <1>4, <1>5, <1>6, <1>7
<1> QED BY <1>4, <1>7, <1>8, <1>9

(* An entry goes into the list. *)
LEMMA EntryKept ==
    ASSUME NEW s \in Seq(Request), s # <<>>, NEW as, NEW es \in Seq(Entries), NEW rs,
           NothingLost(s, as, es, rs), Proper(s[Len(s)]),
           NEW e \in Entries, e \in s[Len(s)].left
    PROVE  NothingLost([s EXCEPT ![Len(s)].left = @ \ {e}], as, Append(es, e), rs)
<1> DEFINE new == [s EXCEPT ![Len(s)].left = @ \ {e}]
           es2 == Append(es, e)
<1>1. s[Len(s)] \in Request
    OBVIOUS
<1>2. e \notin ReferencesAt[Of(s[Len(s)])]
    BY <1>1, LeftAt
<1>3. \A a, x : /\ EntryLeft(s, a, x) => EntryLeft(new, a, x) \/ (a = Of(s[Len(s)]) /\ x = e)
                /\ ReferenceLeft(s, a, x) => ReferenceLeft(new, a, x) \/ (a = Of(s[Len(s)]) /\ x = e)
    BY SeenLeft
<1>4. \A x : Among(x, es2) <=> Among(x, es) \/ x = e
    BY AmongAppended
<1> HIDE DEF new, es2
<1>5. \A a \in as : \A x \in EntriesAt[a] :
          EntryLeft(s, a, x) => EntryLeft(new, a, x) \/ Among(x, es2)
    BY <1>3, <1>4
<1>6. \A a \in as : \A r \in ReferencesAt[a] :
          ReferenceLeft(s, a, r) => ReferenceLeft(new, a, r)
    BY <1>2, <1>3
<1>7. \A x : Among(x, es) => Among(x, es2)
    BY <1>4
<1>8. NothingLost(new, as, es2, rs)
    BY <1>5, <1>6, <1>7, NothingLostNow
<1> QED BY <1>8 DEF new, es2

(* A reference is left to the caller. *)
LEMMA ReferenceKept ==
    ASSUME NEW s \in Seq(Request), s # <<>>, NEW as, NEW es, NEW rs \in Seq(References),
           NothingLost(s, as, es, rs), Proper(s[Len(s)]),
           NEW r \in References, r \notin Entries, r \in s[Len(s)].left
    PROVE  NothingLost([s EXCEPT ![Len(s)].left = @ \ {r}], as, es, Append(rs, r))
<1> DEFINE new == [s EXCEPT ![Len(s)].left = @ \ {r}]
           rs2 == Append(rs, r)
<1>1. s[Len(s)] \in Request
    OBVIOUS
<1>2. r \notin EntriesAt[Of(s[Len(s)])]
    BY <1>1, LeftAt
<1>3. \A a, x : /\ EntryLeft(s, a, x) => EntryLeft(new, a, x) \/ (a = Of(s[Len(s)]) /\ x = r)
                /\ ReferenceLeft(s, a, x) => ReferenceLeft(new, a, x) \/ (a = Of(s[Len(s)]) /\ x = r)
    BY SeenLeft
<1>4. \A x : Among(x, rs2) <=> Among(x, rs) \/ x = r
    BY AmongAppended
<1> HIDE DEF new, rs2
<1>5. \A a \in as : \A x \in EntriesAt[a] : EntryLeft(s, a, x) => EntryLeft(new, a, x)
    BY <1>2, <1>3
<1>6. \A a \in as : \A x \in ReferencesAt[a] :
          ReferenceLeft(s, a, x) => ReferenceLeft(new, a, x) \/ Among(x, rs2)
    BY <1>3, <1>4
<1>7. \A x : Among(x, rs) => Among(x, rs2)
    BY <1>4
<1>8. NothingLost(new, as, es, rs2)
    BY <1>5, <1>6, <1>7, NothingLostNow
<1> QED BY <1>8 DEF new, rs2

(* A reference is followed to b. *)
LEMMA ReferenceFollowed ==
    ASSUME NEW s \in Seq(Request), s # <<>>, NEW as \in SUBSET Asked, NEW es, NEW rs,
           NothingLost(s, as, es, rs), Proper(s[Len(s)]), Of(s[Len(s)]) \in as,
           NEW r, r \notin Entries, r \in s[Len(s)].left,
           NEW new, KeptBy([s EXCEPT ![Len(s)].left = @ \ {r}], new),
           NEW b \in Asked, FreshIn(new, b),
           NEW i \in DOMAIN r, b[1] = r[i],
           b[2] = IF s[Len(s)].scope = "one" THEN "base" ELSE s[Len(s)].scope
    PROVE  NothingLost(new, as \union {b}, es, rs)
<1> DEFINE seen == [s EXCEPT ![Len(s)].left = @ \ {r}]
           top0 == s[Len(s)]
           bs == as \union {b}
<1>1. top0 \in Request
    OBVIOUS
<1>2. r \notin EntriesAt[Of(top0)] /\ r \in ReferencesAt[Of(top0)] /\ Moved[top0.place] = <<>>
  <2> HIDE DEF top0
  <2> QED BY <1>1, LeftAt DEF top0
<1>3. \A a, x : /\ EntryLeft(s, a, x) => EntryLeft(seen, a, x) \/ (a = Of(top0) /\ x = r)
                /\ ReferenceLeft(s, a, x) => ReferenceLeft(seen, a, x) \/ (a = Of(top0) /\ x = r)
    BY SeenLeft
<1>4. Of(top0)[1] = top0.place /\ Of(top0)[2] = top0.scope /\ Of(top0) \in Asked
    BY DEF Of
<1>5. LeadsTo(Of(top0), r, b)
    BY <1>2, <1>4 DEF LeadsTo
<1>6. KeptBy(seen, new)
    OBVIOUS
<1> HIDE DEF top0, seen
<1>7. <<Of(top0), r, b>> \in Leads
    BY <1>2, <1>4, <1>5 DEF Leads
<1>8. \A a \in as : \A x \in EntriesAt[a] : EntryLeft(s, a, x) => EntryLeft(new, a, x)
    BY <1>2, <1>3, <1>6 DEF KeptBy
<1>9. b \in bs /\ as \subseteq bs /\ \A a \in bs : a \notin as => a = b
    OBVIOUS
<1> HIDE DEF bs
<1>10. \A a \in as : \A x \in ReferencesAt[a] : ReferenceLeft(s, a, x) =>
          ReferenceLeft(new, a, x) \/ \E c \in bs : <<a, x, c>> \in Leads
    BY <1>3, <1>6, <1>7, <1>9 DEF KeptBy
<1>11. \A a \in bs : a \notin as => /\ \A e \in EntriesAt[a] : EntryLeft(new, a, e)
                                   /\ \A x \in ReferencesAt[a] : ReferenceLeft(new, a, x)
    BY <1>9 DEF FreshIn
<1>12. NothingLost(new, bs, es, rs)
    BY <1>8, <1>9, <1>10, <1>11, NothingLostNow
<1> QED BY <1>12 DEF bs

(* The top of the stack is answered by a referral and followed to b. *)
LEMMA ReferralFollowed ==
    ASSUME NEW s \in Seq(Request), s # <<>>, NEW as \in SUBSET Asked, NEW es, NEW rs,
           NothingLost(s, as, es, rs), Proper(s[Len(s)]), Of(s[Len(s)]) \in as,
           NEW urls, urls = Moved[s[Len(s)].place], urls # <<>>,
           NEW new, KeptBy(SubSeq(s, 1, Len(s) - 1), new),
           NEW b \in Asked, FreshIn(new, b),
           NEW i \in DOMAIN urls, b[1] = urls[i], b[2] = s[Len(s)].scope
    PROVE  NothingLost(new, as \union {b}, es, rs)
<1> DEFINE rest == SubSeq(s, 1, Len(s) - 1)
           top0 == s[Len(s)]
           bs == as \union {b}
<1>1. top0 \in Request
    OBVIOUS
<1>2. top0.left = {} /\ ReferencesAt[Of(top0)] = {urls}
  <2> HIDE DEF top0
  <2> QED BY <1>1, LeftAt DEF top0
<1>3. \A a, x : /\ EntryLeft(s, a, x) => EntryLeft(rest, a, x)
                /\ ReferenceLeft(s, a, x) => ReferenceLeft(rest, a, x) \/ (a = Of(top0) /\ x = urls)
    BY <1>2, BelowLeft
<1>4. Of(top0)[1] = top0.place /\ Of(top0)[2] = top0.scope /\ Of(top0) \in Asked
    BY DEF Of
<1>5. LeadsTo(Of(top0), urls, b)
    BY <1>2, <1>4 DEF LeadsTo
<1>6. KeptBy(rest, new)
    OBVIOUS
<1> HIDE DEF top0, rest
<1>7. <<Of(top0), urls, b>> \in Leads
    BY <1>2, <1>4, <1>5 DEF Leads
<1>8. \A a \in as : \A x \in EntriesAt[a] : EntryLeft(s, a, x) => EntryLeft(new, a, x)
    BY <1>3, <1>6 DEF KeptBy
<1>9. b \in bs /\ as \subseteq bs /\ \A a \in bs : a \notin as => a = b
    OBVIOUS
<1> HIDE DEF bs
<1>10. \A a \in as : \A x \in ReferencesAt[a] : ReferenceLeft(s, a, x) =>
          ReferenceLeft(new, a, x) \/ \E c \in bs : <<a, x, c>> \in Leads
    BY <1>3, <1>6, <1>7, <1>9 DEF KeptBy
<1>11. \A a \in bs : a \notin as => /\ \A e \in EntriesAt[a] : EntryLeft(new, a, e)
                                   /\ \A x \in ReferencesAt[a] : ReferenceLeft(new, a, x)
    BY <1>9 DEF FreshIn
<1>12. NothingLost(new, bs, es, rs)
    BY <1>8, <1>9, <1>10, <1>11, NothingLostNow
<1> QED BY <1>12 DEF bs

(* A request that has brought everything is dropped. *)
LEMMA DoneKept ==
    ASSUME NEW s \in Seq(Request), s # <<>>, NEW as, NEW es, NEW rs,
           NothingLost(s, as, es, rs), s[Len(s)].left = {}, Moved[s[Len(s)].place] = <<>>
    PROVE  NothingLost(SubSeq(s, 1, Len(s) - 1), as, es, rs)
<1> DEFINE rest == SubSeq(s, 1, Len(s) - 1)
<1>1. \A a, x : /\ EntryLeft(s, a, x) => EntryLeft(rest, a, x)
                /\ ReferenceLeft(s, a, x) => ReferenceLeft(rest, a, x)
    BY BelowLeft
<1> HIDE DEF rest
<1>2. NothingLost(rest, as, es, rs)
    BY <1>1, NothingLostNow
<1> QED BY <1>2 DEF rest

-----------------------------------------------------------------------------
(* The call. *)

LEMMA AfterCall ==
    ASSUME IInv, told = "none", UNCHANGED <<kind, chase, once, read, over>>,
           StackOK(kind, chase, stack', asked'), asked' \subseteq Asked,
           entries' \in Seq(Entries), refs' \in Seq(References),
           told' \in {"none", "ok", "referral", "error", "failed", "crashed"},
           told' = "none" => stack' # <<>>,
           kind = "search" /\ told' = "none" => NothingLost(stack', asked', entries', refs'),
           ~chase => told' # "crashed"
    PROVE  IInv'
<1>1. read = 0 /\ ~over /\ read' = 0 /\ ~over'
    BY DEF IInv
<1>2. UnchasedIsSafe' /\ EntriesBeforeReferences'
    BY <1>1 DEF UnchasedIsSafe, EntriesBeforeReferences
<1>3. StackOK(kind, chase, stack, asked)'
    BY DEF StackOK
<1>4. (kind = "search" /\ told = "none" => NothingLost(stack, asked, entries, refs))'
    BY DEF NothingLost, EntryLeft, ReferenceLeft, Among
<1>5. Len(entries)' \in Nat
    OBVIOUS
<1> QED BY <1>1, <1>2, <1>3, <1>4, <1>5 DEF IInv

-----------------------------------------------------------------------------
LEMMA InitIInv == Init => IInv /\ Promise!Init
<1> SUFFICES ASSUME Init PROVE IInv /\ Promise!Init
    OBVIOUS
<1>1. PICK p \in Place, s \in IF kind = "search" THEN Scopes ELSE {"base"} :
          stack = <<Sent(p, s, <<>>)>> /\ asked = {<<p, s>>}
    BY DEF Init
<1>2. kind \in Kinds /\ chase \in BOOLEAN /\ once \in BOOLEAN /\ entries = <<>> /\ refs = <<>>
      /\ told = "none" /\ read = 0 /\ over = FALSE
    BY DEF Init
<1>3. s \in AnyScope /\ <<p, s>> \in Asked
    BY DEF AnyScope, Asked
<1> DEFINE req == Sent(p, s, <<>>)
<1>4. PICK from \in Seq(Keys) : from = <<>> /\ Len(from) = 0
  <2>1. <<>> \in Seq(Keys) /\ Len(<<>>) = 0
    OBVIOUS
  <2> QED BY <2>1
<1>5. /\ req \in Request /\ Proper(req) /\ req.place = p /\ req.scope = s /\ req.from = <<>>
      /\ kind # "search" => req.left = {}
      /\ kind = "search" => req.left = Holds[p] \union (IF s = "base" THEN {} ELSE Refers[p])
  <2>1. req = Sent(p, s, from)
    BY <1>4
  <2> HIDE DEF req
  <2>2. /\ Sent(p, s, from) \in Request /\ Proper(Sent(p, s, from))
        /\ Sent(p, s, from).place = p /\ Sent(p, s, from).scope = s
        /\ Sent(p, s, from).from = from
        /\ kind # "search" => Sent(p, s, from).left = {}
        /\ kind = "search" =>
              Sent(p, s, from).left = Holds[p] \union (IF s = "base" THEN {} ELSE Refers[p])
    BY <1>3, SentIsRequest
  <2> QED BY <1>4, <2>1, <2>2
<1> HIDE DEF req
<1>6. /\ stack \in Seq(Request) /\ DOMAIN stack = {1} /\ stack[1] = req /\ stack # <<>>
    BY <1>1, <1>5 DEF req
<1>7. Of(req) = <<p, s>> /\ asked = {Of(req)}
    BY <1>1, <1>5 DEF Of
<1>8. StackOK(kind, chase, stack, asked)
    BY <1>4, <1>5, <1>6, <1>7, WorldAssumption DEF StackOK
<1>9. ASSUME kind = "search" PROVE NothingLost(stack, asked, entries, refs)
  <2>1. req.left = Holds[req.place] \union (IF req.scope = "base" THEN {} ELSE Refers[req.place])
    BY <1>5, <1>9
  <2>2. /\ \A e \in EntriesAt[Of(req)] : EntryLeft(Append(<<>>, req), Of(req), e)
        /\ \A r \in ReferencesAt[Of(req)] : ReferenceLeft(Append(<<>>, req), Of(req), r)
    <3>1. PICK empty \in Seq(Request) : empty = <<>>
      <4>1. <<>> \in Seq(Request)
        OBVIOUS
      <4> QED BY <4>1
    <3>2. /\ \A e \in EntriesAt[Of(req)] : EntryLeft(Append(empty, req), Of(req), e)
          /\ \A r \in ReferencesAt[Of(req)] : ReferenceLeft(Append(empty, req), Of(req), r)
      BY <1>5, <2>1, FreshLeft
    <3> QED BY <3>1, <3>2
  <2>3. stack = Append(<<>>, req)
    BY <1>1 DEF req
  <2>4. /\ \A e \in EntriesAt[Of(req)] : EntryLeft(stack, Of(req), e)
        /\ \A r \in ReferencesAt[Of(req)] : ReferenceLeft(stack, Of(req), r)
    BY <2>2, <2>3
  <2> QED BY <1>7, <2>4 DEF NothingLost
<1>10. entries \in Seq(Entries) /\ refs \in Seq(References) /\ read \in 0..Len(entries)
    BY <1>2
<1>11. IInv
  <2>1. ~(read > 0) /\ asked \subseteq Asked
    BY <1>1, <1>2, <1>3
  <2>2. UnchasedIsSafe /\ EntriesBeforeReferences
    BY <1>2 DEF UnchasedIsSafe, EntriesBeforeReferences
  <2> QED BY <1>2, <1>6, <1>8, <1>9, <1>10, <2>1, <2>2 DEF IInv
<1>12. Promise!Init
    BY <1>1, <1>2, <1>3 DEF Promise!Init, Outcome
<1> QED BY <1>11, <1>12

(* The steps of the promise that a call takes; what is no search promises  *)
(* nothing.                                                                *)
LEMMA PromiseStutters ==
    ASSUME UNCHANGED <<kind, asked, entries, refs>>,
           kind = "search" => told' = told
    PROVE  [Promise!Next]_(Promise!vars)
<1>1. CASE kind = "search"
  <2>1. Outcome' = Outcome
    BY <1>1 DEF Outcome
  <2> QED BY <2>1 DEF Promise!vars
<1>2. CASE kind # "search"
  <2>1. Outcome = "none" /\ Outcome' = "none"
    BY <1>2 DEF Outcome
  <2> QED BY <2>1 DEF Promise!vars
<1> QED BY <1>1, <1>2

LEMMA PromiseFails ==
    ASSUME told = "none", told' \in {"referral", "error", "failed", "crashed"},
           UNCHANGED <<kind, asked, entries, refs>>
    PROVE  [Promise!Next]_(Promise!vars)
<1>1. CASE kind # "search"
    BY <1>1, PromiseStutters
<1>2. CASE kind = "search"
  <2>1. Outcome = "none" /\ Outcome' \in {"referral", "error", "failed"}
    BY <1>2 DEF Outcome
  <2>2. \E how \in {"referral", "error", "failed"} : Promise!Fail(how)
    BY <2>1 DEF Promise!Fail
  <2> QED BY <2>2 DEF Promise!Next
<1> QED BY <1>1, <1>2

LEMMA PromiseAsks ==
    ASSUME told = "none", NEW a \in Asked, asked' = asked \union {a},
           UNCHANGED <<kind, told, entries, refs>>
    PROVE  [Promise!Next]_(Promise!vars)
<1>1. Outcome = "none" /\ Outcome' = "none"
    BY DEF Outcome
<1>2. Promise!Ask(a)
    BY <1>1 DEF Promise!Ask
<1> QED BY <1>2 DEF Promise!Next

LEMMA TopOK ==
    ASSUME NEW k, NEW c, NEW s, NEW as, StackOK(k, c, s, as), s # <<>>
    PROVE  LET req == s[Len(s)]
           IN  /\ s \in Seq(Request) /\ req \in Request /\ Proper(req) /\ Of(req) \in as
               /\ Len(s) \in Nat \ {0} /\ Len(req.from) \in Len(s) - 1 .. HopLimit
               /\ k # "search" => Len(s) = 1 /\ req.left = {}
               /\ ~c => req.from = <<>>
<1>1. s \in Seq(Request) /\ Len(s) \in DOMAIN s /\ Len(s) \in Nat \ {0}
    BY DEF StackOK
<1>2. \A i \in DOMAIN s : Len(s[i].from) \in i - 1 .. HopLimit
    BY DEF StackOK
<1>3. \A i \in DOMAIN s : k # "search" => i = 1 /\ s[i].left = {}
    BY DEF StackOK
<1>4. \A i \in DOMAIN s : Proper(s[i]) /\ Of(s[i]) \in as /\ (~c => s[i].from = <<>>)
    BY DEF StackOK
<1>5. Len(s[Len(s)].from) \in Len(s) - 1 .. HopLimit /\ s[Len(s)] \in Request
    BY <1>1, <1>2
<1>6. k # "search" => Len(s) = 1 /\ s[Len(s)].left = {}
    BY <1>1, <1>3
<1>7. Proper(s[Len(s)]) /\ Of(s[Len(s)]) \in as /\ (~c => s[Len(s)].from = <<>>)
    BY <1>1, <1>4
<1> QED BY <1>1, <1>5, <1>6, <1>7, Zenon

LEMMA Now ==
    ASSUME IInv, told = "none"
    PROVE  /\ stack \in Seq(Request) /\ stack # <<>> /\ Len(stack) \in Nat \ {0}
           /\ top \in Request /\ Proper(top) /\ Of(top) \in asked
           /\ Len(top.from) \in Len(stack) - 1 .. HopLimit
           /\ kind # "search" => Len(stack) = 1 /\ top.left = {}
           /\ ~chase => top.from = <<>>
           /\ StackOK(kind, chase, stack, asked) /\ asked \subseteq Asked
           /\ entries \in Seq(Entries) /\ refs \in Seq(References)
           /\ kind = "search" => NothingLost(stack, asked, entries, refs)
<1>1. PICK k, c, s, as : k = kind /\ c = chase /\ s = stack /\ as = asked
    OBVIOUS
<1>2. StackOK(k, c, s, as) /\ s # <<>>
    BY <1>1 DEF IInv
<1>3. top = s[Len(s)]
    BY <1>1 DEF top
<1> QED BY <1>1, <1>2, <1>3, TopOK DEF IInv

LEMMA EntryStep ==
    ASSUME IInv, NEW e \in Entries, EntryArrives(e)
    PROVE  IInv' /\ [Promise!Next]_(Promise!vars)
<1>1. PICK k, c, s, as, es, rs : /\ k = kind /\ c = chase /\ s = stack /\ as = asked
                                 /\ es = entries /\ rs = refs
    OBVIOUS
<1>2. /\ told = "none" /\ told' = "none" /\ e \in top.left /\ entries' = Append(entries, e)
      /\ stack' = [stack EXCEPT ![Len(stack)].left = @ \ {e}]
      /\ UNCHANGED <<kind, chase, once, read, over, refs, asked>>
    BY DEF EntryArrives, GoesOn
<1>3. kind = "search"
    BY <1>2, Now
<1>4. /\ s \in Seq(Request) /\ s # <<>> /\ StackOK(k, c, s, as) /\ es \in Seq(Entries)
      /\ NothingLost(s, as, es, rs) /\ Proper(s[Len(s)]) /\ e \in s[Len(s)].left
      /\ Of(s[Len(s)]) \in as /\ s[Len(s)] \in Request
    BY <1>1, <1>2, <1>3, Now DEF top
<1> DEFINE new == [s EXCEPT ![Len(s)].left = @ \ {e}]
<1>5. new = stack' /\ new \in Seq(Request) /\ Len(new) = Len(s)
    BY <1>1, <1>2, <1>4, SeenElements
<1>6. StackOK(k, c, new, as) /\ NothingLost(new, as, Append(es, e), rs)
    BY <1>4, SeenOK, EntryKept
<1> HIDE DEF new
<1>7. StackOK(kind, chase, stack', asked') /\ NothingLost(stack', asked', entries', refs')
    BY <1>1, <1>2, <1>5, <1>6
<1>8. stack' # <<>>
    BY <1>4, <1>5
<1>9. entries' \in Seq(Entries) /\ refs' \in Seq(References) /\ asked' \subseteq Asked
    BY <1>2, Now
<1>10. IInv'
    BY <1>2, <1>7, <1>8, <1>9, AfterCall
<1>11. e \in EntriesAt[Of(s[Len(s)])] /\ Of(s[Len(s)]) \in asked
    BY <1>1, <1>4, LeftAt
<1>12. Outcome = "none" /\ Outcome' = "none"
    BY <1>2 DEF Outcome
<1>13. Promise!Collect(e)
    BY <1>2, <1>11, <1>12 DEF Promise!Collect
<1> QED BY <1>10, <1>11, <1>13 DEF Promise!Next

(* The caller reads. *)
LEMMA ReadStep ==
    ASSUME IInv, Read PROVE IInv' /\ [Promise!Next]_(Promise!vars)
<1>1. /\ told = "ok" /\ read' = (IF read < Len(entries) THEN read + 1 ELSE read)
      /\ over' = (once \/ read' = read)
      /\ UNCHANGED <<kind, chase, stack, entries, refs, told, once, asked>>
    BY DEF Read
<1>2. read \in 0..Len(entries) /\ Len(entries) \in Nat
    BY DEF IInv
<1>3. read' \in 0..Len(entries) /\ (read' = read => read = Len(entries))
    BY <1>1, <1>2
<1>4. EntriesBeforeReferences' /\ UnchasedIsSafe' /\ over' \in BOOLEAN
    BY <1>1, <1>3 DEF EntriesBeforeReferences, UnchasedIsSafe, IInv
<1>5. /\ StackOK(kind, chase, stack, asked)'
      /\ (kind = "search" /\ told = "none" => NothingLost(stack, asked, entries, refs))'
    BY <1>1 DEF IInv, StackOK
<1>6. IInv'
    BY <1>1, <1>3, <1>4, <1>5 DEF IInv
<1> QED BY <1>1, <1>6, PromiseStutters

(* A request for the top of the stack, on top of rest. *)
LEMMA SentNow ==
    ASSUME IInv, told = "none", MayChase,
           NEW rest, StackOK(kind, chase, rest, asked), Len(rest) <= Len(stack),
           kind # "search" => rest = <<>>,
           NEW p \in Place, NEW byReference \in BOOLEAN,
           NEW req, req = Follow(top, p, byReference), Hops(req) <= HopLimit,
           NEW new, new = Append(rest, req)
    PROVE  /\ Of(req) \in Asked /\ StackOK(kind, chase, new, asked \union {Of(req)})
           /\ new # <<>>
           /\ kind = "search" =>
                 /\ Of(req)[1] = p
                 /\ Of(req)[2] = Onward(top.scope, byReference)
                 /\ FreshIn(new, Of(req)) /\ KeptBy(rest, new)
<1>1. PICK k, c, as, q : k = kind /\ c = chase /\ as = asked /\ q = top
    OBVIOUS
<1>2. /\ q \in Request /\ Len(q.from) \in Len(stack) - 1 .. HopLimit /\ Len(stack) \in Nat \ {0}
      /\ StackOK(k, c, rest, as) /\ rest \in Seq(Request) /\ Len(rest) \in Nat
    BY <1>1, Now DEF StackOK
<1>3. /\ req = Follow(q, p, byReference) /\ new = Append(rest, req)
      /\ p \in Place /\ byReference \in BOOLEAN
    BY <1>1
<1>4. q \in Request /\ rest \in Seq(Request)
    BY <1>2
<1>5. /\ req \in Request /\ Len(req.from) = Len(q.from) + 1
      /\ Of(req) \in Asked /\ new # <<>>
      /\ kind # "search" => req.left = {}
    BY <1>2, <1>3, SentOn
<1>6. Proper(req)
    BY <1>2, <1>3, SentOn
<1>7. kind = "search" => Of(req)[1] = p /\ Of(req)[2] = Onward(q.scope, byReference)
    BY <1>2, <1>3, SentOn
<1>8. kind = "search" => FreshIn(new, Of(req))
    BY ONLY <1>3, <1>4, SentOn
<1>9. kind = "search" => KeptBy(rest, new)
    BY ONLY <1>3, <1>4, SentOn
<1>10. Len(req.from) \in Len(rest) .. HopLimit
    BY <1>2, <1>5, WorldAssumption DEF Hops
<1>11. StackOK(k, c, new, as \union {Of(req)})
  <2>1. PICK bs : bs = as \union {Of(req)}
    OBVIOUS
  <2>2. as \subseteq bs /\ Of(req) \in bs /\ c /\ (k # "search" => rest = <<>> /\ req.left = {})
    BY <1>1, <1>5, <2>1 DEF MayChase
  <2>3. StackOK(k, c, Append(rest, req), bs)
    BY <1>2, <1>5, <1>10, <1>6, <2>2, AppendOK
  <2> QED BY <2>1, <2>3
<1> QED BY <1>1, <1>5, <1>11, <1>7, <1>8, <1>9

(* The step that sends it. *)
LEMMA SentStep ==
    ASSUME IInv, told = "none", told' = "none",
           UNCHANGED <<kind, chase, once, read, over, entries, refs>>,
           NEW b \in Asked, asked' = asked \union {b},
           StackOK(kind, chase, stack', asked'), stack' # <<>>,
           kind = "search" => NothingLost(stack', asked', entries', refs')
    PROVE  IInv' /\ [Promise!Next]_(Promise!vars)
<1>1. asked' \subseteq Asked /\ entries' \in Seq(Entries) /\ refs' \in Seq(References)
    BY Now
<1>2. IInv'
    BY <1>1, AfterCall
<1>3. [Promise!Next]_(Promise!vars)
    BY PromiseAsks
<1> QED BY <1>2, <1>3

LEMMA ReferenceStep ==
    ASSUME IInv, NEW p \in Place, NEW urls \in Refers[p], ReferenceArrives(urls)
    PROVE  IInv' /\ [Promise!Next]_(Promise!vars)
<1>1. urls \in Seq(Place) /\ urls \notin Entries /\ urls \in References
    BY WorldTypes
<1>2. told = "none" /\ urls \in top.left /\ entries' = entries
    BY DEF ReferenceArrives
<1>3. kind = "search"
    BY <1>2, Now
<1>4. PICK k, c, s, as, es, rs : /\ k = kind /\ c = chase /\ s = stack /\ as = asked
                                 /\ es = entries /\ rs = refs
    OBVIOUS
<1>5. /\ s \in Seq(Request) /\ s # <<>> /\ StackOK(k, c, s, as) /\ rs \in Seq(References)
      /\ NothingLost(s, as, es, rs) /\ Proper(s[Len(s)]) /\ urls \in s[Len(s)].left
      /\ Of(s[Len(s)]) \in as /\ s[Len(s)] \in Request /\ as \in SUBSET Asked
      /\ top = s[Len(s)]
    BY <1>2, <1>3, <1>4, Now DEF top
<1> DEFINE seen == [s EXCEPT ![Len(s)].left = @ \ {urls}]
<1>6. /\ seen = [stack EXCEPT ![Len(stack)].left = @ \ {urls}]
      /\ seen \in Seq(Request) /\ Len(seen) = Len(s) /\ Len(s) \in Nat \ {0}
  <2>1. seen \in Seq(Request) /\ Len(seen) = Len(s)
    BY <1>5, SeenElements
  <2>2. Len(s) \in Nat \ {0}
    BY <1>5
  <2>3. seen = [stack EXCEPT ![Len(stack)].left = @ \ {urls}]
    BY <1>4
  <2> QED BY <2>1, <2>2, <2>3
<1>7. StackOK(k, c, seen, as)
    BY <1>5, SeenOK
<1>8. NothingLost(seen, as, es, Append(rs, urls))
    BY <1>1, <1>5, ReferenceKept
<1>9. ASSUME NEW new, KeptBy(seen, new), NEW b \in Asked, FreshIn(new, b),
             NEW i \in DOMAIN urls, b[1] = urls[i],
             b[2] = IF s[Len(s)].scope = "one" THEN "base" ELSE s[Len(s)].scope
      PROVE  NothingLost(new, as \union {b}, es, rs)
    BY <1>1, <1>5, <1>9, ReferenceFollowed
<1> HIDE DEF seen
<1>10. \/ MayChase /\ Chases(urls, seen, TRUE) /\ GoesOn /\ UNCHANGED refs
       \/ stack' = seen /\ Returns("failed") /\ UNCHANGED <<refs, asked>>
       \/ stack' = seen /\ refs' = Append(refs, urls) /\ GoesOn /\ UNCHANGED asked
    BY <1>6 DEF ReferenceArrives
<1>11. seen # <<>>
    BY <1>6
<1>12. CASE MayChase /\ Chases(urls, seen, TRUE) /\ GoesOn /\ UNCHANGED refs
  <2>1. PICK i \in DOMAIN urls :
            LET req == Follow(top, urls[i], TRUE)
            IN  /\ Hops(req) <= HopLimit /\ stack' = Append(seen, req)
                /\ asked' = asked \union {<<req.place, req.scope>>}
    BY <1>12 DEF Chases
  <2>2. PICK req : req = Follow(top, urls[i], TRUE)
    OBVIOUS
  <2>3. /\ Hops(req) <= HopLimit /\ stack' = Append(seen, req)
        /\ asked' = asked \union {<<req.place, req.scope>>}
    BY <2>1, <2>2
  <2>4. PICK q \in Place : q = urls[i]
    BY <1>1
  <2>5. PICK mode \in BOOLEAN : mode = TRUE
    OBVIOUS
  <2>6. PICK new : new = stack'
    OBVIOUS
  <2>7. /\ StackOK(kind, chase, seen, asked) /\ Len(seen) <= Len(stack)
        /\ told' = "none" /\ UNCHANGED <<kind, chase, once, read, over, entries, refs>>
    BY <1>2, <1>4, <1>6, <1>7, <1>12 DEF GoesOn
  <2>8. req = Follow(top, q, mode) /\ new = Append(seen, req)
    BY <2>2, <2>3, <2>4, <2>5, <2>6
  <2>9. /\ Of(req) \in Asked /\ StackOK(kind, chase, new, asked \union {Of(req)}) /\ new # <<>>
        /\ Of(req)[1] = q /\ Of(req)[2] = Onward(top.scope, mode)
        /\ FreshIn(new, Of(req)) /\ KeptBy(seen, new)
    BY <1>2, <1>3, <1>12, <2>3, <2>7, <2>8, SentNow, ZenonT(30)
  <2>10. asked' = asked \union {Of(req)}
    BY <2>3 DEF Of
  <2>11. PICK b \in Asked : b = Of(req)
    BY <2>9
  <2>12. Onward(top.scope, mode) = IF s[Len(s)].scope = "one" THEN "base" ELSE s[Len(s)].scope
    BY <1>5, <2>5 DEF Onward
  <2>13. NothingLost(new, as \union {b}, es, rs)
    BY <1>9, <2>4, <2>9, <2>11, <2>12
  <2>14. /\ NothingLost(stack', asked', entries', refs') /\ StackOK(kind, chase, stack', asked')
         /\ stack' # <<>>
    BY <1>4, <2>6, <2>7, <2>9, <2>10, <2>11, <2>13
  <2> QED BY <1>2, <2>7, <2>10, <2>11, <2>14, SentStep
<1>13. CASE stack' = seen /\ Returns("failed") /\ UNCHANGED <<refs, asked>>
  <2>1. told' = "failed" /\ UNCHANGED <<kind, chase, once, read, over, entries, refs, asked>>
    BY <1>2, <1>13 DEF Returns
  <2>2. StackOK(kind, chase, stack', asked')
    BY <1>4, <1>7, <1>13, <2>1
  <2>3. entries' \in Seq(Entries) /\ refs' \in Seq(References) /\ asked' \subseteq Asked
    BY <1>2, <2>1, Now
  <2>4. IInv'
    BY <1>2, <2>1, <2>2, <2>3, AfterCall
  <2> QED BY <1>2, <2>1, <2>4, PromiseFails
<1>14. CASE stack' = seen /\ refs' = Append(refs, urls) /\ GoesOn /\ UNCHANGED asked
  <2>1. told' = "none" /\ UNCHANGED <<kind, chase, once, read, over, entries, asked>>
    BY <1>2, <1>14 DEF GoesOn
  <2>2. /\ StackOK(kind, chase, stack', asked') /\ NothingLost(stack', asked', entries', refs')
        /\ stack' # <<>>
    BY <1>4, <1>7, <1>8, <1>11, <1>14, <2>1
  <2>3. entries' \in Seq(Entries) /\ refs' \in Seq(References) /\ asked' \subseteq Asked
    BY <1>1, <1>2, <1>14, <2>1, Now
  <2>4. IInv'
    BY <1>2, <2>1, <2>2, <2>3, AfterCall
  <2>5. Of(s[Len(s)]) \in asked /\ urls \in ReferencesAt[Of(s[Len(s)])]
    BY <1>1, <1>4, <1>5, LeftAt
  <2>6. Outcome = "none" /\ Outcome' = "none"
    BY <1>2, <2>1 DEF Outcome
  <2>7. Promise!Report(urls)
    BY <1>14, <2>1, <2>5, <2>6 DEF Promise!Report
  <2> QED BY <2>4, <2>5, <2>7 DEF Promise!Next
<1> QED BY <1>10, <1>12, <1>13, <1>14

LEMMA ReferralStep ==
    ASSUME IInv, ReferralArrives PROVE IInv' /\ [Promise!Next]_(Promise!vars)
<1>1. PICK urls, rest : urls = Moved[top.place] /\ rest = below
    OBVIOUS
<1>2. /\ told = "none" /\ urls # <<>> /\ entries' = entries /\ refs' = refs
      /\ \/ MayChase /\ Chases(urls, rest, FALSE) /\ GoesOn
         \/ Returns("failed") /\ UNCHANGED <<stack, asked>>
         \/ Returns("referral") /\ UNCHANGED <<stack, asked>>
    BY <1>1 DEF ReferralArrives
<1>3. PICK k, c, s, as, es, rs : /\ k = kind /\ c = chase /\ s = stack /\ as = asked
                                 /\ es = entries /\ rs = refs
    OBVIOUS
<1>4. /\ s \in Seq(Request) /\ s # <<>> /\ StackOK(k, c, s, as) /\ Len(s) \in Nat \ {0}
      /\ k = "search" => NothingLost(s, as, es, rs)
      /\ k # "search" => Len(s) = 1
      /\ Proper(s[Len(s)]) /\ Of(s[Len(s)]) \in as /\ s[Len(s)] \in Request
      /\ as \in SUBSET Asked /\ top = s[Len(s)]
    BY <1>2, <1>3, Now DEF top
<1>5. rest = SubSeq(s, 1, Len(s) - 1)
    BY <1>1, <1>3 DEF below
<1>6. StackOK(k, c, rest, as)
    BY <1>4, <1>5, BelowOK
<1>7. rest \in Seq(Request) /\ Len(rest) = Len(s) - 1
    BY <1>4, <1>5, BelowElements
<1>8. CASE MayChase /\ Chases(urls, rest, FALSE) /\ GoesOn
  <2>1. PICK i \in DOMAIN urls :
            LET req == Follow(top, urls[i], FALSE)
            IN  /\ Hops(req) <= HopLimit /\ stack' = Append(rest, req)
                /\ asked' = asked \union {<<req.place, req.scope>>}
    BY <1>8 DEF Chases
  <2>2. PICK req : req = Follow(top, urls[i], FALSE)
    OBVIOUS
  <2>3. /\ Hops(req) <= HopLimit /\ stack' = Append(rest, req)
        /\ asked' = asked \union {<<req.place, req.scope>>}
    BY <2>1, <2>2
  <2>4. PICK q \in Place : q = urls[i]
    <3>1. top.place \in Place
      BY <1>4 DEF Request
    <3>2. urls \in Seq(Place)
      BY <1>1, <3>1, WorldTypes
    <3> QED BY <3>2
  <2>5. PICK mode \in BOOLEAN : mode = FALSE
    OBVIOUS
  <2>6. PICK new : new = stack'
    OBVIOUS
  <2>7. /\ StackOK(kind, chase, rest, asked) /\ Len(rest) <= Len(stack)
        /\ told' = "none" /\ UNCHANGED <<kind, chase, once, read, over, entries, refs>>
    BY <1>2, <1>3, <1>4, <1>6, <1>7, <1>8 DEF GoesOn
  <2>8. kind # "search" => rest = <<>>
    <3>1. CASE kind # "search"
      <4>1. Len(rest) = 0
        BY <1>3, <1>4, <1>7, <3>1
      <4> QED BY <1>7, <4>1
    <3> QED BY <3>1
  <2>9. req = Follow(top, q, mode) /\ new = Append(rest, req)
    BY <2>2, <2>3, <2>4, <2>5, <2>6
  <2>10. /\ Of(req) \in Asked /\ StackOK(kind, chase, new, asked \union {Of(req)}) /\ new # <<>>
         /\ kind = "search" =>
               /\ Of(req)[1] = q /\ Of(req)[2] = Onward(top.scope, mode)
               /\ FreshIn(new, Of(req)) /\ KeptBy(rest, new)
    <3>1. CASE kind = "search"
      BY <1>2, <1>8, <2>3, <2>7, <2>9, <3>1, SentNow
    <3>2. CASE kind # "search"
      BY <1>2, <1>8, <2>3, <2>7, <2>8, <2>9, <3>2, SentNow
    <3> QED BY <3>1, <3>2
  <2>11. asked' = asked \union {Of(req)}
    BY <2>3 DEF Of
  <2>12. PICK b \in Asked : b = Of(req)
    BY <2>10
  <2>13. Onward(top.scope, mode) = s[Len(s)].scope
    BY <1>4, <2>5 DEF Onward
  <2>14. ASSUME kind = "search" PROVE NothingLost(new, as \union {b}, es, rs)
    <3>1. /\ b[1] = urls[i] /\ b[2] = s[Len(s)].scope /\ FreshIn(new, b)
          /\ KeptBy(SubSeq(s, 1, Len(s) - 1), new) /\ NothingLost(s, as, es, rs)
      BY <1>3, <1>4, <1>5, <2>4, <2>10, <2>12, <2>13, <2>14
    <3> QED BY <1>1, <1>2, <1>4, <3>1, ReferralFollowed
  <2>15. StackOK(kind, chase, stack', asked') /\ stack' # <<>>
    BY <2>6, <2>7, <2>10, <2>11
  <2>16. kind = "search" => NothingLost(stack', asked', entries', refs')
    BY <1>3, <2>6, <2>7, <2>11, <2>12, <2>14
  <2> QED BY <1>2, <2>7, <2>11, <2>12, <2>15, <2>16, SentStep
<1>9. ASSUME NEW how \in {"failed", "referral"}, Returns(how), UNCHANGED <<stack, asked>>
      PROVE  IInv' /\ [Promise!Next]_(Promise!vars)
  <2>1. told' = how /\ UNCHANGED <<kind, chase, once, read, over, entries, refs, asked>>
    BY <1>2, <1>9 DEF Returns
  <2>2. StackOK(kind, chase, stack', asked')
    BY <1>2, <1>9, <2>1, Now
  <2>3. entries' \in Seq(Entries) /\ refs' \in Seq(References) /\ asked' \subseteq Asked
    BY <1>2, <2>1, Now
  <2>4. IInv'
    BY <1>2, <2>1, <2>2, <2>3, AfterCall
  <2> QED BY <1>2, <2>1, <2>4, PromiseFails
<1> QED BY <1>2, <1>8, <1>9

(* What ends the request on top. *)
LEMMA BelowNow ==
    ASSUME IInv, told = "none", stack' = below, asked' = asked
    PROVE  /\ StackOK(kind, chase, stack', asked') /\ Len(stack') = Len(stack) - 1
           /\ stack' \in Seq(Request)
           /\ kind = "search" /\ top.left = {} /\ Moved[top.place] = <<>> =>
                 NothingLost(stack', asked', entries, refs)
<1>1. PICK k, c, s, as, es, rs : /\ k = kind /\ c = chase /\ s = stack /\ as = asked
                                 /\ es = entries /\ rs = refs
    OBVIOUS
<1>2. /\ s \in Seq(Request) /\ s # <<>> /\ StackOK(k, c, s, as)
      /\ k = "search" => NothingLost(s, as, es, rs)
      /\ top = s[Len(s)]
    BY <1>1, Now DEF top
<1>3. PICK rest : rest = SubSeq(s, 1, Len(s) - 1)
    OBVIOUS
<1>4. stack' = rest
    BY <1>1, <1>3 DEF below
<1>5. StackOK(k, c, rest, as)
    BY <1>2, <1>3, BelowOK
<1>6. rest \in Seq(Request) /\ Len(rest) = Len(s) - 1
    BY <1>2, <1>3, BelowElements
<1>7. ASSUME k = "search", top.left = {}, Moved[top.place] = <<>>
      PROVE  NothingLost(rest, as, es, rs)
    BY <1>2, <1>3, <1>7, DoneKept
<1> QED BY <1>1, <1>4, <1>5, <1>6, <1>7

LEMMA ReferralDoneStep ==
    ASSUME IInv, ReferralDone PROVE IInv' /\ [Promise!Next]_(Promise!vars)
<1>1. /\ told = "none" /\ kind = "search" /\ top.from # <<>> /\ Moved[top.place] = <<>>
      /\ top.left = {} /\ stack' = below /\ UNCHANGED <<entries, refs, asked>>
      /\ UNCHANGED <<kind, chase, once, read, over>>
      /\ told' = IF below = <<>> THEN "crashed" ELSE "none"
    BY DEF ReferralDone, IsReferral, Returns, GoesOn
<1>2. StackOK(kind, chase, stack', asked') /\ NothingLost(stack', asked', entries', refs')
    BY <1>1, BelowNow
<1>3. chase
    BY <1>1, Now
<1>4. entries' \in Seq(Entries) /\ refs' \in Seq(References) /\ asked' \subseteq Asked
    BY <1>1, Now
<1>5. IInv'
    BY <1>1, <1>2, <1>3, <1>4, AfterCall
<1>6. CASE below = <<>>
    BY <1>1, <1>5, <1>6, PromiseFails
<1>7. CASE below # <<>>
    BY <1>1, <1>5, <1>7, PromiseStutters
<1> QED BY <1>6, <1>7

LEMMA ResultStep ==
    ASSUME IInv, NEW code \in Codes, ResultArrives(code)
    PROVE  IInv' /\ [Promise!Next]_(Promise!vars)
<1>1. /\ told = "none" /\ code \in Accepted \union {"busy"}
      /\ code # "busy" => top.left = {} /\ Moved[top.place] = <<>>
      /\ code = "success" /\ kind = "search" => top.from = <<>>
      /\ stack' = below /\ UNCHANGED <<entries, refs, asked>>
      /\ told' = Told(code) /\ UNCHANGED <<kind, chase, once, read, over>>
    BY DEF ResultArrives, IsReferral, Returns
<1>2. /\ code = "busy" => told' = "error"
      /\ code # "busy" => told' = "ok" /\ (kind = "search" => code = "success")
  <2>1. /\ "busy" \notin Accepted /\ "referral" \notin Accepted
        /\ kind = "search" => Accepted = {"success"}
    BY DEF Accepted
  <2>2. CASE code = "busy"
    <3>1. code \notin Accepted /\ code # "referral"
      BY <2>1, <2>2
    <3>2. Told(code) = "error"
      BY <3>1 DEF Told
    <3> QED BY <1>1, <2>2, <3>2
  <2>3. CASE code # "busy"
    <3>1. code \in Accepted /\ code # "referral"
      BY <1>1, <2>1, <2>3
    <3>2. Told(code) = "ok"
      BY <3>1 DEF Told
    <3> QED BY <1>1, <2>1, <2>3, <3>1, <3>2
  <2> QED BY <2>2, <2>3
<1>3. StackOK(kind, chase, stack', asked')
    BY <1>1, BelowNow
<1>4. entries' \in Seq(Entries) /\ refs' \in Seq(References) /\ asked' \subseteq Asked
    BY <1>1, Now
<1>5. IInv'
    BY <1>1, <1>2, <1>3, <1>4, AfterCall
<1>6. CASE code = "busy"
    BY <1>1, <1>2, <1>5, <1>6, PromiseFails
<1>7. CASE code # "busy" /\ kind # "search"
    BY <1>1, <1>5, <1>7, PromiseStutters
<1>8. CASE code # "busy" /\ kind = "search"
  <2>1. Len(stack) = 1 /\ Len(stack') = 0 /\ NothingLost(stack', asked', entries, refs)
    <3>1. Len(top.from) = 0
      BY <1>1, <1>2, <1>8
    <3>2. Len(top.from) \in Len(stack) - 1 .. HopLimit /\ Len(stack) \in Nat \ {0}
      <4>1. told = "none"
        BY <1>1
      <4>2. Len(top.from) \in Len(stack) - 1 .. HopLimit
        BY ONLY IInv, <4>1, Now
      <4>3. Len(stack) \in Nat \ {0}
        BY ONLY IInv, <4>1, Now
      <4> QED BY <4>2, <4>3
    <3>3. Len(stack) = 1
      <4>1. PICK n, m : n = Len(stack) /\ m = Len(top.from)
        OBVIOUS
      <4>2. n \in Nat \ {0} /\ m = 0 /\ m \in n - 1 .. HopLimit /\ HopLimit \in Nat
        BY <3>1, <3>2, <4>1, WorldAssumption
      <4>3. n = 1
        BY ONLY <4>2
      <4> QED BY <4>1, <4>3
    <3> QED BY <1>1, <1>8, <3>3, BelowNow, <1>2
  <2>2. PICK t, as, es, rs : t = stack' /\ as = asked /\ es = entries /\ rs = refs
    OBVIOUS
  <2>3. Len(t) = 0 /\ t \in Seq(Request) /\ NothingLost(t, as, es, rs)
    BY <1>1, <2>1, <2>2, BelowNow
  <2>4. DOMAIN t = {}
    BY <2>3
  <2>5. ASSUME NEW a \in as
        PROVE  /\ \A e \in EntriesAt[a] : Among(e, es)
               /\ \A r \in ReferencesAt[a] : Among(r, rs) \/ \E b \in as : <<a, r, b>> \in Leads
    BY <2>3, <2>4 DEF NothingLost, EntryLeft, ReferenceLeft
  <2>6. \A x : /\ Among(x, es) => x \in {entries[i] : i \in 1..Len(entries)}
               /\ Among(x, rs) => x \in {refs[i] : i \in 1..Len(refs)}
    BY <2>2 DEF Among
  <2>7. Promise!Complete
    BY <2>2, <2>5, <2>6 DEF Promise!Complete, Promise!Collected
  <2>8. Outcome = "none" /\ Outcome' = "ok"
    BY <1>1, <1>2, <1>8 DEF Outcome
  <2>9. Promise!Succeed
    BY <1>1, <2>7, <2>8 DEF Promise!Succeed
  <2> QED BY <1>5, <2>9 DEF Promise!Next
<1> QED BY <1>6, <1>7, <1>8

LEMMA NoAnswerStep ==
    ASSUME IInv, NoAnswer PROVE IInv' /\ [Promise!Next]_(Promise!vars)
<1>1. /\ told = "none" /\ stack' = below /\ told' = "failed"
      /\ UNCHANGED <<kind, chase, once, read, over, entries, refs, asked>>
    BY DEF NoAnswer, Returns
<1>2. StackOK(kind, chase, stack', asked')
    BY <1>1, BelowNow
<1>3. entries' \in Seq(Entries) /\ refs' \in Seq(References) /\ asked' \subseteq Asked
    BY <1>1, Now
<1>4. IInv'
    BY <1>1, <1>2, <1>3, AfterCall
<1> QED BY <1>1, <1>4, PromiseFails

LEMMA NextIInv ==
    IInv /\ [Next]_vars => IInv' /\ [Promise!Next]_(Promise!vars)
<1> SUFFICES ASSUME IInv, [Next]_vars PROVE IInv' /\ [Promise!Next]_(Promise!vars)
    OBVIOUS
<1>1. CASE \E e \in Entries : EntryArrives(e)
    BY <1>1, EntryStep
<1>2. CASE \E p \in Place : \E urls \in Refers[p] : ReferenceArrives(urls)
    BY <1>2, ReferenceStep
<1>3. CASE ReferralDone
    BY <1>3, ReferralDoneStep
<1>4. CASE \E code \in Codes : ResultArrives(code)
    BY <1>4, ResultStep
<1>5. CASE ReferralArrives
    BY <1>5, ReferralStep
<1>6. CASE NoAnswer
    BY <1>6, NoAnswerStep
<1>7. CASE Read
    BY <1>7, ReadStep
<1>8. CASE UNCHANGED vars
  <2>1. UNCHANGED <<kind, chase, stack, entries, refs, told, once, read, over, asked>>
    BY <1>8 DEF vars
  <2>2. StackOK(kind, chase, stack, asked)'
    BY <2>1 DEF IInv, StackOK
  <2>3. (kind = "search" /\ told = "none" => NothingLost(stack, asked, entries, refs))'
    BY <2>1 DEF IInv, NothingLost, EntryLeft, ReferenceLeft, Among
  <2>4. UnchasedIsSafe' /\ EntriesBeforeReferences'
    BY <2>1 DEF IInv, UnchasedIsSafe, EntriesBeforeReferences
  <2>5. IInv'
    BY <2>1, <2>2, <2>3, <2>4 DEF IInv
  <2> QED BY <2>1, <2>5, PromiseStutters
<1> QED BY <1>1, <1>2, <1>3, <1>4, <1>5, <1>6, <1>7, <1>8 DEF Next

-----------------------------------------------------------------------------
(* The invariant holds throughout. *)
THEOREM Inductive == Spec => []IInv
<1>1. Init => IInv
    BY InitIInv
<1>2. IInv /\ [Next]_vars => IInv'
    BY NextIInv
<1> QED BY <1>1, <1>2, PTL DEF Spec

(* The model is typed: the state of LDAPMessageQueue and LDAPSearchResults *)
(* is what their classes allow, and no stack is deeper than the hop limit  *)
(* lets it be.                                                             *)
THEOREM TypeCorrect == Spec => []TypeOK
<1> QED BY Inductive, InvImplies, PTL

(* A call refines the promise: whatever servers there are and however they *)
(* refer to each other, a search that succeeds has every entry and every   *)
(* reference of every place it asked (LDAPMessageQueue::getNext,           *)
(* chaseReferral).                                                         *)
THEOREM SearchesAreComplete == Spec => SearchIsComplete
<1>1. Init => Promise!Init
    BY InitIInv
<1>2. IInv /\ [Next]_vars => [Promise!Next]_(Promise!vars)
    BY NextIInv
<1> QED BY <1>1, <1>2, Inductive, PTL DEF Spec, SearchIsComplete, Promise!Spec

(* Who reads to the end has every entry before the exception for a         *)
(* reference (LDAPSearchResults::getNext).                                 *)
THEOREM EntriesComeFirst == Spec => []EntriesBeforeReferences
<1>1. IInv => EntriesBeforeReferences
    BY DEF IInv
<1> QED BY <1>1, Inductive, PTL

(* A call that follows no referrals, as those of the editor, never asks an *)
(* empty stack for its next message.                                       *)
THEOREM UnchasedNeverCrashes == Spec => []UnchasedIsSafe
<1>1. IInv => UnchasedIsSafe
    BY DEF IInv
<1> QED BY <1>1, Inductive, PTL
=============================================================================
