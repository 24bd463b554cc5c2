----------------------------- MODULE MessageQueue -----------------------------
(***************************************************************************)
(* One call of the LDAP wrapper from the request it sends to the answer of *)
(* its caller: LDAPMessageQueue keeps a stack of the requests in progress, *)
(* the one that was sent first at the bottom and, above it, those sent     *)
(* after a referral to another server.  A search gathers the messages into *)
(* LDAPSearchResults, which its caller then reads.                         *)
(*                                                                         *)
(* A place is a host and the name a request is about there.  A server that *)
(* does not hold the name answers with a list of places that may (Moved);  *)
(* one that holds it may add references to other places to the entries of  *)
(* a search (Refers).  Servers are external: they answer in any order, may *)
(* fail, and need not be reachable.                                        *)
(*                                                                         *)
(* The editor leaves the constraints as they are made (chase = FALSE), so  *)
(* that referrals are reported and not followed; both are modelled.  That  *)
(* a request which cannot be sent may be sent again over a repaired        *)
(* session is the matter of LdapSession.                                   *)
(***************************************************************************)
EXTENDS Integers, Sequences, SequencesExt

CONSTANTS
    Hosts, Bases,    \* servers and names
    Entries,
    Holds,           \* the entries a search finds at a place
    Refers,          \* the references it finds there, each a list of places
    Moved,           \* where a place that is not held may be instead
    Scopes,          \* the scopes considered
    HopLimit         \* LDAPConstraints::getHopLimit

Place == Hosts \X Bases
Asked == Place \X (Scopes \union {"base"})

ASSUME WorldAssumption ==
    /\ Holds \in [Place -> SUBSET Entries]
    /\ \A p \in Place : \A r \in Refers[p] : r \in Seq(Place) /\ r \notin Entries
    /\ Moved \in [Place -> Seq(Place)]
    /\ \A p \in Place : Moved[p] # <<>> => Holds[p] = {} /\ Refers[p] = {}
    /\ HopLimit \in Nat

\* The request classes (constructor, sendRequest, followReferral), as far as
\* the queue can tell them apart: whether m_requestType is set, and whether a
\* referral is followed.
BindRequest     == [typed |-> FALSE, follows |-> FALSE]
SearchRequest   == [typed |-> TRUE,  follows |-> TRUE]
AddRequest      == [typed |-> TRUE,  follows |-> TRUE]
DeleteRequest   == [typed |-> TRUE,  follows |-> TRUE]
CompareRequest  == [typed |-> TRUE,  follows |-> TRUE]
ModifyRequest   == [typed |-> FALSE, follows |-> TRUE]
ModDNRequest    == [typed |-> FALSE, follows |-> TRUE]
ExtRequest      == [typed |-> FALSE, follows |-> TRUE]

Kinds == {"bind", "search", "add", "delete", "compare", "modify", "rename", "extended"}

Class == [bind |-> BindRequest, search |-> SearchRequest, add |-> AddRequest,
          delete |-> DeleteRequest, compare |-> CompareRequest,
          modify |-> ModifyRequest, rename |-> ModDNRequest,
          extended |-> ExtRequest]

VARIABLES
    kind,     \* the call
    chase,    \* LDAPConstraints::getReferralChase
    stack,    \* m_activeReq, the top last
    entries,  \* LDAPSearchResults::entryList
    refs,     \* LDAPSearchResults::refList
    told,     \* what became of the call: "none" until it returns
    once,     \* its caller reads one entry only
    read,     \* the entries its caller has read, entryPos
    over,     \* the caller has stopped reading
    asked     \* history: everything that was asked

vars == <<kind, chase, stack, entries, refs, told, once, read, over, asked>>

------------------------------------------------------------------------------
(* Requests. *)

\* LDAPRequest::equals, LDAPSearchRequest::equals: only a search looks at
\* more than the host.
Key(place, scope) == IF kind = "search" THEN <<place, scope>> ELSE <<place[1]>>

\* A request that has just been sent.  from holds the keys of the requests
\* it was made for, the nearest first, and gives the hop count.
Sent(place, scope, from) ==
    [place |-> place, scope |-> scope, from |-> from,
     left  |-> IF kind # "search" THEN {}
               ELSE Holds[place] \union IF scope = "base" THEN {} ELSE Refers[place]]

Hops(req) == Len(req.from)
IsReferral(req) == req.from # <<>>

EqualsAncestor(req) == \E i \in DOMAIN req.from : req.from[i] = Key(req.place, req.scope)

\* LDAPRequest::isCycle.  Where m_requestType was never set, requests to the
\* same host may compare equal or not.
IsCycle(req) == IF Class[kind].typed THEN {EqualsAncestor(req)}
                ELSE {FALSE, EqualsAncestor(req)}

\* Mutant: only references count as hops.
ReferralNotCounted(req, place, byReference) ==
    LET from == IF byReference THEN <<Key(req.place, req.scope)>> \o req.from ELSE req.from
    IN  IF kind = "search"
        THEN Sent(place, IF byReference /\ req.scope = "one" THEN "base" ELSE req.scope, from)
        ELSE Sent(<<place[1], req.place[2]>>, req.scope, from)

\* LDAPSearchRequest::followReferral and the like: another request to the
\* place connected to.  Only a search goes on with the name in the referral,
\* and below a reference of a one-level search lies a single entry.
Follow(req, place, byReference) ==
    LET from == <<Key(req.place, req.scope)>> \o req.from
    IN  IF kind = "search"
        THEN Sent(place, IF byReference /\ req.scope = "one" THEN "base" ELSE req.scope, from)
        ELSE Sent(<<place[1], req.place[2]>>, req.scope, from)

top   == stack[Len(stack)]
below == SubSeq(stack, 1, Len(stack) - 1)

TypeOK ==
    /\ kind \in Kinds /\ chase \in BOOLEAN /\ once \in BOOLEAN /\ over \in BOOLEAN
    /\ told \in {"none", "ok", "referral", "error", "failed", "crashed"}
    /\ \A i \in DOMAIN stack :
           /\ stack[i].place \in Place
           /\ stack[i].scope \in Scopes \union {"base"}
           /\ stack[i].left \subseteq Holds[stack[i].place] \union Refers[stack[i].place]
           /\ Hops(stack[i]) \in i - 1 .. HopLimit
           /\ kind # "search" => i = 1
    /\ entries \in Seq(Entries) /\ refs \in Seq(UNION {Refers[p] : p \in Place})
    /\ read \in 0..Len(entries)
    /\ asked \subseteq Asked
    /\ told = "none" => stack # <<>>
    /\ read > 0 \/ over => told = "ok"

Init ==
    /\ kind \in Kinds /\ chase \in BOOLEAN /\ once \in BOOLEAN
    /\ \E p \in Place, s \in IF kind = "search" THEN Scopes ELSE {"base"} :
           /\ stack = <<Sent(p, s, <<>>)>>
           /\ asked = {<<p, s>>}
    /\ entries = <<>> /\ refs = <<>> /\ told = "none" /\ read = 0 /\ over = FALSE

------------------------------------------------------------------------------
(* The call. *)

\* What LDAPConnection makes of a result code: compare wants one of its own.
Accepted == IF kind = "compare" THEN {"true", "false"} ELSE {"success"}

Told(code) == CASE code \in Accepted  -> "ok"
                [] code = "referral" -> "referral"
                [] OTHER             -> "error"

Returns(how) == told' = how /\ UNCHANGED <<kind, chase, once, read, over>>

GoesOn == UNCHANGED <<kind, chase, once, told, read, over>>

\* SEARCH_ENTRY.
EntryArrives(e) ==
    /\ told = "none" /\ e \in top.left
    /\ stack' = [stack EXCEPT ![Len(stack)].left = @ \ {e}]
    /\ entries' = Append(entries, e)
    /\ GoesOn /\ UNCHANGED <<refs, asked>>

\* chaseReferral.  referralConnect connects to the first place that can be
\* connected to; the new request replaces rest of the stack's top.
Chases(urls, rest, byReference) ==
    \E i \in DOMAIN urls :
        LET req == Follow(top, urls[i], byReference)
        IN  /\ Hops(req) <= HopLimit
            /\ FALSE \in IsCycle(req)
            /\ stack' = Append(rest, req)
            /\ asked' = asked \union {<<req.place, req.scope>>}

\* It throws: the limit is exceeded, or the request has been made before.
Refuses(urls, byReference) ==
    \E i \in DOMAIN urls :
        LET req == Follow(top, urls[i], byReference)
        IN  HopLimit < Hops(req) \/ TRUE \in IsCycle(req)

\* Mutant: the constraints are not asked.
AlwaysChases == Class[kind].follows

MayChase == chase /\ Class[kind].follows

\* Mutant: a reference that cannot be followed is forgotten.
ReferenceForgotten(urls) ==
    /\ told = "none" /\ urls \in top.left
    /\ LET seen == [stack EXCEPT ![Len(stack)].left = @ \ {urls}]
       IN  \/ /\ MayChase /\ Chases(urls, seen, TRUE)
              /\ GoesOn /\ UNCHANGED refs
           \/ /\ MayChase /\ Refuses(urls, TRUE)
              /\ stack' = seen
              /\ Returns("failed") /\ UNCHANGED <<refs, asked>>
           \/ /\ stack' = seen
              /\ GoesOn /\ UNCHANGED <<asked, refs>>
    /\ UNCHANGED entries

\* SEARCH_REFERENCE: followed, or else left to the caller.
ReferenceArrives(urls) ==
    /\ told = "none" /\ urls \in top.left
    /\ LET seen == [stack EXCEPT ![Len(stack)].left = @ \ {urls}]
       IN  \/ /\ MayChase /\ Chases(urls, seen, TRUE)
              /\ GoesOn /\ UNCHANGED refs
           \/ /\ MayChase /\ Refuses(urls, TRUE)
              /\ stack' = seen
              /\ Returns("failed") /\ UNCHANGED <<refs, asked>>
           \/ /\ stack' = seen /\ refs' = Append(refs, urls)
              /\ GoesOn /\ UNCHANGED asked
    /\ UNCHANGED entries

\* SEARCH_DONE of a request sent after a referral: the search goes on where
\* it was.  If that request had taken the place of the first one there is
\* nothing to go on with: getNext returns no message, and
\* LDAPSearchResults::readMessageQueue asks it for its type.
ReferralDone ==
    /\ told = "none" /\ kind = "search" /\ IsReferral(top)
    /\ Moved[top.place] = <<>> /\ top.left = {}
    /\ stack' = below
    /\ IF below = <<>> THEN Returns("crashed") ELSE GoesOn
    /\ UNCHANGED <<entries, refs, asked>>

\* Any other result ends the call.
ResultArrives(code) ==
    /\ told = "none" /\ code \in Accepted \union {"busy"}
    /\ code # "busy" => top.left = {} /\ Moved[top.place] = <<>>
    /\ code = "success" /\ kind = "search" => ~IsReferral(top)
    /\ stack' = below
    /\ Returns(Told(code))
    /\ UNCHANGED <<entries, refs, asked>>

\* REFERRAL: this server cannot answer.  The new request takes the place of
\* the old one.
ReferralArrives ==
    LET urls == Moved[top.place]
    IN  /\ told = "none" /\ urls # <<>>
        /\ \/ /\ MayChase /\ Chases(urls, below, FALSE)
              /\ GoesOn
           \/ /\ MayChase /\ Refuses(urls, FALSE)
              /\ Returns("failed") /\ UNCHANGED <<stack, asked>>
           \/ Returns("referral") /\ UNCHANGED <<stack, asked>>
        /\ UNCHANGED <<entries, refs>>

\* LDAPRequest::getNextMessage throws.
NoAnswer ==
    /\ told = "none"
    /\ stack' = below
    /\ Returns("failed") /\ UNCHANGED <<entries, refs, asked>>

(* Its caller. *)

\* Mutant: references come before entries.
ReadReferencesFirst ==
    /\ told = "ok" /\ ~over
    /\ read' = IF read < Len(entries) /\ refs = <<>> THEN read + 1 ELSE read
    /\ over' = (once \/ read' = read)
    /\ UNCHANGED <<kind, chase, stack, entries, refs, told, once, asked>>

\* LDAPSearchResults::getNext: the entries, then an exception for the first
\* reference, or else the end.  No caller reads on after either.
Read ==
    /\ told = "ok" /\ ~over
    /\ read' = IF read < Len(entries) THEN read + 1 ELSE read
    /\ over' = (once \/ read' = read)
    /\ UNCHANGED <<kind, chase, stack, entries, refs, told, once, asked>>

Codes == {"success", "true", "false", "busy"}

Next == \/ \E e \in Entries : EntryArrives(e)
        \/ \E p \in Place : \E urls \in Refers[p] : ReferenceArrives(urls)
        \/ ReferralDone
        \/ \E code \in Codes : ResultArrives(code)
        \/ ReferralArrives
        \/ NoAnswer
        \/ Read

Spec == Init /\ [][Next]_vars

\* A call is straight-line code, and each message it waits for comes or is
\* given up.
FairSpec == Spec /\ WF_vars(Next)

------------------------------------------------------------------------------
(* Properties. *)

\* What is found, and where a reference leads (followReferral).
EntriesAt == [a \in Asked |-> Holds[a[1]]]
ReferencesAt == [a \in Asked |->
    IF Moved[a[1]] # <<>> THEN {Moved[a[1]]}
    ELSE IF a[2] = "base" THEN {} ELSE Refers[a[1]]]
LeadsTo(a, r, b) ==
    /\ \E i \in DOMAIN r : b[1] = r[i]
    /\ b[2] = IF a[2] = "one" /\ Moved[a[1]] = <<>> THEN "base" ELSE a[2]
Leads == {step \in Asked \X (UNION {ReferencesAt[a] : a \in Asked}) \X Asked :
              LeadsTo(step[1], step[2], step[3])}

\* Only a search promises anything; for one that crashes it is enough that it
\* does not succeed.
Outcome == IF kind # "search" THEN "none"
           ELSE IF told = "crashed" THEN "failed" ELSE told

Promise == INSTANCE SearchPromise WITH
    EntriesOf <- EntriesAt, ReferencesOf <- ReferencesAt, reported <- refs,
    told <- Outcome

\* A search that succeeds has lost nothing on the way through the stack of
\* requests: whatever order messages came in and whichever referrals were
\* followed, refused or answered by further ones, every entry of every place
\* asked is in the list and every reference was followed or is reported
\* (LDAPMessageQueue::getNext, LDAPSearchResults::readMessageQueue).
SearchIsComplete == Promise!Spec

\* A caller that reads to the end has every entry before it meets the
\* exception for a reference (LDAPSearchResults::getNext; construct and
\* CLdapData::search rely on it when they swallow that exception).
EntriesBeforeReferences == over /\ ~once => read = Len(entries)

\* Every call returns, also when servers refer to each other in circles.
CallReturns == <>(told # "none")

\* The editor, which leaves the constraints as they are made, never meets the
\* end of an empty stack.
UnchasedIsSafe == ~chase => told # "crashed"
================================================================================
