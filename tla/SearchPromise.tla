----------------------------- MODULE SearchPromise -----------------------------
(***************************************************************************)
(* What a search promises its caller when the directory is spread over     *)
(* several servers.  It asks the server it was sent to and any others that *)
(* it is referred to.  It may fail at any time, and then says so.  When it *)
(* succeeds, the caller has every entry of every place that was asked, and *)
(* every reference to a place that was not.                                *)
(***************************************************************************)
EXTENDS Integers, Sequences

CONSTANTS
    Asked,        \* what can be asked: a place and a scope
    EntriesOf,    \* the entries found there
    ReferencesOf, \* the references found there
    Leads         \* <<a, r, b>>: following the reference r found at a leads to b

VARIABLES
    asked,    \* what has been asked
    entries,  \* the entries collected
    reported, \* the references left to the caller
    told      \* "none" as long as the search goes on

vars == <<asked, entries, reported, told>>

Collected(s) == {s[i] : i \in 1..Len(s)}

\* Nothing of what was asked is missing.
Complete ==
    \A a \in asked :
        /\ EntriesOf[a] \subseteq Collected(entries)
        /\ \A r \in ReferencesOf[a] :
               r \in Collected(reported) \/ \E b \in asked : <<a, r, b>> \in Leads

Init == /\ \E a \in Asked : asked = {a}
        /\ entries = <<>> /\ reported = <<>> /\ told = "none"

Ask(a) == /\ told = "none"
          /\ asked' = asked \union {a}
          /\ UNCHANGED <<entries, reported, told>>

Collect(e) == /\ told = "none" /\ \E a \in asked : e \in EntriesOf[a]
              /\ entries' = Append(entries, e)
              /\ UNCHANGED <<asked, reported, told>>

Report(r) == /\ told = "none" /\ \E a \in asked : r \in ReferencesOf[a]
             /\ reported' = Append(reported, r)
             /\ UNCHANGED <<asked, entries, told>>

Succeed == /\ told = "none" /\ Complete
           /\ told' = "ok"
           /\ UNCHANGED <<asked, entries, reported>>

Fail(how) == /\ told = "none" /\ told' = how
             /\ UNCHANGED <<asked, entries, reported>>

Next == \/ \E a \in Asked : Ask(a)
        \/ \E a \in asked : \/ \E e \in EntriesOf[a] : Collect(e)
                            \/ \E r \in ReferencesOf[a] : Report(r)
        \/ Succeed
        \/ \E how \in {"referral", "error", "failed"} : Fail(how)

Spec == Init /\ [][Next]_vars
================================================================================
