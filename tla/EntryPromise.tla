----------------------------- MODULE EntryPromise -----------------------------
(***************************************************************************)
(* What the entries of the wrapper library promise: a map from attribute   *)
(* names, whatever their case, to lists of values.  An attribute that has  *)
(* a binary value on the server is lost when the entry is read: nothing is *)
(* promised of its values, except that none of them is shown.              *)
(***************************************************************************)
EXTENDS Integers, Sequences, FiniteSets

CONSTANTS
    Names, Plain, Binary,
    Lists   \* the lists of values considered

VARIABLES
    server,  \* what the server holds
    held,    \* the values the entry holds, in order
    lost     \* the names whose values were given up

vars == <<server, held, lost>>

Values == Plain \union Binary
Listed(s) == {s[i] : i \in 1..Len(s)}

Init == /\ server \in [Names -> SUBSET Values]
        /\ held = [n \in Names |-> <<>>] /\ lost = {}

Clear == /\ held' = [n \in Names |-> <<>>] /\ lost' = {}
         /\ UNCHANGED server

\* Every value once, or none.
Receive(n) ==
    /\ held[n] = <<>>
    /\ IF server[n] \subseteq Plain
       THEN /\ \E s \in [1..Cardinality(server[n]) -> server[n]] :
                   Listed(s) = server[n] /\ held' = [held EXCEPT ![n] = s]
            /\ UNCHANGED lost
       ELSE lost' = lost \union {n} /\ UNCHANGED held
    /\ UNCHANGED server

Put(n, v)  == held' = [held EXCEPT ![n] = Append(@, v)] /\ UNCHANGED <<server, lost>>
Set(n, vs) == held' = [held EXCEPT ![n] = vs] /\ UNCHANGED <<server, lost>>
Forget(n)  == /\ held' = [held EXCEPT ![n] = <<>>] /\ lost' = lost \ {n}
              /\ UNCHANGED server
Renew(n, vs) == /\ held' = [held EXCEPT ![n] = vs] /\ lost' = lost \ {n}
                /\ UNCHANGED server

\* A modification is about one name, in whatever case: it makes the server
\* hold what the entry holds, or adds one value, or removes them all.
Store(n)     == server' = [server EXCEPT ![n] = Listed(held[n])]
Insert(n, v) == server' = [server EXCEPT ![n] = @ \union {v}]
Remove(n)    == server' = [server EXCEPT ![n] = {}]

Next == \/ Clear
        \/ \E n \in Names :
               \/ Receive(n) \/ Forget(n)
               \/ \E v \in Values : Put(n, v)
               \/ \E vs \in Lists : Set(n, vs) \/ Renew(n, vs)
               \/ /\ Store(n) \/ Remove(n) \/ \E v \in Values : Insert(n, v)
                  /\ UNCHANGED <<held, lost>>

Spec == Init /\ [][Next]_vars
===============================================================================
