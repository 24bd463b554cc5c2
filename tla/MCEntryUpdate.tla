---- MODULE MCEntryUpdate ----
(* One attribute every entry may have and one that an auxiliary class adds. *)
EXTENDS EntryUpdate, TLC

CONSTANTS mail, shadowMax, shadowAccount, v1, v2, d1

MCAttrsOf == shadowAccount :> {shadowMax}

MCSyntax == mail :> {v1, v2} @@ shadowMax :> {d1}

Symmetry == Permutations({v1, v2})
==============================
