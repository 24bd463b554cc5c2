--------------------------- MODULE MCEntrySelection ---------------------------
(* Instance of EntrySelection for TLC: siblings are interchangeable.        *)
EXTENDS EntrySelection, TLC

Symmetry == Permutations(Existing) \cup Permutations(NewEntries)
=============================================================================
